------------------------------ MODULE MCParts -------------------------------
(***************************************************************************)
(* The parts that share no state with one another, each by itself: a       *)
(* behaviour is one of the CAN listener with the RAM buffer behind it, of  *)
(* the importer, the exporter or the bucketing of records.                 *)
(***************************************************************************)
EXTENDS Capture, Import, Export, Buckets, TLC

CONSTANTS Subjects, Present   \* what the archive holds before an export
VARIABLE subject

archiveVars == <<bucket, importVars, exportVars, bucketVars>>
partVars == <<subject, captureVars, archiveVars>>

\* Without a listener there is no interface.
PartsInit ==
  /\ subject \in Subjects
  /\ IF subject = "buffer" THEN CaptureInit
     ELSE Init /\ link = "absent" /\ changes = 0 /\ NoListener
  /\ bucket = IF subject = "export" THEN Present ELSE {}
  /\ ImportInit /\ ExportInit /\ BucketsInit

Capturing == subject = "buffer" /\ CaptureNext /\ UNCHANGED <<subject, archiveVars>>
Importing ==
  subject = "import" /\ ImportNext /\ UNCHANGED <<subject, captureVars, exportVars, bucketVars>>
Exporting ==
  subject = "export" /\ ExportNext /\ UNCHANGED <<subject, captureVars, importVars, bucketVars>>
Bucketing ==
  /\ subject = "buckets" /\ BucketsNext
  /\ UNCHANGED <<subject, captureVars, bucket, importVars, exportVars>>

PartsNext == Capturing \/ Importing \/ Exporting \/ Bucketing
PartsSpec == PartsInit /\ [][PartsNext]_partVars /\ WF_partVars(Capturing /\ ListenerStep)

----------------------------------------------------------------------------
\* Six frames of unequal size over a cap of three bytes: one frame is larger
\* than the cap, and one arrival can push out several.
MCNBytes == <<1, 2, 1, 4, 3, 1>>

----------------------------------------------------------------------------
\* Two rows at one instant, one that ends a day, one of the next.
MCRow == {[at |-> 0, line |-> 1], [at |-> 0, line |-> 2], [at |-> 1, line |-> 1], [at |-> 2, line |-> 1]}

----------------------------------------------------------------------------
RawKey(day, name, proto) == [root |-> "raw", day |-> day, name |-> name, proto |-> proto, cid |-> name]
LogKey(day, name, app, segments) ==
  [root |-> "_log", day |-> day, name |-> name, app |-> app, segments |-> segments]

\* One object of each protocol, a malformed one, a file someone left under raw/,
\* and an audit entry of each layout.
MCStored ==
  (RawKey(1, 1, "n2k") :> <<"ok", "odd">>) @@ (RawKey(1, 2, "n0183") :> <<"ok">>)
  @@ (RawKey(2, 3, "n2k") :> <<"ok", "bad">>) @@ (RawKey(0, 4, "") :> <<>>)
  @@ (LogKey(1, 1, "", 5) :> <<"ok">>) @@ (LogKey(1, 2, "logger", 6) :> <<"ok">>)

MCPresent == {RawKey(1, 1, "n2k")} \cup {k \in DOMAIN MCStored : k.root = "_log"}

Raw(until, proto, fmt, file) ==
  [source |-> "raw", since |-> 1, until |-> until, proto |-> proto, app |-> All, fmt |-> fmt, file |-> file]
Log(app) ==
  [source |-> "_log", since |-> 1, until |-> 2, proto |-> All, app |-> app, fmt |-> "csv", file |-> FALSE]
\* Up to two days are listed one by one here.
MCRequests ==
  {Raw(2, "n2k", "candump", TRUE), Raw(3, "n0183", "csv", TRUE), Raw(1, All, "ndjson", FALSE),
   Log(All), Log("logger")}

----------------------------------------------------------------------------
Sentence(type, ts, attrs, lat, lon) ==
  [proto |-> "n0183", ts |-> ts, type |-> type, parses |-> TRUE, status |-> "A", ref |-> "R",
   attrs |-> attrs, lat |-> lat, lon |-> lon, gps |-> {}]
Whole(deg) == {[deg |-> deg, min |-> 30, negative |-> TRUE]}

N2kFrame(ts, prio, pgn, src, part, fields) ==
  [proto |-> "n2k", ts |-> ts, canId |-> prio * 2^26 + pgn * 2^8 + src, part |-> part, msg |-> "m",
   bandg |-> FALSE, fields |-> fields]
Number(id, v) == [id |-> id, type |-> "number", value |-> {v}]
Text(id, v) == [id |-> id, type |-> "lookup", value |-> {v}]
Sog(ts, prio, src) == N2kFrame(ts, prio, 129026, src, "whole", {Number("sog", 3)})
Angle(ref) == N2kFrame(1, 2, 130306, 1, "whole", {Number("windAngle", 7), Text("reference", ref)})
Split(ts, part) == N2kFrame(ts, 6, 130316, 5, part, {Number("waterTemperature", 29000)})

\* Speeds of one device, of another of its priority and of one with a better;
\* positions whole and half; angles to port; a split message; a reading no
\* water has.
MCRecords ==
  {Sog(0, 2, 1), Sog(1, 2, 1), Sog(1, 2, 0), Sog(0, 1, 9), Split(1, "first"), Split(2, "last"),
   Angle("Apparent"),
   Sentence("RMC", 0, [spd_over_grnd |-> {5000}], Whole(33), Whole(151)),
   Sentence("RMC", 1, [spd_over_grnd |-> {5100}], Whole(34), Whole(181)),
   Sentence("MWV", 1, [wind_angle |-> {27000}, wind_speed |-> {}], {}, {}),
   Sentence("MDA", 3, [water_temp |-> {9000}], {}, {})}
=============================================================================
