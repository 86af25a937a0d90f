------------------------------- MODULE Decode -------------------------------
(***************************************************************************)
(* One archive record -> its samples, (column, value, priority, source):   *)
(* pg/wire_n0183.py, pg/wire_n2k.py, pg/ranges.py and samples() of         *)
(* pg/bucket.py.                                                           *)
(*                                                                         *)
(* A value that may be missing is a set of at most one element: an         *)
(* attribute pynmea2 lacks, returns empty, raises on or that float()       *)
(* refuses is {} in all four cases, which decode_sentence treats alike.    *)
(* Angles are in hundredths of a degree, speeds in thousandths of a knot,  *)
(* temperatures in hundredths of a degree, times in seconds.  On the bus   *)
(* they come in eighths of a turn, m/s and hundredths of a kelvin.         *)
(* A column name is the tuple of the parts the code joins with `_'.        *)
(***************************************************************************)
EXTENDS Integers, Sequences, FiniteSets, FiniteSetsExt

(* STATUS_SENTENCES, SENTENCE_FIELDS, FOLD_TO_SIGNED, XDR_TRANSDUCERS.     *)
StatusSentences == {"MWV", "RMC", "ROT", "GLL"}
PositionSentences == {"RMC", "GLL"}

Plain(type, names) ==
  {[type |-> type, suffix |-> n, attr |-> n, ref |-> {}] : n \in names}
SentenceFields ==
  {[type |-> "MWV", suffix |-> x[1], attr |-> x[2], ref |-> {x[3]}] :
     x \in {<<"wind_angle_r", "wind_angle", "R">>, <<"wind_angle_t", "wind_angle", "T">>,
            <<"wind_speed_r", "wind_speed", "R">>, <<"wind_speed_t", "wind_speed", "T">>}}
  \cup Plain("MWD", {"direction_magnetic"}) \cup Plain("VHW", {"water_speed_knots"})
  \cup Plain("VTG", {"spd_over_grnd_kts", "true_track"})
  \cup Plain("RMC", {"spd_over_grnd", "true_course"})
  \cup Plain("HDG", {"heading"}) \cup Plain("HDM", {"heading"})
  \cup Plain("ROT", {"rate_of_turn"}) \cup Plain("RSA", {"rsa_starboard"})
  \cup Plain("DBT", {"depth_meters"}) \cup Plain("MDA", {"water_temp"})

FoldToSigned == {<<"MWV", "wind_angle_r">>, <<"MWV", "wind_angle_t">>}
XdrTransducers == {"BATTV", "Roll", "M5_HEEL", "Pitch", "M5_PITCH",
                   "RAW_WIND_S", "RAW_WIND_A", "RAW_BSP"}

Fold180(deg) == IF deg > 18000 THEN deg - 36000 ELSE deg

(* SCALE: degrees per minute to degrees per second, for ROT.              *)
Scaled(col, v) == IF col = <<"ROT", "rate_of_turn">> THEN v \div 60 ELSE v

(* _degrees: p is {} when ddmm is malformed or the letter is not one of two. *)
Degrees(p, limit) ==
  {(IF q.negative THEN -1 ELSE 1) * (q.deg * 100 + (q.min * 100) \div 60) :
     q \in {x \in p : x.min < 60 /\ x.deg * 60 + x.min <= limit * 60}}

\* A latitude or longitude as a sentence has it: one value, or none.
IsAngle(p) == /\ \A x \in p : x.deg \in Nat /\ x.min \in Nat /\ x.negative \in BOOLEAN
              /\ \A x, y \in p : x = y

\* Mutant: each half is kept on its own.
PositionHalves(s) ==
  {<<<<s.type, "latitude">>, v>> : v \in Degrees(s.lat, 90)}
  \cup {<<<<s.type, "longitude">>, v>> : v \in Degrees(s.lon, 180)}

(* _position: both or neither.                                            *)
Position(s) ==
  UNION {{<<<<s.type, "latitude">>, x[1]>>, <<<<s.type, "longitude">>, x[2]>>} :
           x \in Degrees(s.lat, 90) \X Degrees(s.lon, 180)}

(* rmc_gps_time and _clock_offset: s.gps is {} unless date and time combine. *)
GpsClock(s, ts) ==
  UNION {{<<<<"RMC", "gps_time">>, g>>, <<<<"RMC", "clock_offset">>, ts - g>>} : g \in s.gps}

(* One entry of SENTENCE_FIELDS applied to a sentence.                    *)
FieldOf(s, e) ==
  LET col == <<s.type, e.suffix>>
  IN  IF e.ref # {} /\ s.ref \notin e.ref THEN {}
      ELSE {<<col, Scaled(col, IF col \in FoldToSigned THEN Fold180(v) ELSE v)>> :
              v \in IF e.attr \in DOMAIN s.attrs THEN s.attrs[e.attr] ELSE {}}

(* decode_sentence.  XDR never meets pynmea2, so neither a checksum nor a  *)
(* parse decides about it; the transducer names are case sensitive.        *)
DecodeSentence(s, ts) ==
  IF s.type = "XDR"
  THEN UNION {{<<<<"XDR", n>>, v>> : v \in s.attrs[n]} : n \in DOMAIN s.attrs \cap XdrTransducers}
  ELSE IF ~s.parses \/ (s.type \in StatusSentences /\ s.status # "A") THEN {}
  ELSE (UNION {FieldOf(s, e) : e \in {x \in SentenceFields : x.type = s.type}})
       \cup (IF s.type \in PositionSentences THEN Position(s) ELSE {})
       \cup (IF s.type = "RMC" THEN GpsClock(s, ts) ELSE {})

----------------------------------------------------------------------------
(* NMEA 2000.  A frame carries a whole message, or the first or last part  *)
(* of one; a message is a set of fields as nmea2000 returns them.          *)

Discriminators == {"reference", "source", "instance", "type", "temperatureSource"}
GpsTimePgns == {126992, 129029}
ClockFields == {"date", "time"}
SkipLookups == {"manufacturerCode", "industryCode", "proprietaryId",
                "messageId", "repeatIndicator"}
BandgRawKeys == {<<66, "bandg_raw_bsp">>, <<74, "bandg_raw_heading">>,
                 <<78, "bandg_raw_wind_s">>, <<82, "bandg_raw_wind_a">>}
AngleFields == {"heading", "variation", "position", "windAngle", "cog", "set", "roll",
                "pitch", "yaw", "leewayAngle", "rate"}
SpeedFields == {"speedWaterReferenced", "windSpeed", "sog", "drift"}
TemperatureFields == {"actualTemperature", "temperature", "setTemperature",
                      "waterTemperature", "outsideAmbientAirTemperature"}

(* CONVERSIONS: _deg, _kn, _degC.                                         *)
Converted(id, v) ==
  CASE id \in AngleFields -> v * 4500
    [] id \in SpeedFields -> (v * 194384 + 50) \div 100
    [] id \in TemperatureFields -> v - 27315
    [] OTHER -> v

(* decode_can_id: (pgn, src_addr, priority).                              *)
DecodeCanId(id) ==
  LET pf == (id \div 2^16) % 256
      ps == (id \div 2^8) % 256
      dp == (id \div 2^24) % 4
  IN  [pgn |-> dp * 2^16 + pf * 2^8 + (IF pf >= 240 THEN ps ELSE 0),
       src |-> id % 256,
       priority |-> (id \div 2^26) % 8]

\* The library's fast-packet state: the messages whose first part it holds.
HeldAfter(f, held) ==
  CASE f.part = "first" -> held \cup {f.msg}
    [] f.part = "last" -> held \ {f.msg}
    [] OTHER -> held
Completes(f, held) == f.part = "whole" \/ (f.part = "last" /\ f.msg \in held)

(* decode_frame's loop.  A field is its id, the library's type and its value: *)
(* the text of a discriminator, the code of another lookup, the <<key, count>> *)
(* entries of a list.  "reserved" stands for every reserved field.             *)
Live(f) == {x \in f.fields : x.value # {} /\ x.id \notin {"sid", "reserved"}}
Disc(f) == UNION {{<<x.id, v>> : v \in x.value} : x \in {y \in Live(f) : y.id \in Discriminators}}
Clock(f, pgn) == {x \in Live(f) : x.id \in ClockFields /\ pgn \in GpsTimePgns}

(* _bandg_raw                                                              *)
BandgRaw(entries) ==
  {<<p[1][2], "", p[2][2]>> : p \in {q \in BandgRawKeys \X entries : q[1][1] = q[2][1]}}

FieldValues(f, x) ==
  CASE x.type = "lookup" -> {<<x.id, "code", v>> : v \in IF x.id \in SkipLookups THEN {} ELSE x.value}
    [] x.type = "list" -> IF f.bandg THEN UNION {BandgRaw(v) : v \in x.value} ELSE {}
    [] x.type = "number" -> {<<x.id, "", Converted(x.id, v)>> : v \in x.value}
    [] OTHER -> {}

(* gps_time: date and time of a PGN that has them from GPS.               *)
GpsTime(f, pgn) ==
  IF {x.id : x \in Clock(f, pgn)} # ClockFields \/ (pgn = 126992 /\ <<"source", "GPS">> \notin Disc(f))
  THEN {}
  ELSE {<<"gps_time", "", SumSet(UNION {x.value : x \in Clock(f, pgn)})>>}

\* Two of the library's names for what a true wind is measured against.
BoatReferenced == "True (boat referenced)"
GroundReferenced == "Magnetic (ground referenced to Magnetic North)"

(* The boat-referenced wind angle folds, the compass bearing does not.    *)
WindFolded(f, v) ==
  IF v[1] = "windAngle" /\ Disc(f) \cap ({"reference"} \X {"Apparent", BoatReferenced}) # {}
  THEN <<v[1], v[2], Fold180(v[3])>> ELSE v

(* decode_frame and internal_name: {<<column, value>>}.                   *)
DecodeFrame(f, pgn) ==
  LET measured == {x \in Live(f) \ Clock(f, pgn) : x.id \notin Discriminators}
      values == (UNION {FieldValues(f, x) : x \in measured}) \cup GpsTime(f, pgn)
  IN  {<<<<"n2k", w[1], w[2], Disc(f)>>, w[3]>> : w \in {WindFolded(f, v) : v \in values}}

----------------------------------------------------------------------------
(* RANGES, by the unit of each group; a column in no group has no bound.  *)
Column(id, disc) == <<"n2k", id, "", disc>>
N2k(id) == Column(id, {})
Referred(id, ref) == Column(id, {<<"reference", ref>>})
Sea == {<<"instance", "0">>, <<"source", "Sea Temperature">>}

Ranges == {
  [low |-> 0, high |-> 36000, cols |->
     {<<"RMC", "true_course">>, <<"VTG", "true_track">>, <<"HDM", "heading">>,
      <<"HDG", "heading">>, <<"MWD", "direction_magnetic">>, N2k("cog"), N2k("set"),
      Referred("heading", "Magnetic"),
      Referred("windAngle", GroundReferenced)}],
  [low |-> -18000, high |-> 36000, cols |->
     FoldToSigned \cup {Referred("windAngle", "Apparent"), Referred("windAngle", BoatReferenced)}],
  [low |-> -9000, high |-> 9000, cols |->
     {<<"RMC", "latitude">>, <<"GLL", "latitude">>, N2k("latitude"), N2k("roll"), N2k("pitch"),
      <<"XDR", "M5_HEEL">>, <<"XDR", "Roll">>, <<"XDR", "M5_PITCH">>, <<"XDR", "Pitch">>}],
  [low |-> -18000, high |-> 18000, cols |->
     {<<"RMC", "longitude">>, <<"GLL", "longitude">>, N2k("longitude")}],
  [low |-> 0, high |-> 4000, cols |->
     {<<"MDA", "water_temp">>, Column("actualTemperature", Sea),
      Column("temperature", Sea), N2k("waterTemperature")}],
  [low |-> -3000, high |-> 6000, cols |-> {N2k("outsideAmbientAirTemperature")}],
  [low |-> 0, high |-> 100000, cols |->
     {<<"MWV", "wind_speed_r">>, <<"MWV", "wind_speed_t">>, Referred("windSpeed", "Apparent"),
      Referred("windSpeed", BoatReferenced)}]}

(* in_range                                                               *)
InRange(col, v) == \A g \in Ranges : col \in g.cols => g.low <= v /\ v <= g.high

----------------------------------------------------------------------------
(* samples() of pg/bucket.py.  0183 has neither priority nor address.     *)
AnyPrio == 2^30
AnySrc == 2^30

\* The samples of a record, when the decoder holds the messages `held'.
Samples(r, held) ==
  CASE r.proto = "n2k" ->
         LET id == DecodeCanId(r.canId)
         IN  IF ~Completes(r, held) THEN {}
             ELSE {[col |-> x[1], value |-> x[2], prio |-> id.priority, src |-> id.src, ts |-> r.ts] :
                     x \in DecodeFrame(r, id.pgn)}
    [] r.proto = "n0183" ->
         {[col |-> x[1], value |-> x[2], prio |-> AnyPrio, src |-> AnySrc, ts |-> r.ts] :
            x \in DecodeSentence(r, r.ts)}
    [] OTHER -> {}

HeldAfterRecord(r, held) == IF r.proto = "n2k" THEN HeldAfter(r, held) ELSE held
=============================================================================
