------------------------------- MODULE Export -------------------------------
(***************************************************************************)
(* nmea2s3-exporter (export.py): list, read and write out the objects of a *)
(* range, to a file or to standard output, while the logger and importers  *)
(* go on uploading.                                                        *)
(***************************************************************************)
EXTENDS Archive

CONSTANTS
  Stored,       \* Stored[k]: the lines of object k, each "ok", "odd" (a record
                \* the candump format refuses) or "bad" (not a record)
  Requests,     \* invocations: [source, since, until, proto, app, fmt, file]
  MaxExports, MaxExportFaults    \* bounds

ASSUME ExportAssumption ==
  /\ \A q \in Requests :
       /\ q.source \in {"raw", "_log"} /\ q.fmt \in {"ndjson", "csv", "candump"}
       /\ q.fmt = "candump" => q.source = "raw" /\ q.proto = "n2k"
       /\ q.since \in Nat \ {0} /\ q.until \in Nat /\ q.file \in BOOLEAN
  /\ \A k \in DOMAIN Stored :
       /\ k.day \in Nat /\ k.name \in Nat /\ Stored[k] \in Seq({"ok", "odd", "bad"})
       /\ k.root = "_log" /\ k.day # 0 => k.segments \in {5, 6}
  /\ \A k, m \in DOMAIN Stored : k.root = m.root /\ k.name = m.name => k = m

VARIABLES
  exp,          \* the running export
  out,          \* what it has written: <<key, line number>>
  tmp, path,    \* contents of the .tmp file and of the output file
  ended,        \* how the last export ended
  published,    \* history: the export that last renamed its file into place
  exports, expFaults

exportVars == <<exp, out, tmp, path, ended, published, exports, expFaults>>

NoFile == <<"none">>
NoExport == [pc |-> "idle"]

ExportInit ==
  /\ exp = NoExport /\ out = <<>> /\ tmp = NoFile /\ path = NoFile
  /\ ended = NoExport /\ published = NoExport
  /\ exports = 0 /\ expFaults = 0

ExportFault == expFaults < MaxExportFaults /\ expFaults' = expFaults + 1

----------------------------------------------------------------------------
Wanted(k, prefix, q) ==
  IF q.source = "raw" THEN RawKeyWanted(k, prefix, q) ELSE LogKeyWanted(k, q)
Raises(k, prefix, q) == q.source = "raw" /\ RawKeyRaises(k, prefix, q)

\* iter_keys lists days or everything, iter_log_keys one application or all.
ExportPrefixes(q) ==
  IF q.source = "raw" THEN ListPrefixes(q.since, q.until)
  ELSE IF q.app = All THEN <<Everything>> ELSE <<{q.app}>>

\* What make_writer's row writer accepts.
Writes(fmt, line) == line = "ok" \/ (line = "odd" /\ fmt # "candump")

(* main up to the listing: open(tmp, "w") truncates.  `began', `skipped' and *)
(* `torn' are history: the keys there at the start, those counted as failed, *)
(* and whether a write to the output failed.                                 *)
StartExport(q) ==
  /\ exp.pc = "idle" /\ exports < MaxExports
  /\ exp' = [pc |-> "list", req |-> q, after |-> {}, page |-> {}, attempt |-> 0, line |-> 0,
             prefixes |-> ExportPrefixes(q),
             began |-> bucket, skipped |-> {}, torn |-> FALSE]
  /\ out' = <<>> /\ tmp' = IF q.file THEN <<>> ELSE tmp
  /\ exports' = exports + 1
  /\ UNCHANGED <<bucket, path, ended, published, expFaults>>

(* The process exits with this code.                                      *)
Exits(code) ==
  /\ ended' = [pc |-> "exited", code |-> code, req |-> exp.req, began |-> exp.began,
               skipped |-> exp.skipped, out |-> out]
  /\ exp' = NoExport

\* Mutant: what was written is put in place however the export ends.
AbortKeeping == tmp' = NoFile /\ path' = IF exp.req.file THEN out ELSE path

(* except BaseException: the partial .tmp goes.                           *)
Abort == tmp' = (IF exp.req.file THEN NoFile ELSE tmp) /\ UNCHANGED path

\* The key at hand: the first of the page not done with.
Current(e) == CHOOSE k \in e.page : \A m \in e.page \ {k} : Precedes(k, m)

\* The next page of the prefix at hand, the next prefix, or the end.
ListPage ==
  /\ exp.pc = "list" /\ exp.page = {}
  /\ IF exp.prefixes = <<>> THEN exp' = [exp EXCEPT !.pc = "finish"]
     ELSE LET left == Remaining(exp.req.source, Head(exp.prefixes), exp.after)
          IN  IF left = {} THEN exp' = [exp EXCEPT !.prefixes = Tail(@), !.after = {}]
              ELSE \E p \in Pages(left) : exp' = [exp EXCEPT !.page = p]
  /\ UNCHANGED <<bucket, out, tmp, path, ended, published, exports, expFaults>>

(* LIST is not retried, and a key the generator cannot parse raises too.  *)
ListRaises ==
  /\ exp.pc = "list"
  /\ \/ exp.page = {} /\ exp.prefixes # <<>> /\ ExportFault
     \/ /\ exp.page # {} /\ Raises(Current(exp), Head(exp.prefixes), exp.req)
        /\ UNCHANGED expFaults
  /\ Abort /\ Exits(1)
  /\ UNCHANGED <<bucket, out, published, exports>>

\* The key at hand is done with.
Onward(e) ==
  [e EXCEPT !.pc = "list", !.page = @ \ {Current(e)}, !.after = {Current(e)}, !.line = 0]

NextKeyOfPage ==
  /\ exp.pc = "list" /\ exp.page # {}
  /\ ~Raises(Current(exp), Head(exp.prefixes), exp.req)
  /\ exp' = IF Wanted(Current(exp), Head(exp.prefixes), exp.req)
            THEN [exp EXCEPT !.pc = "get", !.attempt = 1] ELSE Onward(exp)
  /\ UNCHANGED <<bucket, out, tmp, path, ended, published, exports, expFaults>>

(* objects_failed += 1                                                    *)
Skip(e) == Onward([e EXCEPT !.skipped = @ \cup {Current(e)}])

(* The GET of iter_rows_ndjson_gz or iter_rows_log_json.                  *)
Get ==
  /\ exp.pc = "get"
  /\ exp' = [exp EXCEPT !.pc = "write", !.line = 1]
  /\ UNCHANGED <<bucket, out, tmp, path, ended, published, exports, expFaults>>

GetFails(failure) ==
  /\ exp.pc = "get" /\ ExportFault
  /\ exp' = IF GivesUp(failure, exp.attempt) THEN Skip(exp) ELSE [exp EXCEPT !.attempt = @ + 1]
  /\ UNCHANGED <<bucket, out, tmp, path, ended, published, exports>>

(* One row, or the end of the object.  A malformed row fails the object;  *)
(* its rows before that stay.                                             *)
WriteRow ==
  /\ exp.pc = "write"
  /\ LET k == Current(exp)
         more == exp.line <= Len(Stored[k])
         good == more /\ Writes(exp.req.fmt, Stored[k][exp.line])
     IN  /\ exp' = IF ~more THEN Onward(exp) ELSE IF good THEN [exp EXCEPT !.line = @ + 1] ELSE Skip(exp)
         /\ out' = IF good THEN Append(out, <<k, exp.line>>) ELSE out
         /\ tmp' = IF exp.req.file THEN out' ELSE tmp
  /\ UNCHANGED <<bucket, path, ended, published, exports, expFaults>>

(* write_row raises OSError: that is taken for a malformed row, and rows   *)
(* still buffered, earlier objects' among them, may be lost with it.       *)
DiskFull ==
  /\ exp.pc = "write" /\ exp.req.file /\ ExportFault
  /\ exp' = [Skip(exp) EXCEPT !.torn = TRUE]
  /\ \E n \in 0..Len(out) : out' = SubSeq(out, 1, n)
  /\ tmp' = out'
  /\ UNCHANGED <<bucket, path, ended, published, exports>>

(* BrokenPipeError: exit 2 at once.                                       *)
ReaderGone ==
  /\ exp.pc = "write" /\ ~exp.req.file /\ ExportFault
  /\ Exits(2)
  /\ UNCHANGED <<bucket, out, tmp, path, published, exports>>

(* Ctrl-C.                                                                *)
InterruptExport ==
  /\ exp.pc \in {"list", "get", "write"} /\ ExportFault
  /\ Abort /\ Exits(1)
  /\ UNCHANGED <<bucket, out, published, exports>>

(* flush, fsync, rename, and the exit code.                               *)
FinishExport ==
  /\ exp.pc = "finish"
  /\ IF exp.req.file THEN path' = tmp /\ tmp' = NoFile ELSE UNCHANGED <<path, tmp>>
  /\ published' = IF exp.req.file
                  THEN [pc |-> "published", req |-> exp.req, began |-> exp.began, skipped |-> exp.skipped,
                        torn |-> exp.torn]
                  ELSE published
  /\ Exits(IF exp.skipped = {} THEN 0 ELSE 2)
  /\ UNCHANGED <<bucket, out, exports, expFaults>>

(* flush or fsync raises: outside the try, so the .tmp stays.             *)
FinishFails ==
  /\ exp.pc = "finish" /\ exp.req.file /\ ExportFault
  /\ Exits(1)
  /\ UNCHANGED <<bucket, out, tmp, path, published, exports>>

KillExport ==
  /\ exp.pc # "idle" /\ ExportFault
  /\ exp' = NoExport
  /\ UNCHANGED <<bucket, out, tmp, path, ended, published, exports>>

(* The logger or an importer.                                             *)
UploadKey(k) ==
  /\ k \notin bucket /\ bucket' = bucket \cup {k}
  /\ UNCHANGED exportVars

ExportNext ==
  \/ \E q \in Requests : StartExport(q)
  \/ ListPage \/ ListRaises \/ NextKeyOfPage \/ Get \/ WriteRow \/ DiskFull
  \/ ReaderGone \/ InterruptExport \/ FinishExport \/ FinishFails \/ KillExport
  \/ \E f \in Failures : GetFails(f)
  \/ \E k \in DOMAIN Stored : UploadKey(k)

ExportSpec ==
  bucket \subseteq DOMAIN Stored /\ ExportInit /\ [][ExportNext]_<<bucket, exportVars>>

----------------------------------------------------------------------------
\* What a request asks for, whatever way it is listed.
Requested(q, keys) ==
  {k \in keys :
     /\ k.root = q.source /\ q.since <= k.day /\ k.day <= q.until
     /\ IF q.source = "raw" THEN q.proto \in {All, k.proto}
        ELSE k.day # 0 /\ (q.app = All \/ (k.segments = 6 /\ k.app = q.app))}

\* Object k's lines, each once and in their order, among the rows written.
WholeIn(rows, k) ==
  LET mine == {i \in DOMAIN rows : rows[i][1] = k}
  IN  /\ {rows[i][2] : i \in mine} = DOMAIN Stored[k]
      /\ \A i, j \in mine : i < j => rows[i][2] < rows[j][2]

Complete(e, rows) ==
  /\ \A k \in Requested(e.req, e.began) \ e.skipped : WholeIn(rows, k)
  /\ \A i \in DOMAIN rows : rows[i][1] \in Requested(e.req, DOMAIN Stored)

\* "Exit 2 means the export is incomplete": after exit 0 every object that was
\* there at the start and in range, by either way of listing, has been written
\* out whole, once, and nothing out of range has.
ExitCodeTellsTruth ==
  ended # NoExport /\ ended.code = 0 => Complete([ended EXCEPT !.skipped = {}], ended.out)

\* "A truncated file at the real output path with no sign it's incomplete":
\* what is there lacks only objects its export counted as failed, unless the
\* disk refused a write of it and the export went on.
PathIsWhole ==
  path # NoFile => published # NoExport /\ (published.torn \/ Complete(published, path))
=============================================================================
