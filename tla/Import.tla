------------------------------- MODULE Import -------------------------------
(***************************************************************************)
(* nmea2s3-migrate-n0183 (migrate_n0183.py): rows of the legacy Postgres   *)
(* table become one archive object per day.  There is no state file: every *)
(* run reads its whole range again and reconciles each day against the     *)
(* bucket.  Runs follow one another; any of them may be cut off anywhere.  *)
(***************************************************************************)
EXTENDS Archive

CONSTANTS
  Row,          \* rows the table may come to hold: [at, line], `line' the rank
                \* of the row's other output columns under the ORDER BY
  DayLength,    \* ticks of a day
  Lag,          \* --lag-seconds; rows are inserted within it
  MaxTime,      \* bound: the clock
  MaxImports,   \* bound: runs
  MaxImportFaults

ASSUME ImportAssumption ==
  /\ \A r \in Row : r.at \in Nat /\ r.line \in Nat
  /\ DayLength \in Nat \ {0} /\ Lag \in Nat /\ MaxTime \in Nat

VARIABLES
  now,          \* the clock, in ticks
  source,       \* rows in the table
  imp,          \* the running import
  audit,        \* its tool's entries under _log/
  late,         \* keys of PUTs that timed out and may still land
  imports, impFaults    \* runs and faults so far

importVars == <<now, source, imp, audit, late, imports, impFaults>>

NoImport == [pc |-> "idle", live |-> FALSE, since |-> 0, until |-> 0, day |-> 0,
             lines |-> <<>>, attempt |-> 0, failed |-> FALSE]

ImportInit ==
  /\ now = 0 /\ source = {} /\ imp = NoImport
  /\ audit = {} /\ late = {} /\ imports = 0 /\ impFaults = 0

DayOf(t) == t \div DayLength + 1
RowsOf(day) == {r \in source : DayOf(r.at) = day}
Line(r) == <<r.at, r.line>>

ImportFault == impFaults < MaxImportFaults /\ impFaults' = impFaults + 1
Goes(to) == imp' = [imp EXCEPT !.pc = to]

----------------------------------------------------------------------------
\* Time passes; a row is in the table within Lag of its received_at.
Tick == /\ now < MaxTime /\ now' = now + 1
        /\ UNCHANGED <<bucket, source, imp, audit, late, imports, impFaults>>

InsertRow(r) ==
  /\ r \notin source /\ r.at <= now /\ now - r.at <= Lag
  /\ source' = source \cup {r}
  /\ UNCHANGED <<bucket, now, imp, audit, late, imports, impFaults>>

(* main: the last day that ended before now - lag_seconds.                *)
LastCloseableDay == DayOf(now - Lag) - 1

(* main up to the loop, with --since and --until or, for 0, without.  With *)
(* an empty table or nothing to do it returns having written nothing.      *)
StartImport(live, since, until) ==
  LET first == IF since = 0 THEN Min({DayOf(r.at) : r \in source}) ELSE since
      last == IF until = 0 THEN LastCloseableDay ELSE Min({until, LastCloseableDay})
  IN  /\ imp.pc = "idle" /\ imports < MaxImports
      /\ since = 0 => source # {}
      /\ first <= last
      /\ imp' = [NoImport EXCEPT !.pc = IF live THEN "start" ELSE "query", !.live = live,
                   !.since = first, !.until = last, !.day = first]
      /\ imports' = imports + 1
      /\ UNCHANGED <<bucket, now, source, audit, late, impFaults>>

\* An entry of this run: it never raises, and is lost when its PUT fails.
LogSafely(event) ==
  \/ /\ audit' = audit \cup {[event |-> event, run |-> imports, exit |-> IF imp.failed THEN 1 ELSE 0,
                             since |-> imp.since, until |-> imp.until, day |-> imp.day]}
     /\ UNCHANGED impFaults
  \/ ImportFault /\ UNCHANGED audit

(* The start entry.                                                       *)
LogStart ==
  /\ imp.pc = "start" /\ LogSafely("start") /\ Goes("query")
  /\ UNCHANGED <<bucket, now, source, late, imports>>

\* The loop goes on to the next day, or falls through to the end.
NextDay ==
  imp' = [imp EXCEPT !.day = @ + 1,
            !.pc = IF imp.day < imp.until THEN "query" ELSE IF imp.live THEN "end" ELSE "idle"]

\* Mutant: ORDER BY received_at alone, leaving ties to the database.
OrderedByTime(s) == \A i \in 1..(Len(s) - 1) : s[i].at <= s[i + 1].at

(* ORDER BY every column that reaches the output.                         *)
Ordered(s) ==
  \A i \in 1..(Len(s) - 1) :
    s[i].at < s[i + 1].at \/ (s[i].at = s[i + 1].at /\ s[i].line <= s[i + 1].line)

(* export_day: the query, in any order the ORDER BY admits, and the key.  *)
QueryDay ==
  /\ imp.pc = "query"
  /\ IF RowsOf(imp.day) = {} THEN NextDay
     ELSE \E s \in SetToSeqs(RowsOf(imp.day)) :
            /\ Ordered(s)
            /\ imp' = [imp EXCEPT !.pc = "head", !.attempt = 1,
                         !.lines = [i \in DOMAIN s |-> Line(s[i])]]
  /\ UNCHANGED <<bucket, now, source, audit, late, imports, impFaults>>

ImportKey == S3Key("n0183", imp.day, imp.lines[1][1], imp.lines)

(* object_exists: present, or the 404 that with_retries raises quietly.   *)
HeadObject ==
  /\ imp.pc = "head"
  /\ IF ImportKey \in bucket \/ ~imp.live THEN NextDay
     ELSE imp' = [imp EXCEPT !.pc = "put", !.attempt = 1]
  /\ UNCHANGED <<bucket, now, source, audit, late, imports, impFaults>>

(* with_retries(put_object_gz)                                            *)
Put ==
  /\ imp.pc = "put"
  /\ bucket' = bucket \cup {ImportKey} /\ NextDay
  /\ UNCHANGED <<now, source, audit, late, imports, impFaults>>

\* Mutant: `except Exception', which KeyboardInterrupt is not.
LeaveUnlessInterrupted(reason) ==
  imp' = [imp EXCEPT !.pc = IF imp.live THEN "end" ELSE "idle", !.failed = reason # "interrupt"]

(* except BaseException, finally: a run cut off says so.                  *)
Leave(reason) ==
  imp' = [imp EXCEPT !.pc = IF imp.live THEN "end" ELSE "idle", !.failed = TRUE]

(* A HEAD or a PUT fails; a PUT may have been sent, and land yet.         *)
CallFails(failure) ==
  /\ imp.pc \in {"head", "put"} /\ ImportFault
  /\ IF GivesUp(failure, imp.attempt) THEN Leave("error")
     ELSE imp' = [imp EXCEPT !.attempt = @ + 1]
  /\ IF imp.pc = "put" /\ failure = "transient"
     THEN late' \in {late, late \cup {ImportKey}} ELSE UNCHANGED late
  /\ UNCHANGED <<bucket, now, source, audit, imports>>

PutLands(k) ==
  /\ bucket' = bucket \cup {k} /\ late' = late \ {k}
  /\ UNCHANGED <<now, source, imp, audit, imports, impFaults>>

(* Ctrl-C, a database error or a row without a timezone inside the loop.  *)
CutOff(reason) ==
  /\ imp.pc \in {"query", "head", "put"} /\ ImportFault
  /\ Leave(reason)
  /\ UNCHANGED <<bucket, now, source, audit, late, imports>>

(* The end entry.                                                         *)
LogEnd ==
  /\ imp.pc = "end" /\ LogSafely("end") /\ imp' = NoImport
  /\ UNCHANGED <<bucket, now, source, late, imports>>

(* A kill, or Ctrl-C outside the loop: nothing more is written.           *)
KillImport ==
  /\ imp.pc # "idle" /\ ImportFault /\ imp' = NoImport
  /\ UNCHANGED <<bucket, now, source, audit, late, imports>>

ImportNext ==
  \/ Tick \/ \E r \in Row : InsertRow(r)
  \/ \E live \in BOOLEAN, since, until \in 0..DayOf(MaxTime) : StartImport(live, since, until)
  \/ LogStart \/ QueryDay \/ HeadObject \/ Put \/ LogEnd \/ KillImport
  \/ \E f \in Failures : CallFails(f)
  \/ \E reason \in {"interrupt", "error"} : CutOff(reason)
  \/ \E k \in late : PutLands(k)

ImportSpec == ImportInit /\ [][ImportNext]_<<bucket, importVars>>

----------------------------------------------------------------------------
\* The object a day's rows make.
KeyOfDay(day) ==
  LET s == CHOOSE x \in SetToSeqs(RowsOf(day)) : Ordered(x)
  IN  S3Key("n0183", day, s[1].at, [i \in DOMAIN s |-> Line(s[i])])
Imported(day) == RowsOf(day) # {} => KeyOfDay(day) \in bucket

\* "import FINISHED" and "import FAILED at": every day an end entry claims, the
\* whole range or those before the day it failed on, is in the bucket complete.
EndTellsTruth ==
  \A e \in audit : e.event = "end" =>
    \A d \in e.since..(IF e.exit = 0 THEN e.until ELSE e.day - 1) : Imported(d)

\* "A day holding more than one object is a real, visible signal that its
\* source changed": re-runs, retries and late rows alone never make a second.
OneObjectPerDay ==
  \A k, m \in bucket : k.root = "raw" /\ m.root = "raw" /\ k.proto = "n0183" /\ m.proto = "n0183"
                       /\ k.day = m.day => k = m
=============================================================================
