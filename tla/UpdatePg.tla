------------------------------ MODULE UpdatePg ------------------------------
(***************************************************************************)
(* nmea2s3-update-pg (pg/update.py) over its Postgres session              *)
(* (pg/session.py): runs of the program, the server sessions they open,    *)
(* the advisory lock, the ledger and the wide table.                       *)
(*                                                                         *)
(* The connection is autocommit, so the ALTERs of ensure, the merge of     *)
(* write and the INSERT of record_key are statements of their own.  A step *)
(* of a run is one statement, executed by the server and answered.  When   *)
(* the link dies the server session stays behind (an orphan), with the     *)
(* statement last sent perhaps still to be executed, until keepalives or   *)
(* pg_terminate_backend end it.                                            *)
(***************************************************************************)
EXTENDS WideTable, FiniteSets, FiniteSetsExt

CONSTANTS
  Run,          \* processes that may run at once (cron's, an operator's)
  Modes,        \* Modes[r]: how r may be invoked, of {"normal", "rebuild", "dry"}
  Backend,      \* server sessions, told apart by (pid, backend_start)
  MaxFaults     \* bound: faults in a behaviour

None == 0

ASSUME UpdatePgAssumption ==
  /\ Modes \in [Run -> SUBSET {"normal", "rebuild", "dry"}]
  /\ Backend \subseteq Nat \ {None}
  /\ MaxFaults \in Nat

VARIABLES
  archive,      \* objects under raw/
  table, columns, ledger,
  alive,        \* live server sessions
  dying,        \* sessions signalled by pg_terminate_backend
  pending,      \* pending[b]: statement an orphan has received, or nothing
  lock,         \* the session holding the table's advisory lock
  run,          \* run[r]: the local state of process r
  noted,        \* columns named in an audit entry that was attempted
  faults,       \* faults so far
  written       \* history: objects whose rows were merged at least once

server == <<table, columns, ledger, written>>
sessions == <<alive, dying, pending, lock>>
vars == <<archive, server, sessions, run, noted, faults>>

\* One statement and what it works on: the columns an ALTER adds, or the object
\* and the decoder's state.
Nothing == [kind |-> "none", key |-> None, held |-> {}, add |-> {}]
Statement == [kind : {"none", "lock", "ensure", "merge", "record"},
              key : Object \cup {None}, held : SUBSET Message, add : SUBSET Field]

\* A process: where it is in run(); its mode; its connection's session and the
\* one reconnect() ends; the keys still to do and all it listed; `again': this
\* call() is on its second attempt; the decoder's held parts; the columns this
\* ensure() has added and those of new_columns; the exit status of the process
\* last run.  History: `altered', the columns whose ALTER this run saw succeed;
\* `sole', nobody else has merged anything since it listed its keys.
Idle == [pc |-> "idle", mode |-> "normal", con |-> None, old |-> None,
         todo |-> {}, keys |-> {}, again |-> FALSE, held |-> {},
         adding |-> {}, added |-> {}, exit |-> 0, altered |-> {}, sole |-> TRUE]

EX_TEMPFAIL == 75
Traceback == 1
Killed == 137
Exited(status) == [Idle EXCEPT !.exit = status]

Pcs == {"idle", "lock", "list", "ingest", "ensure", "merge", "record",
        "reopen", "terminate", "relock"}

Init ==
  /\ archive = {}
  /\ table = EmptyTable /\ columns = {} /\ ledger = {} /\ written = {}
  /\ alive = {}
  /\ dying = {} /\ pending = [b \in Backend |-> Nothing]
  /\ lock = None
  /\ run = [r \in Run |-> Idle]
  /\ noted = {} /\ faults = 0

----------------------------------------------------------------------------
At(r, p) == run[r].pc = p
Con(r) == run[r].con

\* Mutant: newest key first.
NextKeyNewest(todo) == Max(todo)

(* keys.sort(key=(key_date, name)): the oldest first.                     *)
NextKey(todo) == Min(todo)

\* The object the loop is at, and its rows.
Key(r) == NextKey(run[r].todo)
RunRows(r) == Rows(Key(r), run[r].held)
Running(r) == ~At(r, "idle")
Dry(r) == run[r].mode = "dry"

Fault == faults < MaxFaults /\ faults' = faults + 1

\* Sessions neither alive nor remembered by a run: their numbers may be used.
FreshBackend ==
  {b \in Backend \ alive : \A r \in Run : b \notin {run[r].con, run[r].old}}

\* A session opens, under the first free number: only which one it is matters.
Opens(b) ==
  /\ b \in FreshBackend /\ \A a \in FreshBackend : b <= a
  /\ alive' = alive \cup {b}

\* Mutant: a lock file or a row instead, which outlives its session.
EndsKeepingLock(b) ==
  /\ alive' = alive \ {b}
  /\ dying' = dying \ {b}
  /\ pending' = [pending EXCEPT ![b] = Nothing]
  /\ UNCHANGED lock

\* A session ends: its lock is released, its statement goes with it.
Ends(b) ==
  /\ alive' = alive \ {b}
  /\ dying' = dying \ {b}
  /\ pending' = [pending EXCEPT ![b] = Nothing]
  /\ lock' = IF lock = b THEN None ELSE lock

\* Mutant: only a run that got to the end writes its entry.
AuditOfFinished(r) == noted' = IF At(r, "record") THEN noted \cup run[r].added ELSE noted

(* audit: the entry of a run that added columns names them; it is tried     *)
(* once and a failure swallowed (log_action_safely).                        *)
Audit(r) == noted' = noted \cup run[r].added

\* run() returns 0: the audit entry, then session.close() in its `finally'.
Finish(r) ==
  /\ Audit(r) /\ UNCHANGED faults
  /\ run' = [run EXCEPT ![r] = Idle]
  /\ IF Con(r) = None THEN UNCHANGED sessions ELSE Ends(Con(r))

----------------------------------------------------------------------------
(* Session.__init__ up to _open; a dry run takes no lock.                 *)
Start(r, m) ==
  /\ At(r, "idle") /\ m \in Modes[r]
  /\ \E b \in FreshBackend :
       /\ Opens(b)
       /\ run' = [run EXCEPT ![r] = [Idle EXCEPT !.mode = m, !.con = b,
                    !.pc = IF m = "dry" THEN "list" ELSE "lock"]]
  /\ UNCHANGED <<archive, server, dying, pending, lock, noted, faults>>

\* Mutant: a new session goes on whoever holds the lock (`if self.lock' lost).
GoWithoutLock(r, p, q) ==
  /\ At(r, p) /\ (lock = None \/ p = "relock")
  /\ lock' = IF lock = None THEN Con(r) ELSE lock
  /\ run' = [run EXCEPT ![r].pc = q, ![r].old = None]
  /\ UNCHANGED <<archive, server, alive, dying, pending, noted, faults>>

(* pg_try_advisory_lock granted.                                          *)
GetLock(r, p, q) ==
  /\ At(r, p) /\ lock = None
  /\ lock' = Con(r)
  /\ run' = [run EXCEPT ![r].pc = q, ![r].old = None]
  /\ UNCHANGED <<archive, server, alive, dying, pending, noted, faults>>

TakeLock(r) == GetLock(r, "lock", "list")
Relock(r) == GetLock(r, "relock", "ensure")

(* _take_lock raises Busy: at once for a new run (wait=0, nothing to audit, *)
(* exit 0), after LOCK_WAIT for a reconnected one.                          *)
LockBusy(r) ==
  /\ At(r, "lock") \/ At(r, "relock")
  /\ lock # None
  /\ Finish(r)
  /\ UNCHANGED <<archive, server>>

\* Reading and decoding an object touch nothing shared: they go with the first
\* statement of write_object, or are all a dry run does.
FirstStep(r) == IF Dry(r) THEN "ingest" ELSE "ensure"

(* ensure_ledger, ledger_keys, iter_keys and the sort.  A rebuild does not *)
(* read the ledger.                                                        *)
List(r) ==
  LET done == IF run[r].mode = "rebuild" THEN {} ELSE ledger
      keys == archive \ done
  IN  /\ At(r, "list")
      /\ UNCHANGED <<archive, server>>
      /\ IF keys = {} THEN Finish(r)
         ELSE /\ run' = [run EXCEPT ![r].pc = FirstStep(r), ![r].todo = keys,
                           ![r].keys = keys]
              /\ UNCHANGED <<sessions, noted, faults>>

\* The loop goes on to the next key, or the run ends well after the last.
NextObject(r) ==
  IF run[r].todo = {Key(r)}
  THEN Finish(r)
  ELSE /\ run' = [run EXCEPT ![r].pc = FirstStep(r), ![r].todo = @ \ {Key(r)},
                    ![r].again = FALSE, ![r].held = Ingested[Key(r), @].held]
       /\ UNCHANGED <<sessions, noted, faults>>

(* ingest_object and the counts of a dry run.                             *)
Ingest(r) ==
  /\ At(r, "ingest")
  /\ NextObject(r)
  /\ UNCHANGED <<archive, server>>

\* Columns of the batch the table lacks; ensure adds them in sorted order.
Missing(r) == Columns(RunRows(r)) \ columns
NextColumn(r) == Min(Missing(r))

(* write_object, in call(): ensure adds the missing columns one ALTER at a *)
(* time and returns their names ...                                        *)
Ensure(r) ==
  /\ At(r, "ensure")
  /\ IF Missing(r) = {}
     THEN /\ run' = [run EXCEPT ![r].pc = "merge", ![r].adding = {},
                       ![r].added = @ \cup run[r].adding]
          /\ UNCHANGED columns
     ELSE /\ columns' = columns \cup {NextColumn(r)}
          /\ run' = [run EXCEPT ![r].adding = @ \cup {NextColumn(r)},
                                ![r].altered = @ \cup {NextColumn(r)}]
  /\ UNCHANGED <<archive, table, ledger, written, sessions, noted, faults>>

\* The merge of object k's rows.
MergeBy(k, h) ==
  /\ table' = Merged(table, Rows(k, h))
  /\ written' = written \cup {k}

OthersDisturbed(r) ==
  [s \in Run |-> IF s # r /\ Running(s) THEN [run[s] EXCEPT !.sole = FALSE] ELSE run[s]]

\* Mutant: the ledger entry goes in before the rows.
RecordFirst(r) ==
  /\ At(r, "merge")
  /\ ledger' = ledger \cup {Key(r)}
  /\ run' = [run EXCEPT ![r].pc = "record"]
  /\ UNCHANGED <<archive, table, columns, written, sessions, noted, faults>>

(* ... write merges the staged rows in one statement ...                  *)
Merge(r) ==
  /\ At(r, "merge")
  /\ MergeBy(Key(r), run[r].held)
  /\ run' = [OthersDisturbed(r) EXCEPT ![r].pc = "record"]
  /\ UNCHANGED <<archive, columns, ledger, sessions, noted, faults>>

(* ... and record_key inserts the key.                                   *)
Record(r) ==
  /\ At(r, "record")
  /\ ledger' = ledger \cup {Key(r)}
  /\ NextObject(r)
  /\ UNCHANGED <<archive, table, columns, written>>

----------------------------------------------------------------------------
(* Faults of the run.                                                     *)

Linked == {"lock", "list", "ensure", "merge", "record", "terminate", "relock"}
InCall == {"ensure", "merge", "record"}

\* What the server has received of r when its link dies.
Sent(r) ==
  IF At(r, "ensure") /\ Missing(r) # {}
  THEN [Nothing EXCEPT !.kind = "ensure", !.add = {NextColumn(r)}]
  ELSE IF run[r].pc \in {"merge", "record"}
  THEN [Nothing EXCEPT !.kind = run[r].pc, !.key = Key(r), !.held = run[r].held]
  ELSE IF run[r].pc \in {"lock", "relock"} THEN [Nothing EXCEPT !.kind = "lock"]
  ELSE Nothing

\* The link dies under r: its session becomes an orphan.
Unlink(r) ==
  /\ pending' = [pending EXCEPT ![Con(r)] = Sent(r)]
  /\ UNCHANGED <<alive, dying, lock>>

(* OperationalError on a broken connection inside call(), for the first time: *)
(* what this ensure() added is forgotten with its exception.                  *)
BreakInCall(r) ==
  /\ run[r].pc \in InCall /\ ~run[r].again
  /\ Fault /\ Unlink(r)
  /\ run' = [run EXCEPT ![r].pc = "reopen", ![r].again = TRUE, ![r].adding = {}]
  /\ UNCHANGED <<archive, server, noted>>

(* "Stopped at ...": audit and exit 75.                                   *)
StopPartWay(r) ==
  /\ Audit(r)
  /\ run' = [run EXCEPT ![r] = Exited(EX_TEMPFAIL)]

(* What is not a condition a later run may not meet keeps its traceback,  *)
(* and writes no entry.                                                   *)
Raise(r) ==
  /\ UNCHANGED noted
  /\ run' = [run EXCEPT ![r] = Exited(Traceback)]

(* The link dies anywhere else, or for the second time in one call().     *)
BreakStops(r) ==
  /\ run[r].pc \in Linked /\ (run[r].pc \notin InCall \/ run[r].again)
  /\ Fault /\ Unlink(r) /\ StopPartWay(r)
  /\ UNCHANGED <<archive, server>>

(* An error on a healthy connection (S3 while listing or reading, a         *)
(* statement the server refuses), transient or not, or a bug: close() runs. *)
Refused(r) ==
  /\ run[r].pc \in {"list", "ingest", "ensure", "merge", "record"}
  /\ Fault /\ (StopPartWay(r) \/ Raise(r)) /\ Ends(Con(r))
  /\ UNCHANGED <<archive, server>>

(* reconnect cannot open.                                                 *)
ReopenFails(r) ==
  /\ At(r, "reopen")
  /\ Fault /\ StopPartWay(r)
  /\ UNCHANGED <<archive, server, sessions>>

(* reconnect: a new session; the old one is remembered by (pid, start).   *)
Reopen(r) ==
  /\ At(r, "reopen")
  /\ \E b \in FreshBackend :
       /\ Opens(b)
       /\ run' = [run EXCEPT ![r].pc = "terminate", ![r].old = Con(r), ![r].con = b]
  /\ UNCHANGED <<archive, server, dying, pending, lock, noted, faults>>

\* Mutant: matched on the pid alone, which a later session may have by now.
SignalledByPid(b) ==
  IF b \in alive THEN {{b}} ELSE {{}} \cup {{a} : a \in alive}

\* Mutant: the pid noted earlier, not looked up in pg_stat_activity.
SignalledUnchecked(b) == {{b}}

\* What `WHERE pid = ... AND backend_start = ...' may name: b, if it lives.
Signalled(b) == {{b} \cap alive}

(* reconnect: pg_terminate_backend, which only signals.                   *)
Terminate(r) ==
  /\ At(r, "terminate")
  /\ \E s \in Signalled(run[r].old) : dying' = dying \cup s
  /\ run' = [run EXCEPT ![r].pc = "relock"]
  /\ UNCHANGED <<archive, server, alive, pending, lock, noted, faults>>

(* SIGKILL, power: nothing is caught, nothing closed in order.            *)
Kill(r) ==
  /\ Running(r)
  /\ Fault
  /\ IF At(r, "reopen") THEN UNCHANGED sessions ELSE Unlink(r)
  /\ run' = [run EXCEPT ![r] = Exited(Killed)]
  /\ UNCHANGED <<archive, server, noted>>

----------------------------------------------------------------------------
(* The server on its own.                                                 *)

Orphan(b) == b \in alive /\ \A r \in Run : Con(r) = b => At(r, "reopen")

\* Runs that wrote through b before it was orphaned.
OwnerOf(b, r) == Running(r) /\ b \in {run[r].con, run[r].old}

(* An orphan executes what it had received before the link died.          *)
OrphanRuns(b) ==
  LET s == pending[b]
  IN  /\ Orphan(b) /\ s.kind # "none"
      /\ pending' = [pending EXCEPT ![b] = Nothing]
      /\ UNCHANGED <<archive, alive, dying, noted, faults>>
      /\ \/ /\ s.kind = "lock"
            /\ lock' = IF lock = None THEN b ELSE lock
            /\ UNCHANGED <<server, run>>
         \/ /\ s.kind = "ensure"
            /\ columns' = columns \cup s.add
            /\ UNCHANGED <<table, ledger, written, lock, run>>
         \/ /\ s.kind = "merge"
            /\ MergeBy(s.key, s.held)
            /\ run' = [r \in Run |-> IF Running(r) /\ ~OwnerOf(b, r)
                                     THEN [run[r] EXCEPT !.sole = FALSE] ELSE run[r]]
            /\ UNCHANGED <<columns, ledger, lock>>
         \/ /\ s.kind = "record"
            /\ ledger' = ledger \cup {s.key}
            /\ UNCHANGED <<table, columns, written, lock, run>>

(* Keepalives, a closed socket or a signal end it.                        *)
OrphanEnds(b) ==
  /\ Orphan(b)
  /\ Ends(b)
  /\ UNCHANGED <<archive, server, run, noted, faults>>

(* The logger or an importer lands an object, in any order.               *)
Upload(o) ==
  /\ o \notin archive
  /\ archive' = archive \cup {o}
  /\ UNCHANGED <<server, sessions, run, noted, faults>>

----------------------------------------------------------------------------
RunStep(r) ==
  \/ TakeLock(r) \/ Relock(r) \/ LockBusy(r) \/ List(r) \/ Ingest(r)
  \/ Ensure(r) \/ Merge(r) \/ Record(r) \/ Reopen(r) \/ Terminate(r)

FaultStep(r) ==
  BreakInCall(r) \/ BreakStops(r) \/ Refused(r) \/ ReopenFails(r) \/ Kill(r)

Next ==
  \/ \E r \in Run : RunStep(r) \/ FaultStep(r)
  \/ \E r \in Run : \E m \in Modes[r] : Start(r, m)
  \/ \E b \in Backend : OrphanRuns(b) \/ OrphanEnds(b)
  \/ \E o \in Object : Upload(o)

Spec == Init /\ [][Next]_vars

(* The scheduling: processes run, cron starts its run every minute, and the *)
(* server notices within a minute or so that a client is gone.              *)
Fairness ==
  /\ \A r \in Run : WF_vars(RunStep(r))
  /\ \A r \in Run : "dry" \notin Modes[r] => WF_vars(Start(r, "normal"))
  /\ \A b \in Backend : WF_vars(OrphanEnds(b))

FairSpec == Spec /\ Fairness

----------------------------------------------------------------------------
\* Every variable stays in its type.
TypeOK ==
  /\ archive \subseteq Object /\ ledger \subseteq Object /\ written \subseteq Object
  /\ columns \subseteq Field /\ noted \subseteq Field
  /\ DOMAIN table = Cell
  /\ alive \subseteq Backend /\ dying \subseteq alive
  /\ pending \in [Backend -> Statement]
  /\ lock \in alive \cup {None}
  /\ DOMAIN run = Run
  /\ \A r \in Run :
       /\ run[r].pc \in Pcs
       /\ run[r].con \in Backend \cup {None} /\ run[r].old \in Backend \cup {None}
       /\ run[r].todo \subseteq run[r].keys /\ run[r].keys \subseteq archive
       /\ run[r].held \subseteq Message
       /\ run[r].added \cup run[r].adding \cup run[r].altered \subseteq columns
       /\ run[r].exit \in {0, EX_TEMPFAIL, Traceback, Killed}
  /\ faults \in 0..MaxFaults

\* "One run per table": whoever may still write, a run or the session a broken
\* link left behind, holds the table's lock, so there is never a second one.
OneWriter ==
  /\ \A r \in Run : run[r].pc \in InCall => lock = Con(r)
  /\ \A b \in Backend : pending[b].kind \in InCall => lock = b

\* "Only it: matched on pid AND backend_start": no session in use is signalled,
\* even where the server gave an old session's pid to a new one.
SignalsOnlyOrphans == \A b \in dying : Orphan(b)

\* A ledger entry means "this object is fully written": each cell it assigns
\* holds what it assigned there, or what another object that has been merged
\* assigned there, and never nothing or anything else.  (What another object
\* assigned may be the NULL of NoReadingErased.)
Covers(o, h, c) == c \in Region(Rows(o, h))
Stands(o) ==
  \E h \in SUBSET Message : \A c \in Region(Rows(o, h)) :
    \E p \in written, g \in SUBSET Message : Covers(p, g, c) /\ table[c] = Written(Rows(p, g), c)
RecordedIsWritten == \A o \in ledger : Stands(o)

\* The columns r must report after this step: those of the ensure() that this
\* step returns from are among them.
Reportable(r) ==
  run[r].added \cup IF At(r, "ensure") /\ run'[r].pc = "merge" THEN run[r].adding ELSE {}

\* "A run that stops part-way has made them just as surely as one that
\* finishes, so it writes the same entry": a column whose ensure() returned
\* stays with its run through broken links, the second attempt and the later
\* objects until an entry names it, whether the run ends well, gives way to
\* another or stops part-way.  Only a traceback or a kill forgets it.
SchemaChangesAreAudited ==
  [][\A r \in Run :
       \/ Reportable(r) \subseteq run'[r].added \cup noted'
       \/ run'[r].exit \in {Traceback, Killed}]_vars

\* "so a first attempt that altered the table before its connection died still
\* has them reported" (write_object): the entry of a run that went through its
\* keys names every column that the run saw added.
RetriedColumnsAreReported ==
  [][\A r \in Run :
       Record(r) /\ run'[r].pc = "idle" => run[r].altered \subseteq noted']_vars

\* What reading object k adds to what was read before it.
WithObject(k, was) ==
  LET rows == Rows(k, was.held)
  IN  [table |-> Merged(was.table, rows), held |-> Ingested[k, was.held].held,
       cells |-> was.cells \cup Region(rows)]

\* What processing the keys S in order, once each and undisturbed, has written
\* when it is past object n.
After(S) ==
  LET after[n \in 0..MaxObject] ==
        IF n = 0 THEN [table |-> EmptyTable, held |-> {}, cells |-> {}]
        ELSE IF n \in S THEN WithObject(n, after[n - 1]) ELSE after[n - 1]
  IN  after
Replayed(S) == After(S)[MaxObject]

\* Retries, lost answers and late statements of a dead link do not show: a run
\* that ends well, no other having written meanwhile, leaves what reading its
\* keys once in capture order writes, messages split over two objects included.
Completes(r) == Record(r) /\ run'[r].pc = "idle" /\ run[r].sole
FinishedRunIsReplay ==
  [][\A r \in Run : Completes(r) =>
       LET replay == Replayed(run[r].keys)
       IN  \A c \in replay.cells : table'[c] = replay.table[c]]_vars

\* The table changes by whole objects only and the ledger follows the table.
Derived == INSTANCE DerivedTable
ImplementsDerived == Derived!DerivedSpec

\* "A late spool upload is simply a new key appearing, picked up on the next
\* pass": faults having ended, the ledger catches up with the archive again and
\* again, late objects included.
EveryObjectIngested == []<>(archive \subseteq ledger)

\* "keeps its previous value in the row rather than being overwritten with
\* NULL" (write in pg/table.py): a reading is never replaced by NULL.
NoReadingErased ==
  [][\A c \in Cell : table[c] # Null => table'[c] # Null]_vars
=============================================================================
