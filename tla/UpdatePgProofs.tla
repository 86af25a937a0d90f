-------------------------- MODULE UpdatePgProofs ----------------------------
(***************************************************************************)
(* UpdatePg's safety for any number of processes, server sessions, objects *)
(* and faults.  What makes "one run per table" inductive is that a session *)
(* belongs to one process at a time, that a process past its lock step     *)
(* holds the lock through its own session, and that a statement a dead     *)
(* link left behind was sent under the lock, which its session keeps.      *)
(* What makes "a finished run is a replay" inductive is that, until a run  *)
(* has merged an object for good, only the cells of that object are open.  *)
(***************************************************************************)
EXTENDS UpdatePg, TotalsProofs

----------------------------------------------------------------------------
(* The least element of a set of naturals *)

LEMMA MinIsLeast ==
  ASSUME NEW S, S \subseteq Nat, S # {}
  PROVE  Min(S) \in S /\ \A y \in S : Min(S) <= y
<1>1. PICK x \in S : \A y \in S : x <= y
  BY LeastOf
<1> QED
  BY <1>1 DEF Min

----------------------------------------------------------------------------
(* The inductive invariant *)

Exits == {0, EX_TEMPFAIL, Traceback, Killed}

RunRecord ==
  [pc : Pcs, mode : {"normal", "rebuild", "dry"}, con : Backend \cup {None},
   old : Backend \cup {None}, todo : SUBSET Object, keys : SUBSET Object,
   again : BOOLEAN, held : SUBSET Message, adding : SUBSET Field,
   added : SUBSET Field, exit : Exits, altered : SUBSET Field, sole : BOOLEAN]

\* Past the lock step, so writing only under the lock.
UnderLock == InCall \cup {"list"}
Working == {"ingest", "ensure", "merge", "record", "reopen", "terminate", "relock"}

RunOK(r) ==
  /\ run[r].todo \subseteq run[r].keys /\ run[r].keys \subseteq archive
  /\ run[r].added \cup run[r].adding \cup run[r].altered \subseteq columns
  /\ run[r].pc = "idle" => run[r].added = {}
  /\ run[r].pc \in Working => run[r].todo # {}
  /\ run[r].pc = "ingest" => run[r].mode = "dry"
  /\ run[r].pc = "idle" <=> run[r].con = None
  /\ run[r].pc \notin {"idle", "reopen"} => run[r].con \in alive
  /\ run[r].pc \in UnderLock /\ (run[r].pc = "list" => run[r].mode # "dry") => lock = run[r].con

PendingOK(b) ==
  /\ pending[b].kind \in InCall => lock = b
  /\ pending[b].kind \in {"merge", "record"} => pending[b].key \in Object

Typed ==
  /\ archive \subseteq Object /\ ledger \subseteq Object /\ written \subseteq Object
  /\ columns \subseteq Field /\ noted \subseteq Field
  /\ DOMAIN table = Cell
  /\ alive \subseteq Backend /\ dying \subseteq alive
  /\ pending \in [Backend -> Statement]
  /\ lock \in alive \cup {None}
  /\ run \in [Run -> RunRecord]
  /\ faults \in 0..MaxFaults

OwnSession == \A r, s \in Run : r # s /\ run[r].con = run[s].con => run[r].con = None

Inv ==
  /\ Typed
  /\ \A r \in Run : RunOK(r)
  /\ OwnSession
  /\ \A b \in Backend : PendingOK(b)

----------------------------------------------------------------------------
(* Rows and keys *)

LEMMA RowsTyped ==
  ASSUME NEW k \in Object, NEW h \in SUBSET Message
  PROVE  /\ Columns(Rows(k, h)) \subseteq Field
         /\ Region(Rows(k, h)) \subseteq Cell
         /\ Ingested[k, h].held \in SUBSET Message
BY WideTableAssumption DEF Rows, Columns, RowTimes, Region, Cell

LEMMA KeyIsObject ==
  ASSUME Inv, NEW r \in Run, run[r].todo # {}
  PROVE  Key(r) \in run[r].todo /\ Key(r) \in Object /\ run[r].held \in SUBSET Message
<1>1. run[r].todo \subseteq Object /\ run[r].held \in SUBSET Message
  BY DEF Inv, Typed, RunRecord
<1>2. MaxObject \in Nat
  BY WideTableAssumption
<1>3. Object \subseteq Nat
  BY <1>2 DEF Object
<1> QED
  BY <1>1, <1>3, MinIsLeast DEF Key, NextKey

\* The column an ALTER adds.
LEMMA MissingColumn ==
  ASSUME Inv, NEW r \in Run, run[r].todo # {}, Missing(r) # {}
  PROVE  NextColumn(r) \in Field
<1>1. Missing(r) \subseteq Field /\ Field \subseteq Nat
  BY KeyIsObject, RowsTyped, WideTableAssumption DEF Missing, RunRows
<1>2. NextColumn(r) \in Missing(r)
  BY <1>1, MinIsLeast DEF NextColumn
<1> QED
  BY <1>1, <1>2

\* A process that is not running has nothing.
Blank(x) ==
  /\ x \in RunRecord /\ x.pc = "idle" /\ x.con = None /\ x.old = None /\ x.todo = {} /\ x.keys = {}
  /\ x.held = {} /\ x.added = {} /\ x.adding = {} /\ x.altered = {}

LEMMA IdleTyped == Blank(Idle)
BY DEF Blank, Idle, RunRecord, Pcs, None, Exits

LEMMA ExitedTyped == ASSUME NEW status \in Exits PROVE Blank(Exited(status)) /\ Exited(status).exit = status
BY DEF Blank, Exited, Idle, RunRecord, Pcs, None

LEMMA NoneIsNoBackend == None \notin Backend
BY UpdatePgAssumption

LEMMA InitInv == Init => Inv
<1> SUFFICES ASSUME Init PROVE Inv
  OBVIOUS
<1> USE IdleTyped, NoneIsNoBackend DEF Blank
<1>1. Nothing \in Statement /\ Nothing.kind = "none"
  BY DEF Nothing, Statement
<1>2. Typed
  BY <1>1, UpdatePgAssumption DEF Init, Typed, EmptyTable
<1>3. \A r \in Run : RunOK(r)
  BY DEF Init, RunOK, Working, UnderLock, InCall
<1>4. OwnSession
  BY DEF Init, OwnSession
<1>5. \A b \in Backend : PendingOK(b)
  BY <1>1 DEF Init, PendingOK, InCall
<1> QED
  BY <1>2, <1>3, <1>4, <1>5 DEF Inv

----------------------------------------------------------------------------
(* Steps of one process leave the others as they were *)

LEMMA OthersKeep ==
  ASSUME Inv, NEW r \in Run,
         \A s \in Run \ {r} : run'[s] = run[s],
         archive \subseteq archive', columns \subseteq columns',
         \A s \in Run \ {r} : run[s].con \in Backend =>
           (run[s].con \in alive => run[s].con \in alive') /\ (lock = run[s].con => lock' = lock)
  PROVE  \A s \in Run \ {r} : RunOK(s)'
<1> SUFFICES ASSUME NEW s \in Run \ {r} PROVE RunOK(s)'
  OBVIOUS
<1>1. RunOK(s) /\ run[s] \in RunRecord
  BY DEF Inv, Typed
<1>2. run[s].con \in Backend \cup {None} /\ run[s].pc \in Pcs
  BY <1>1 DEF RunRecord
<1>3. run[s].pc = "idle" \/ run[s].con \in Backend
  BY <1>1, <1>2 DEF RunOK
<1> QED
  BY <1>1, <1>3 DEF RunOK, UnderLock, InCall, Working

LEMMA StepOfOne ==
  ASSUME Inv, NEW r \in Run,
         \A s \in Run \ {r} : run'[s] = run[s],
         archive \subseteq archive', columns \subseteq columns',
         \A s \in Run \ {r} : run[s].con \in Backend =>
           (run[s].con \in alive => run[s].con \in alive') /\ (lock = run[s].con => lock' = lock),
         run'[r].con \in {run[r].con, None} \cup FreshBackend,
         Typed', RunOK(r)', \A b \in Backend : PendingOK(b)'
  PROVE  Inv'
<1>1. \A s \in Run : RunOK(s)'
  BY OthersKeep
<1>2. OwnSession'
  <2> SUFFICES ASSUME NEW s \in Run, NEW u \in Run, s # u, run'[s].con = run'[u].con
               PROVE  run'[s].con = None
    BY DEF OwnSession
  <2>1. \A x \in Run : run[x].con \notin FreshBackend
    BY DEF FreshBackend
  <2> QED
    BY <2>1 DEF Inv, OwnSession
<1> QED
  BY <1>1, <1>2 DEF Inv

\* What a process's own record says while it is working.
LEMMA RunFacts ==
  ASSUME Inv, NEW r \in Run
  PROVE  /\ run[r] \in RunRecord /\ RunOK(r)
         /\ Running(r) => Con(r) \in Backend
         /\ run[r].pc \in Working => Key(r) \in run[r].todo /\ Key(r) \in Object
         /\ run[r].held \in SUBSET Message
         /\ \A s \in Run \ {r} : Running(r) => run[s].con # Con(r)
<1>1. run[r] \in RunRecord /\ RunOK(r)
  BY DEF Inv, Typed
<1>2. Running(r) => Con(r) \in Backend
  BY <1>1 DEF RunRecord, RunOK, Running, At, Con
<1>3. \A s \in Run \ {r} : Running(r) => run[s].con # Con(r)
  BY <1>1, <1>2, NoneIsNoBackend DEF Inv, OwnSession, Con
<1> QED
  BY <1>1, <1>2, <1>3, KeyIsObject DEF RunOK, RunRecord

----------------------------------------------------------------------------
(* The ways a step treats the sessions *)

LEMMA EndsTyped ==
  ASSUME Inv, NEW b \in Backend, Ends(b)
  PROVE  /\ alive' \subseteq Backend /\ dying' \subseteq alive' /\ lock' \in alive' \cup {None}
         /\ pending' \in [Backend -> Statement]
         /\ \A a \in Backend : PendingOK(a)'
<1>1. Nothing \in Statement /\ Nothing.kind = "none"
  BY DEF Nothing, Statement
<1>2. alive' \subseteq Backend /\ dying' \subseteq alive' /\ lock' \in alive' \cup {None}
  BY DEF Inv, Typed, Ends
<1>3. pending' \in [Backend -> Statement]
  BY <1>1 DEF Inv, Typed, Ends
<1>4. \A a \in Backend : PendingOK(a)'
  <2> SUFFICES ASSUME NEW a \in Backend PROVE PendingOK(a)'
    OBVIOUS
  <2>1. CASE a = b
    BY <2>1, <1>1 DEF Inv, Typed, Ends, PendingOK, InCall
  <2>2. CASE a # b
    BY <2>2 DEF Inv, Typed, Ends, PendingOK
  <2> QED
    BY <2>1, <2>2
<1> QED
  BY <1>2, <1>3, <1>4

LEMMA SentTyped ==
  ASSUME Inv, NEW r \in Run, Running(r), ~At(r, "reopen")
  PROVE  /\ Sent(r) \in Statement
         /\ Sent(r).kind \in InCall => lock = Con(r)
         /\ Sent(r).kind \in {"merge", "record"} => Sent(r).key \in Object
         /\ Sent(r).kind = "record" => At(r, "record") /\ Sent(r).key = Key(r)
<1>1. Nothing \in Statement /\ Nothing.kind = "none"
  BY DEF Nothing, Statement
<1>2. run[r].pc \in InCall => Key(r) \in Object /\ run[r].todo # {} /\ run[r].held \in SUBSET Message
                               /\ lock = Con(r)
  BY RunFacts DEF RunOK, Working, InCall, UnderLock, Con
<1>3. CASE At(r, "ensure") /\ Missing(r) # {}
  <2>1. Sent(r) = [Nothing EXCEPT !.kind = "ensure", !.add = {NextColumn(r)}]
    BY <1>3 DEF Sent
  <2>2. {NextColumn(r)} \in SUBSET Field /\ lock = Con(r)
    BY <1>2, <1>3, MissingColumn DEF At, InCall
  <2> QED
    BY <2>1, <2>2 DEF Nothing, Statement
<1>4. CASE run[r].pc \in {"merge", "record"}
  <2>1. Sent(r) = [Nothing EXCEPT !.kind = run[r].pc, !.key = Key(r), !.held = run[r].held]
    BY <1>4 DEF Sent, At
  <2> QED
    BY <1>2, <1>4, <2>1 DEF Nothing, Statement, InCall, At
<1>5. CASE run[r].pc \in {"lock", "relock"}
  <2>1. Sent(r) = [Nothing EXCEPT !.kind = "lock"]
    BY <1>5 DEF Sent, At
  <2> QED
    BY <2>1 DEF Nothing, Statement, InCall
<1>6. CASE Sent(r) = Nothing
  BY <1>1, <1>6 DEF InCall
<1> QED
  BY <1>3, <1>4, <1>5, <1>6 DEF Sent

LEMMA UnlinkTyped ==
  ASSUME Inv, NEW r \in Run, Running(r), ~At(r, "reopen"), Unlink(r)
  PROVE  /\ pending' \in [Backend -> Statement] /\ UNCHANGED <<alive, dying, lock>>
         /\ \A b \in Backend : PendingOK(b)'
<1>1. Con(r) \in Backend
  BY RunFacts
<1>2. pending' \in [Backend -> Statement] /\ UNCHANGED <<alive, dying, lock>>
  BY SentTyped DEF Inv, Typed, Unlink
<1>3. \A b \in Backend : PendingOK(b)'
  <2> SUFFICES ASSUME NEW b \in Backend PROVE PendingOK(b)'
    OBVIOUS
  <2>1. pending'[b] = IF b = Con(r) THEN Sent(r) ELSE pending[b]
    BY DEF Inv, Typed, Unlink
  <2> QED
    BY <1>2, <2>1, SentTyped DEF Inv, PendingOK
<1> QED
  BY <1>2, <1>3

----------------------------------------------------------------------------
(* Actions of a run *)

LEMMA FinishInv ==
  ASSUME Inv, NEW r \in Run, Running(r), Finish(r), UNCHANGED <<archive, columns>>,
         ledger' \subseteq Object, written' \subseteq Object, DOMAIN table' = Cell
  PROVE  Inv'
<1>1. run[r] \in RunRecord /\ Con(r) \in Backend /\ Con(r) # None
  BY RunFacts, NoneIsNoBackend
<1>2. Ends(Con(r)) /\ run' = [run EXCEPT ![r] = Idle]
      /\ noted' = noted \cup run[r].added /\ faults' = faults
  BY <1>1 DEF Finish, Audit
<1>3. Typed'
  BY <1>1, <1>2, EndsTyped, IdleTyped DEF Inv, Typed, RunRecord, Blank
<1>4. run'[r] = Idle /\ \A s \in Run \ {r} : run'[s] = run[s]
  BY <1>2 DEF Inv, Typed
<1>5. RunOK(r)'
  BY <1>4, IdleTyped DEF RunOK, Working, UnderLock, InCall, Blank
<1>6. \A s \in Run \ {r} : run[s].con \in Backend =>
        (run[s].con \in alive => run[s].con \in alive') /\ (lock = run[s].con => lock' = lock)
  BY <1>2, RunFacts DEF Ends
<1> QED
  BY <1>1, <1>2, <1>3, <1>4, <1>5, <1>6, StepOfOne, EndsTyped, IdleTyped DEF Blank

\* A step that leaves the sessions alone, but for who holds the lock.
LEMMA QuietStep ==
  ASSUME Inv, NEW r \in Run, NEW x \in RunRecord, run' = [run EXCEPT ![r] = x],
         x.con = run[r].con,
         UNCHANGED <<archive, alive, pending>>, dying' \subseteq alive,
         lock' = lock \/ (lock = None /\ lock' \in alive),
         columns \subseteq columns', columns' \subseteq Field, ledger' \subseteq Object,
         written' \subseteq Object, noted' \subseteq Field, DOMAIN table' = Cell,
         faults' \in 0..MaxFaults, RunOK(r)'
  PROVE  Inv'
<1>1. run' \in [Run -> RunRecord] /\ run'[r] = x /\ \A s \in Run \ {r} : run'[s] = run[s]
  BY DEF Inv, Typed
<1>2. Typed'
  BY <1>1 DEF Inv, Typed
<1>3. \A b \in Backend : PendingOK(b)'
  BY NoneIsNoBackend DEF Inv, PendingOK
<1>4. \A s \in Run \ {r} : run[s].con \in Backend =>
        (run[s].con \in alive => run[s].con \in alive') /\ (lock = run[s].con => lock' = lock)
  BY NoneIsNoBackend
<1> QED
  BY <1>1, <1>2, <1>3, <1>4, StepOfOne

LEMMA GetLockInv ==
  ASSUME Inv, NEW r \in Run, TakeLock(r) \/ Relock(r)
  PROVE  Inv'
<1>1. run[r] \in RunRecord /\ RunOK(r) /\ Con(r) \in alive /\ Running(r)
  BY RunFacts DEF TakeLock, Relock, GetLock, Running, At, RunOK, Con
<1>2. CASE TakeLock(r)
  <2> DEFINE x == [run[r] EXCEPT !.pc = "list", !.old = None]
  <2>1. run' = [run EXCEPT ![r] = x] /\ lock = None /\ lock' = Con(r)
        /\ UNCHANGED <<archive, server, alive, dying, pending, noted, faults>>
    BY <1>2 DEF TakeLock, GetLock, Inv, Typed
  <2>2. x \in RunRecord /\ x.con = run[r].con
    BY <1>1 DEF RunRecord, Pcs
  <2>3. RunOK(r)'
    BY <1>1, <1>2, <2>1 DEF RunOK, RunRecord, TakeLock, GetLock, At, Con, Working, UnderLock, InCall, server, Inv, Typed
  <2> QED
    BY <1>1, <2>1, <2>2, <2>3, QuietStep DEF server, Inv, Typed
<1>3. CASE Relock(r)
  <2> DEFINE x == [run[r] EXCEPT !.pc = "ensure", !.old = None]
  <2>1. run' = [run EXCEPT ![r] = x] /\ lock = None /\ lock' = Con(r)
        /\ UNCHANGED <<archive, server, alive, dying, pending, noted, faults>>
    BY <1>3 DEF Relock, GetLock, Inv, Typed
  <2>2. x \in RunRecord /\ x.con = run[r].con
    BY <1>1 DEF RunRecord, Pcs
  <2>3. RunOK(r)'
    BY <1>1, <1>3, <2>1 DEF RunOK, RunRecord, Relock, GetLock, At, Con, Working, UnderLock, InCall, server, Inv, Typed
  <2> QED
    BY <1>1, <2>1, <2>2, <2>3, QuietStep DEF server, Inv, Typed
<1> QED
  BY <1>2, <1>3

LEMMA LockBusyInv ==
  ASSUME Inv, NEW r \in Run, LockBusy(r)
  PROVE  Inv'
BY FinishInv DEF LockBusy, Running, At, server, Inv, Typed

LEMMA ListInv ==
  ASSUME Inv, NEW r \in Run, List(r)
  PROVE  Inv'
<1> DEFINE done == IF run[r].mode = "rebuild" THEN {} ELSE ledger
           keys == archive \ done
<1>1. run[r] \in RunRecord /\ RunOK(r) /\ Running(r)
  BY RunFacts DEF List, Running, At
<1>2. CASE keys = {}
  BY <1>1, <1>2, FinishInv DEF List, server, Inv, Typed
<1>3. CASE keys # {}
  <2> DEFINE x == [run[r] EXCEPT !.pc = FirstStep(r), !.todo = keys, !.keys = keys]
  <2>1. run' = [run EXCEPT ![r] = x] /\ UNCHANGED <<archive, server, sessions, noted, faults>>
    BY <1>3 DEF List, Inv, Typed
  <2>2. keys \in SUBSET Object /\ FirstStep(r) \in {"ingest", "ensure"}
    BY DEF Inv, Typed, FirstStep
  <2>3. x \in RunRecord /\ x.con = run[r].con
    BY <1>1, <2>2 DEF RunRecord, Pcs
  <2>4. RunOK(r)'
    BY <1>1, <1>3, <2>1, <2>2 DEF RunOK, RunRecord, List, At, Dry, FirstStep, Working, UnderLock, InCall,
       server, sessions, Inv, Typed
  <2> QED
    BY <2>1, <2>3, <2>4, QuietStep DEF server, sessions, Inv, Typed
<1> QED
  BY <1>2, <1>3

LEMMA NextObjectInv ==
  ASSUME Inv, NEW r \in Run, run[r].pc \in {"ingest", "record"}, NextObject(r),
         UNCHANGED <<archive, table, columns, written>>, ledger' \subseteq Object
  PROVE  Inv'
<1>1. run[r] \in RunRecord /\ RunOK(r) /\ Running(r) /\ Key(r) \in Object /\ run[r].held \in SUBSET Message
      /\ Key(r) \in run[r].todo
  BY RunFacts DEF Running, At, Working
<1>2. CASE run[r].todo = {Key(r)}
  BY <1>1, <1>2, FinishInv DEF NextObject, Inv, Typed
<1>3. CASE run[r].todo # {Key(r)}
  <2> DEFINE x == [run[r] EXCEPT !.pc = FirstStep(r), !.todo = @ \ {Key(r)}, !.again = FALSE,
                     !.held = Ingested[Key(r), @].held]
  <2>1. run' = [run EXCEPT ![r] = x] /\ UNCHANGED <<sessions, noted, faults>>
    BY <1>3 DEF NextObject, Inv, Typed
  <2>2. Ingested[Key(r), run[r].held].held \in SUBSET Message /\ FirstStep(r) \in {"ingest", "ensure"}
    BY <1>1, RowsTyped DEF FirstStep
  <2>3. x \in RunRecord /\ x.con = run[r].con
    BY <1>1, <2>2 DEF RunRecord, Pcs
  <2>4. run'[r] = x
    BY <2>1 DEF Inv, Typed
  <2>5. x.pc = FirstStep(r) /\ x.todo = run[r].todo \ {Key(r)} /\ x.keys = run[r].keys
        /\ x.added = run[r].added /\ x.adding = run[r].adding /\ x.altered = run[r].altered
        /\ x.mode = run[r].mode
    BY <1>1 DEF RunRecord
  <2>6. run[r].mode = "dry" \/ (FirstStep(r) = "ensure" /\ lock = run[r].con)
    BY <1>1 DEF RunOK, FirstStep, Dry, UnderLock, InCall
  <2>7. run[r].mode = "dry" => FirstStep(r) = "ingest"
    BY DEF FirstStep, Dry
  <2>8. RunOK(r)'
    <3> HIDE DEF x
    <3>1. x.todo # {} /\ x.todo \subseteq x.keys /\ x.keys \subseteq archive
          /\ x.added \cup x.adding \cup x.altered \subseteq columns
      BY <1>1, <1>3, <2>5 DEF RunOK
    <3>2. run[r].con # None /\ run[r].con \in alive
      BY <1>1 DEF RunOK, Running, At
    <3>3. x.pc \in {"ingest", "ensure"} /\ (x.pc = "ingest" => x.mode = "dry") /\ (x.pc = "ensure" => lock = x.con)
      BY <2>2, <2>3, <2>5, <2>6, <2>7 DEF FirstStep, Dry
    <3> QED
      BY <2>1, <2>3, <2>4, <3>1, <3>2, <3>3 DEF RunOK, Working, UnderLock, InCall, sessions
  <2> QED
    BY <2>1, <2>3, <2>8, QuietStep DEF sessions, Inv, Typed
<1> QED
  BY <1>2, <1>3

LEMMA IngestInv ==
  ASSUME Inv, NEW r \in Run, Ingest(r)
  PROVE  Inv'
BY NextObjectInv DEF Ingest, At, server, Inv, Typed

LEMMA RecordInv ==
  ASSUME Inv, NEW r \in Run, Record(r)
  PROVE  Inv'
<1>1. Key(r) \in Object /\ run[r].pc = "record"
  BY RunFacts DEF Record, At, Working
<1> QED
  BY <1>1, NextObjectInv DEF Record, Inv, Typed

LEMMA EnsureInv ==
  ASSUME Inv, NEW r \in Run, Ensure(r)
  PROVE  Inv'
<1>1. run[r] \in RunRecord /\ RunOK(r) /\ Key(r) \in Object /\ run[r].held \in SUBSET Message
      /\ run[r].pc = "ensure"
  BY RunFacts DEF Ensure, At, Working
<1>2. CASE Missing(r) = {}
  <2> DEFINE x == [run[r] EXCEPT !.pc = "merge", !.adding = {}, !.added = @ \cup run[r].adding]
  <2>1. run' = [run EXCEPT ![r] = x] /\ UNCHANGED <<columns, archive, table, ledger, written, sessions, noted, faults>>
    BY <1>2 DEF Ensure, Inv, Typed
  <2>2. x \in RunRecord /\ x.con = run[r].con
    BY <1>1 DEF RunRecord, Pcs
  <2>3. RunOK(r)'
    BY <1>1, <2>1 DEF RunOK, RunRecord, Working, UnderLock, InCall, sessions, Inv, Typed
  <2> QED
    BY <2>1, <2>2, <2>3, QuietStep DEF sessions, Inv, Typed
<1>3. CASE Missing(r) # {}
  <2> DEFINE f == NextColumn(r)
             x == [run[r] EXCEPT !.adding = @ \cup {f}, !.altered = @ \cup {f}]
  <2>1. run' = [run EXCEPT ![r] = x] /\ columns' = columns \cup {f}
        /\ UNCHANGED <<archive, table, ledger, written, sessions, noted, faults>>
    BY <1>3 DEF Ensure, Inv, Typed
  <2>2. f \in Field
    BY <1>1, <1>3, MissingColumn DEF RunOK, Working
  <2> HIDE DEF f
  <2>3. x \in RunRecord /\ x.con = run[r].con
    BY <1>1, <2>2 DEF RunRecord, Pcs
  <2>4. RunOK(r)'
    BY <1>1, <2>1 DEF RunOK, RunRecord, Working, UnderLock, InCall, sessions, Inv, Typed
  <2> QED
    BY <2>1, <2>2, <2>3, <2>4, QuietStep DEF sessions, Inv, Typed
<1> QED
  BY <1>2, <1>3

LEMMA SoleTyped ==
  ASSUME NEW x \in RunRecord, NEW y, y = [x EXCEPT !.sole = FALSE]
  PROVE  /\ y \in RunRecord /\ y.pc = x.pc /\ y.mode = x.mode /\ y.con = x.con /\ y.old = x.old
         /\ y.todo = x.todo /\ y.keys = x.keys /\ y.held = x.held
         /\ y.added = x.added /\ y.adding = x.adding /\ y.altered = x.altered
BY DEF RunRecord

\* Only `sole' changes for processes that have been disturbed.
LEMMA SoleChanges ==
  ASSUME Inv, run' \in [Run -> RunRecord],
         \A s \in Run : run'[s] = run[s] \/ run'[s] = [run[s] EXCEPT !.sole = FALSE],
         UNCHANGED <<archive, columns, alive, lock>>
  PROVE  OwnSession' /\ \A s \in Run : RunOK(s)'
<1>1. \A s \in Run : run[s] \in RunRecord /\ RunOK(s)
  BY DEF Inv, Typed
<1>2. \A s \in Run : /\ run'[s].pc = run[s].pc /\ run'[s].mode = run[s].mode /\ run'[s].con = run[s].con
                     /\ run'[s].todo = run[s].todo /\ run'[s].keys = run[s].keys
                     /\ run'[s].added = run[s].added /\ run'[s].adding = run[s].adding
                     /\ run'[s].altered = run[s].altered
  BY <1>1 DEF RunRecord
<1>3. OwnSession'
  BY <1>2 DEF Inv, OwnSession
<1>4. \A s \in Run : RunOK(s)'
  BY <1>1, <1>2 DEF RunOK
<1> QED
  BY <1>3, <1>4

LEMMA MergeInv ==
  ASSUME Inv, NEW r \in Run, Merge(r)
  PROVE  Inv'
<1> DEFINE x == [run[r] EXCEPT !.pc = "record"]
<1>1. run[r] \in RunRecord /\ RunOK(r) /\ Key(r) \in Object /\ run[r].pc = "merge"
  BY RunFacts DEF Merge, At, Working
<1>2. /\ table' = Merged(table, Rows(Key(r), run[r].held)) /\ written' = written \cup {Key(r)}
      /\ UNCHANGED <<archive, columns, ledger, sessions, noted, faults>>
  BY DEF Merge, MergeBy
<1>3. \A s \in Run : run[s] \in RunRecord /\ [run[s] EXCEPT !.sole = FALSE] \in RunRecord
  BY SoleTyped DEF Inv, Typed
<1>4. \A s \in Run : OthersDisturbed(r)[s] = (IF s # r /\ Running(s) THEN [run[s] EXCEPT !.sole = FALSE] ELSE run[s])
  BY DEF OthersDisturbed
<1>5. run' = [OthersDisturbed(r) EXCEPT ![r].pc = "record"] /\ DOMAIN OthersDisturbed(r) = Run
      /\ OthersDisturbed(r)[r] = run[r]
  BY DEF Merge, OthersDisturbed
<1>6. run'[r] = x /\ \A s \in Run \ {r} : run'[s] = OthersDisturbed(r)[s]
  BY <1>5
<1>7. x \in RunRecord
  BY <1>1 DEF RunRecord, Pcs
<1>8. run' \in [Run -> RunRecord]
  <2>1. run' = [s \in Run |-> run'[s]]
    BY <1>5
  <2>2. \A s \in Run : run'[s] \in RunRecord
    BY <1>3, <1>4, <1>6, <1>7
  <2> QED
    BY <2>1, <2>2
<1>9. Typed'
  BY <1>1, <1>2, <1>8 DEF Inv, Typed, Merged, sessions
<1>10. \A s \in Run : /\ run'[s].mode = run[s].mode /\ run'[s].con = run[s].con
                      /\ run'[s].todo = run[s].todo /\ run'[s].keys = run[s].keys
                      /\ run'[s].added = run[s].added /\ run'[s].adding = run[s].adding
                      /\ run'[s].altered = run[s].altered
                      /\ run'[s].pc = IF s = r THEN "record" ELSE run[s].pc
  <2> SUFFICES ASSUME NEW s \in Run PROVE
                      /\ run'[s].mode = run[s].mode /\ run'[s].con = run[s].con
                      /\ run'[s].todo = run[s].todo /\ run'[s].keys = run[s].keys
                      /\ run'[s].added = run[s].added /\ run'[s].adding = run[s].adding
                      /\ run'[s].altered = run[s].altered
                      /\ run'[s].pc = IF s = r THEN "record" ELSE run[s].pc
    OBVIOUS
  <2>1. run[s] \in RunRecord
    BY DEF Inv, Typed
  <2>2. CASE s = r
    BY <2>1, <2>2, <1>6 DEF RunRecord
  <2>3. CASE s # r
    <3>1. run'[s] = run[s] \/ run'[s] = [run[s] EXCEPT !.sole = FALSE]
      BY <2>3, <1>4, <1>6
    <3> QED
      BY <2>1, <2>3, <3>1, SoleTyped
  <2> QED
    BY <2>2, <2>3
<1>11. \A s \in Run : RunOK(s)'
  BY <1>1, <1>2, <1>10 DEF Inv, RunOK, Working, UnderLock, InCall, sessions
<1>12. OwnSession' /\ \A b \in Backend : PendingOK(b)'
  BY <1>2, <1>10 DEF Inv, OwnSession, PendingOK, sessions
<1> QED
  BY <1>9, <1>11, <1>12 DEF Inv

----------------------------------------------------------------------------
(* Sessions that open, and runs that end out of turn *)

LEMMA OpenStep ==
  ASSUME Inv, NEW r \in Run, NEW x \in RunRecord, run' = [run EXCEPT ![r] = x],
         NEW b \in FreshBackend, Opens(b), x.con = b,
         UNCHANGED <<archive, server, dying, pending, lock, noted, faults>>, RunOK(r)'
  PROVE  Inv'
<1>1. run' \in [Run -> RunRecord] /\ run'[r] = x /\ \A s \in Run \ {r} : run'[s] = run[s]
  BY DEF Inv, Typed
<1>2. alive \subseteq alive' /\ alive' \subseteq Backend
  BY DEF Inv, Typed, Opens, FreshBackend
<1>3. Typed'
  BY <1>1, <1>2 DEF Inv, Typed, server
<1>4. \A a \in Backend : PendingOK(a)'
  BY DEF Inv, PendingOK
<1> QED
  BY <1>1, <1>2, <1>3, <1>4, StepOfOne DEF server

LEMMA StartInv ==
  ASSUME Inv, NEW r \in Run, NEW m \in Modes[r], Start(r, m)
  PROVE  Inv'
<1>1. PICK b \in FreshBackend :
        /\ Opens(b)
        /\ run' = [run EXCEPT ![r] = [Idle EXCEPT !.mode = m, !.con = b,
                     !.pc = IF m = "dry" THEN "list" ELSE "lock"]]
  BY DEF Start
<1> DEFINE x == [Idle EXCEPT !.mode = m, !.con = b, !.pc = IF m = "dry" THEN "list" ELSE "lock"]
<1>2. m \in {"normal", "rebuild", "dry"} /\ b \in Backend /\ b # None /\ b \in alive'
  BY <1>1, UpdatePgAssumption DEF FreshBackend, Opens, None
<1>3. x \in RunRecord /\ x.con = b /\ x.mode = m /\ x.todo = {} /\ x.keys = {} /\ x.added = {} /\ x.adding = {}
      /\ x.altered = {} /\ x.pc = IF m = "dry" THEN "list" ELSE "lock"
  BY <1>2 DEF Idle, RunRecord, Pcs, Exits
<1>4. run'[r] = x
  BY <1>1 DEF Inv, Typed
<1>5. UNCHANGED <<archive, server, dying, pending, lock, noted, faults>>
  BY DEF Start
<1>6. RunOK(r)'
  <2> HIDE DEF x
  <2> QED
    BY <1>2, <1>3, <1>4 DEF RunOK, Working, UnderLock, InCall
<1> QED
  BY <1>1, <1>3, <1>5, <1>6, OpenStep

LEMMA ReopenInv ==
  ASSUME Inv, NEW r \in Run, Reopen(r)
  PROVE  Inv'
<1>1. PICK b \in FreshBackend :
        /\ Opens(b)
        /\ run' = [run EXCEPT ![r].pc = "terminate", ![r].old = Con(r), ![r].con = b]
  BY DEF Reopen
<1>2. run[r] \in RunRecord /\ RunOK(r) /\ Con(r) \in Backend /\ run[r].pc = "reopen"
  BY RunFacts DEF Reopen, At, Running
<1> DEFINE x == [run[r] EXCEPT !.pc = "terminate", !.old = Con(r), !.con = b]
<1>3. run' = [run EXCEPT ![r] = x] /\ run'[r] = x
  BY <1>1 DEF Inv, Typed
<1>4. b \in Backend /\ b # None /\ b \in alive'
  BY <1>1, NoneIsNoBackend DEF FreshBackend, Opens
<1>5. x \in RunRecord /\ x.con = b /\ x.pc = "terminate" /\ x.mode = run[r].mode /\ x.todo = run[r].todo
      /\ x.keys = run[r].keys /\ x.added = run[r].added /\ x.adding = run[r].adding
      /\ x.altered = run[r].altered
  BY <1>2, <1>4 DEF RunRecord, Pcs
<1>6. UNCHANGED <<archive, server, dying, pending, lock, noted, faults>>
  BY DEF Reopen
<1>7. RunOK(r)'
  <2> HIDE DEF x
  <2> QED
    BY <1>2, <1>3, <1>4, <1>5, <1>6 DEF RunOK, Working, UnderLock, InCall, server
<1> QED
  BY <1>1, <1>3, <1>5, <1>6, <1>7, OpenStep

LEMMA TerminateInv ==
  ASSUME Inv, NEW r \in Run, Terminate(r)
  PROVE  Inv'
<1>1. run[r] \in RunRecord /\ RunOK(r) /\ run[r].pc = "terminate"
  BY RunFacts DEF Terminate, At
<1> DEFINE x == [run[r] EXCEPT !.pc = "relock"]
<1>2. run' = [run EXCEPT ![r] = x] /\ run'[r] = x
      /\ UNCHANGED <<archive, server, alive, pending, lock, noted, faults>>
  BY DEF Terminate, Inv, Typed
<1>3. dying' \subseteq alive
  BY DEF Terminate, Signalled, Inv, Typed
<1>4. x \in RunRecord /\ x.con = run[r].con
  BY <1>1 DEF RunRecord, Pcs
<1>5. RunOK(r)'
  BY <1>1, <1>2 DEF RunOK, RunRecord, Working, UnderLock, InCall, server
<1> QED
  BY <1>2, <1>3, <1>4, <1>5, QuietStep DEF server, Inv, Typed

LEMMA FaultCounted == ASSUME Inv, Fault PROVE faults' \in 0..MaxFaults
BY UpdatePgAssumption DEF Inv, Typed, Fault

\* A run cut off: its session ends, or is left with what it had received.
LEMMA CutOff ==
  ASSUME Inv, NEW r \in Run, Running(r), Fault, UNCHANGED <<archive, server>>,
         NEW status \in Exits, run' = [run EXCEPT ![r] = Exited(status)],
         Audit(r) \/ UNCHANGED noted,
         \/ Ends(Con(r))
         \/ ~At(r, "reopen") /\ Unlink(r)
         \/ UNCHANGED sessions
  PROVE  Inv'
<1>1. run[r] \in RunRecord /\ Con(r) \in Backend
  BY RunFacts
<1>2. run' \in [Run -> RunRecord] /\ Blank(run'[r]) /\ \A s \in Run \ {r} : run'[s] = run[s]
  BY ExitedTyped DEF Inv, Typed, Blank
<1>3. /\ alive' \subseteq Backend /\ dying' \subseteq alive' /\ lock' \in alive' \cup {None}
      /\ pending' \in [Backend -> Statement]
      /\ \A b \in Backend : PendingOK(b)'
  <2>1. CASE Ends(Con(r))
    BY <1>1, <2>1, EndsTyped
  <2>2. CASE ~At(r, "reopen") /\ Unlink(r)
    BY <2>2, UnlinkTyped DEF Inv, Typed
  <2>3. CASE UNCHANGED sessions
    BY <2>3 DEF sessions, Inv, Typed, PendingOK
  <2> QED
    BY <2>1, <2>2, <2>3
<1>4. Typed'
  BY <1>1, <1>2, <1>3, FaultCounted DEF Inv, Typed, server, RunRecord, Audit
<1>5. RunOK(r)'
  BY <1>2 DEF Blank, RunOK, Working, UnderLock, InCall
<1>6. \A s \in Run \ {r} : run[s].con \in Backend =>
        (run[s].con \in alive => run[s].con \in alive') /\ (lock = run[s].con => lock' = lock)
  BY RunFacts DEF Ends, Unlink, sessions
<1> QED
  BY <1>2, <1>3, <1>4, <1>5, <1>6, StepOfOne DEF Blank, server

LEMMA FaultStepInv ==
  ASSUME Inv, NEW r \in Run, FaultStep(r)
  PROVE  Inv'
<1>1. CASE BreakInCall(r)
  <2> DEFINE x == [run[r] EXCEPT !.pc = "reopen", !.again = TRUE, !.adding = {}]
  <2>1. run[r] \in RunRecord /\ RunOK(r) /\ run[r].pc \in InCall /\ Running(r) /\ ~At(r, "reopen") /\ Con(r) \in Backend
    BY <1>1, RunFacts DEF BreakInCall, Running, At, InCall
  <2>2. run' = [run EXCEPT ![r] = x] /\ run' \in [Run -> RunRecord] /\ run'[r] = x
        /\ \A s \in Run \ {r} : run'[s] = run[s]
    BY <1>1, <2>1 DEF BreakInCall, Inv, Typed, RunRecord, Pcs
  <2>3. Unlink(r) /\ Fault /\ UNCHANGED <<archive, server, noted>>
    BY <1>1 DEF BreakInCall
  <2>4. Typed'
    BY <2>1, <2>2, <2>3, UnlinkTyped, FaultCounted DEF Inv, Typed, server, RunRecord
  <2>5. x.con = run[r].con /\ x.pc = "reopen" /\ x.todo = run[r].todo /\ x.keys = run[r].keys
        /\ x.added = run[r].added /\ x.adding = {} /\ x.altered = run[r].altered
    BY <2>1 DEF RunRecord
  <2>6. RunOK(r)'
    <3> HIDE DEF x
    <3> QED
      BY <2>1, <2>2, <2>3, <2>5, NoneIsNoBackend DEF RunOK, Working, UnderLock, InCall, server, Con
  <2> QED
    BY <2>1, <2>2, <2>3, <2>4, <2>5, <2>6, UnlinkTyped, StepOfOne DEF server
<1>2. CASE BreakStops(r)
  BY <1>2, CutOff DEF BreakStops, StopPartWay, Linked, Running, At, Exits
<1>3. CASE Refused(r)
  BY <1>3, CutOff DEF Refused, StopPartWay, Raise, Running, At, Exits
<1>4. CASE ReopenFails(r)
  BY <1>4, CutOff DEF ReopenFails, StopPartWay, Running, At, Exits
<1>5. CASE Kill(r)
  BY <1>5, CutOff DEF Kill, Exits
<1> QED
  BY <1>1, <1>2, <1>3, <1>4, <1>5 DEF FaultStep

----------------------------------------------------------------------------
(* The server on its own, and the archive *)

LEMMA OrphanRunsInv ==
  ASSUME Inv, NEW b \in Backend, OrphanRuns(b)
  PROVE  Inv'
<1> DEFINE st == pending[b]
<1>1. st \in Statement /\ b \in alive /\ st.kind # "none"
  BY DEF Inv, Typed, OrphanRuns, Orphan
<1>2. pending' = [pending EXCEPT ![b] = Nothing] /\ UNCHANGED <<archive, alive, dying, noted, faults>>
  BY DEF OrphanRuns
<1>3. Nothing \in Statement /\ Nothing.kind = "none"
  BY DEF Nothing, Statement
<1>4. pending' \in [Backend -> Statement]
  BY <1>2, <1>3 DEF Inv, Typed
<1>5. \A a \in Backend : (pending'[a] = pending[a] \/ pending'[a].kind = "none")
  BY <1>2, <1>3 DEF Inv, Typed
<1>6. lock' = lock \/ lock = None => \A a \in Backend : PendingOK(a)'
  <2> SUFFICES ASSUME lock' = lock \/ lock = None, NEW a \in Backend PROVE PendingOK(a)'
    OBVIOUS
  <2>1. CASE pending'[a].kind = "none"
    BY <2>1 DEF PendingOK, InCall
  <2>2. CASE pending'[a] = pending[a]
    BY <2>2, NoneIsNoBackend DEF Inv, PendingOK
  <2> QED
    BY <1>5, <2>1, <2>2
<1>7. CASE /\ st.kind = "lock"
           /\ lock' = IF lock = None THEN b ELSE lock
           /\ UNCHANGED <<server, run>>
  <2>1. Typed'
    BY <1>1, <1>2, <1>4, <1>7 DEF Inv, Typed, server
  <2>2. \A s \in Run : RunOK(s)'
    <3> SUFFICES ASSUME NEW s \in Run PROVE RunOK(s)'
      OBVIOUS
    <3>1. RunOK(s) /\ run[s] \in RunRecord
      BY DEF Inv, Typed
    <3> QED
      BY <1>2, <1>7, <3>1 DEF RunOK, UnderLock, InCall, server
  <2> QED
    BY <1>6, <1>7, <2>1, <2>2 DEF Inv, OwnSession
<1>8. CASE /\ st.kind = "ensure"
           /\ columns' = columns \cup st.add
           /\ UNCHANGED <<table, ledger, written, lock, run>>
  <2>1. st.add \subseteq Field
    BY <1>1 DEF Statement
  <2>2. Typed'
    BY <1>2, <1>4, <1>8, <2>1 DEF Inv, Typed
  <2>3. \A s \in Run : RunOK(s)'
    BY <1>2, <1>8 DEF Inv, RunOK
  <2> QED
    BY <1>6, <1>8, <2>2, <2>3 DEF Inv, OwnSession
<1>9. CASE /\ st.kind = "merge"
           /\ MergeBy(st.key, st.held)
           /\ run' = [r \in Run |-> IF Running(r) /\ ~OwnerOf(b, r)
                                    THEN [run[r] EXCEPT !.sole = FALSE] ELSE run[r]]
           /\ UNCHANGED <<columns, ledger, lock>>
  <2>1. st.key \in Object
    BY <1>9 DEF Inv, PendingOK
  <2>2. \A r \in Run : run'[r] = run[r] \/ run'[r] = [run[r] EXCEPT !.sole = FALSE]
    BY <1>9
  <2>3. run' \in [Run -> RunRecord]
    <3>1. \A r \in Run : run'[r] \in RunRecord
      BY <2>2, SoleTyped DEF Inv, Typed
    <3> QED
      BY <1>9, <3>1
  <2>4. Typed'
    BY <1>2, <1>4, <1>9, <2>1, <2>3 DEF Inv, Typed, MergeBy, Merged
  <2> QED
    BY <1>2, <1>6, <1>9, <2>2, <2>3, <2>4, SoleChanges DEF Inv
<1>10. CASE /\ st.kind = "record"
            /\ ledger' = ledger \cup {st.key}
            /\ UNCHANGED <<table, columns, written, lock, run>>
  <2>1. st.key \in Object
    BY <1>10 DEF Inv, PendingOK
  <2>2. Typed'
    BY <1>2, <1>4, <1>10, <2>1 DEF Inv, Typed
  <2>3. \A s \in Run : RunOK(s)'
    BY <1>2, <1>10 DEF Inv, RunOK
  <2> QED
    BY <1>6, <1>10, <2>2, <2>3 DEF Inv, OwnSession
<1> QED
  BY <1>7, <1>8, <1>9, <1>10 DEF OrphanRuns

LEMMA OrphanEndsInv ==
  ASSUME Inv, NEW b \in Backend, OrphanEnds(b)
  PROVE  Inv'
<1>1. Ends(b) /\ Orphan(b) /\ UNCHANGED <<archive, server, run, noted, faults>>
  BY DEF OrphanEnds
<1>2. Typed'
  BY <1>1, EndsTyped DEF Inv, Typed, server
<1>3. \A s \in Run : RunOK(s)'
  <2> SUFFICES ASSUME NEW s \in Run PROVE RunOK(s)'
    OBVIOUS
  <2>1. RunOK(s) /\ run[s] \in RunRecord
    BY DEF Inv, Typed
  <2>2. run[s].con = b => run[s].pc = "reopen"
    BY <1>1 DEF Orphan, At, Con
  <2> QED
    BY <1>1, <2>1, <2>2 DEF RunOK, Ends, UnderLock, InCall, server
<1> QED
  BY <1>1, <1>2, <1>3, EndsTyped DEF Inv, OwnSession

LEMMA UploadInv ==
  ASSUME Inv, NEW o \in Object, Upload(o)
  PROVE  Inv'
<1>1. archive \subseteq archive' /\ archive' \subseteq Object
      /\ UNCHANGED <<server, sessions, run, noted, faults>>
  BY DEF Upload, Inv, Typed
<1>2. Typed'
  BY <1>1 DEF Inv, Typed, server, sessions
<1>3. \A s \in Run : RunOK(s)'
  BY <1>1 DEF Inv, RunOK, server, sessions
<1> QED
  BY <1>1, <1>2, <1>3 DEF Inv, OwnSession, PendingOK, server, sessions

LEMMA StutterInv == ASSUME Inv, UNCHANGED vars PROVE Inv'
<1>1. UNCHANGED <<archive, table, columns, ledger, written, alive, dying, pending, lock, run, noted, faults>>
  BY DEF vars, server, sessions
<1>2. Typed'
  BY <1>1 DEF Inv, Typed
<1>3. \A s \in Run : RunOK(s)'
  BY <1>1 DEF Inv, RunOK
<1> QED
  BY <1>1, <1>2, <1>3 DEF Inv, OwnSession, PendingOK

LEMMA NextInv == ASSUME Inv, [Next]_vars PROVE Inv'
<1>1. CASE \E r \in Run : RunStep(r)
  BY <1>1, GetLockInv, LockBusyInv, ListInv, IngestInv, EnsureInv, MergeInv, RecordInv,
     ReopenInv, TerminateInv DEF RunStep
<1>2. CASE \E r \in Run : FaultStep(r)
  BY <1>2, FaultStepInv
<1>3. CASE \E r \in Run : \E m \in Modes[r] : Start(r, m)
  BY <1>3, StartInv
<1>4. CASE \E b \in Backend : OrphanRuns(b) \/ OrphanEnds(b)
  BY <1>4, OrphanRunsInv, OrphanEndsInv
<1>5. CASE \E o \in Object : Upload(o)
  BY <1>5, UploadInv
<1> QED
  BY <1>1, <1>2, <1>3, <1>4, <1>5, StutterInv DEF Next

\* The inductive invariant holds throughout.
THEOREM Invariant == Spec => []Inv
BY InitInv, NextInv, PTL DEF Spec

\* Every variable stays in its type: what each of a run's keys, sessions and
\* columns may be, whatever breaks when.
THEOREM TypeCorrect == Spec => []TypeOK
<1>1. Inv => TypeOK
  BY DEF Inv, Typed, TypeOK, RunOK, RunRecord, Exits
<1> QED
  BY <1>1, Invariant, PTL

\* One run per table: whoever may still write, a run or the session a broken
\* link left behind, holds the table's advisory lock.
THEOREM OneWriterAtATime == Spec => []OneWriter
<1>1. Inv => OneWriter
  BY DEF Inv, OneWriter, RunOK, PendingOK, UnderLock, InCall, Con
<1> QED
  BY <1>1, Invariant, PTL

----------------------------------------------------------------------------
(* The ledger follows the table *)

Ledgered ==
  /\ ledger \subseteq written
  /\ \A r \in Run : run[r].pc = "record" => Key(r) \in written
  /\ \A b \in Backend : pending[b].kind = "record" => pending[b].key \in written
  /\ \A o \in written : Stands(o)

\* What a step does to the table and the ledger: by whole objects, if anything.
LEMMA DerivedStep ==
  ASSUME Inv, Ledgered, [Next]_vars
  PROVE  [Derived!DerivedNext]_(Derived!derivedVars)
<1> USE DEF Derived!DerivedNext, Derived!derivedVars
<1>1. ASSUME NEW k \in Object, NEW h \in SUBSET Message, MergeBy(k, h), UNCHANGED ledger
      PROVE  Derived!WriteObject(k)
  BY <1>1 DEF MergeBy, Derived!WriteObject, Derived!Merged, Derived!Rows, Merged, Rows,
     Derived!Region, Region, Derived!RowTimes, RowTimes, Derived!Columns, Columns,
     Derived!Written, Written, Derived!Cell, Cell
<1>2. ASSUME NEW k \in Object, k \in written, ledger' = ledger \cup {k}, UNCHANGED <<table, written>>
      PROVE  Derived!RecordObject(k)
  BY <1>2 DEF Derived!RecordObject
<1>3. CASE \E r \in Run : RunStep(r)
  <2> PICK r \in Run : RunStep(r)
    BY <1>3
  <2>1. CASE Merge(r)
    <3>1. Key(r) \in Object /\ run[r].held \in SUBSET Message /\ MergeBy(Key(r), run[r].held) /\ UNCHANGED ledger
      BY <2>1, RunFacts DEF Merge, At, Working
    <3> QED
      BY <1>1, <3>1 DEF Derived!Object, Object
  <2>2. CASE Record(r)
    <3>1. Key(r) \in Object /\ Key(r) \in written /\ ledger' = ledger \cup {Key(r)} /\ UNCHANGED <<table, written>>
      BY <2>2, RunFacts DEF Record, At, Working, Ledgered
    <3> QED
      BY <1>2, <3>1 DEF Derived!Object, Object
  <2>3. CASE TakeLock(r) \/ Relock(r) \/ LockBusy(r) \/ List(r) \/ Ingest(r)
             \/ Ensure(r) \/ Reopen(r) \/ Terminate(r)
    BY <2>3 DEF TakeLock, Relock, GetLock, LockBusy, List, Ingest, Ensure, Reopen, Terminate, server
  <2> QED
    BY <2>1, <2>2, <2>3 DEF RunStep
<1>4. CASE \E r \in Run : FaultStep(r)
  BY <1>4 DEF FaultStep, BreakInCall, BreakStops, Refused, ReopenFails, Kill, server
<1>5. CASE \E r \in Run : \E m \in Modes[r] : Start(r, m)
  BY <1>5 DEF Start, server
<1>6. CASE \E b \in Backend : OrphanRuns(b)
  <2> PICK b \in Backend : OrphanRuns(b)
    BY <1>6
  <2>1. pending[b] \in Statement /\ PendingOK(b)
    BY DEF Inv, Typed
  <2>2. CASE pending[b].kind = "merge"
    <3>1. pending[b].key \in Object /\ pending[b].held \in SUBSET Message
          /\ MergeBy(pending[b].key, pending[b].held) /\ UNCHANGED ledger
      BY <2>1, <2>2 DEF OrphanRuns, PendingOK, Statement
    <3> QED
      BY <1>1, <3>1 DEF Derived!Object, Object
  <2>3. CASE pending[b].kind = "record"
    <3>1. pending[b].key \in Object /\ pending[b].key \in written
          /\ ledger' = ledger \cup {pending[b].key} /\ UNCHANGED <<table, written>>
      BY <2>1, <2>3 DEF OrphanRuns, PendingOK, Ledgered
    <3> QED
      BY <1>2, <3>1 DEF Derived!Object, Object
  <2>4. CASE pending[b].kind \notin {"merge", "record"}
    BY <2>4 DEF OrphanRuns, server
  <2> QED
    BY <2>2, <2>3, <2>4
<1>7. CASE \E b \in Backend : OrphanEnds(b)
  BY <1>7 DEF OrphanEnds, server
<1>8. CASE \E o \in Object : Upload(o)
  BY <1>8 DEF Upload, server
<1>9. CASE UNCHANGED vars
  BY <1>9 DEF vars, server
<1> QED
  BY <1>3, <1>4, <1>5, <1>6, <1>7, <1>8, <1>9 DEF Next

\* What an object assigned stands, or what a later one that assigns it too did.
LEMMA StandsStays ==
  ASSUME \A o \in written : Stands(o), written \subseteq Object, ledger \subseteq written,
         [Derived!DerivedNext]_(Derived!derivedVars)
  PROVE  /\ ledger' \subseteq written' /\ written \subseteq written'
         /\ \A o \in written' : Stands(o)'
<1>1. CASE UNCHANGED <<table, written, ledger>>
  BY <1>1 DEF Stands
<1>2. ASSUME NEW k \in Object, Derived!RecordObject(k)
      PROVE  /\ ledger' \subseteq written' /\ written \subseteq written'
             /\ \A o \in written' : Stands(o)'
  BY <1>2 DEF Derived!RecordObject, Stands
<1>3. ASSUME NEW k \in Object, Derived!WriteObject(k)
      PROVE  /\ ledger' \subseteq written' /\ written \subseteq written'
             /\ \A o \in written' : Stands(o)'
  <2>1. PICK h \in SUBSET Message : table' = Merged(table, Rows(k, h))
    BY <1>3 DEF Derived!WriteObject, Derived!Merged, Derived!Rows, Merged, Rows,
       Derived!Region, Region, Derived!RowTimes, RowTimes, Derived!Columns, Columns,
       Derived!Written, Written, Derived!Cell, Cell
  <2>2. written' = written \cup {k} /\ ledger' = ledger
    BY <1>3 DEF Derived!WriteObject
  <2>3. \A o \in Object, g \in SUBSET Message : Region(Rows(o, g)) \subseteq Cell
    BY RowsTyped
  <2>4. ASSUME NEW c \in Region(Rows(k, h))
        PROVE  Covers(k, h, c) /\ table'[c] = Written(Rows(k, h), c)
    BY <2>1, <2>3, <2>4 DEF Merged, Covers
  <2>5. ASSUME NEW c \in Cell, c \notin Region(Rows(k, h))
        PROVE  table'[c] = table[c]
    BY <2>1, <2>5 DEF Merged
  <2>6. Stands(k)'
    BY <2>2, <2>4 DEF Stands
  <2>7. ASSUME NEW o \in written, o # k PROVE Stands(o)'
    <3>1. PICK g \in SUBSET Message : \A c \in Region(Rows(o, g)) :
            \E p \in written, f \in SUBSET Message : Covers(p, f, c) /\ table[c] = Written(Rows(p, f), c)
      BY <2>7 DEF Stands
    <3>2. ASSUME NEW c \in Region(Rows(o, g))
          PROVE  \E p \in written', f \in SUBSET Message : Covers(p, f, c) /\ table'[c] = Written(Rows(p, f), c)
      <4>1. CASE c \in Region(Rows(k, h))
        BY <4>1, <2>2, <2>4
      <4>2. CASE c \notin Region(Rows(k, h))
        <5>1. PICK p \in written, f \in SUBSET Message : Covers(p, f, c) /\ table[c] = Written(Rows(p, f), c)
          BY <3>1, <3>2
        <5>2. c \in Cell
          BY <3>2, <2>3, <2>7
        <5> QED
          BY <2>2, <2>5, <4>2, <5>1, <5>2
      <4> QED
        BY <4>1, <4>2
    <3> QED
      BY <3>2 DEF Stands
  <2> QED
    BY <2>2, <2>6, <2>7
<1> QED
  BY <1>1, <1>2, <1>3 DEF Derived!DerivedNext, Derived!derivedVars, Derived!Object, Object

\* Who is about to record an object has just merged it, or was about to before.
LEMMA RecordersHaveMerged ==
  ASSUME Inv, [Next]_vars, NEW s \in Run, run'[s].pc = "record"
  PROVE  run'[s].todo = run[s].todo /\ (run[s].pc = "record" \/ Merge(s))
<1>1. run[s] \in RunRecord /\ run \in [Run -> RunRecord]
  BY DEF Inv, Typed
<1>2. ASSUME NEW r \in Run, RunStep(r)
      PROVE  run'[s].todo = run[s].todo /\ (run[s].pc = "record" \/ Merge(s))
  <2>1. CASE TakeLock(r)
    BY <1>1, <2>1 DEF TakeLock, GetLock, RunRecord
  <2>2. CASE Relock(r)
    BY <1>1, <2>2 DEF Relock, GetLock, RunRecord
  <2>3. CASE LockBusy(r)
    BY <1>1, <2>3, IdleTyped DEF LockBusy, Finish, Blank
  <2>4. CASE List(r)
    BY <1>1, <2>4, IdleTyped DEF List, Finish, FirstStep, RunRecord, Blank
  <2>5. CASE Ingest(r) \/ Record(r)
    <3>1. s # r => run'[s] = run[s]
      BY <1>1, <2>5 DEF Ingest, Record, NextObject, Finish
    <3>2. run'[r].pc # "record"
      <4>1. run[r] \in RunRecord
        BY DEF Inv, Typed
      <4>2. CASE Finish(r)
        BY <1>1, <4>2, IdleTyped DEF Finish, Blank
      <4>3. CASE ~Finish(r)
        <5>1. run' = [run EXCEPT ![r].pc = FirstStep(r), ![r].todo = @ \ {Key(r)},
                        ![r].again = FALSE, ![r].held = Ingested[Key(r), @].held]
          BY <2>5, <4>3 DEF Ingest, Record, NextObject
        <5>2. FirstStep(r) # "record"
          BY DEF FirstStep
        <5> QED
          BY <1>1, <4>1, <5>1, <5>2 DEF RunRecord
      <4> QED
        BY <4>2, <4>3
    <3> QED
      BY <3>1, <3>2
  <2>6. CASE Ensure(r)
    <3>1. r # s \/ run'[r].pc # "record"
      BY <1>1, <2>6 DEF Ensure, RunRecord, At
    <3>2. r # s => run'[s] = run[s]
      BY <1>1, <2>6 DEF Ensure
    <3> QED
      BY <3>1, <3>2
  <2>7. CASE Merge(r)
    <3>1. run' = [OthersDisturbed(r) EXCEPT ![r].pc = "record"]
      BY <2>7 DEF Merge
    <3>2. CASE s = r
      BY <1>1, <2>7, <3>1, <3>2 DEF OthersDisturbed, RunRecord
    <3>3. CASE s # r
      <4>1. run'[s] = run[s] \/ run'[s] = [run[s] EXCEPT !.sole = FALSE]
        BY <3>1, <3>3 DEF OthersDisturbed
      <4> QED
        BY <1>1, <4>1, SoleTyped
    <3> QED
      BY <3>2, <3>3
  <2>8. CASE Reopen(r)
    BY <1>1, <2>8 DEF Reopen, RunRecord
  <2>9. CASE Terminate(r)
    BY <1>1, <2>9 DEF Terminate, RunRecord
  <2> QED
    BY <1>2, <2>1, <2>2, <2>3, <2>4, <2>5, <2>6, <2>7, <2>8, <2>9 DEF RunStep
<1>3. ASSUME NEW r \in Run, FaultStep(r)
      PROVE  run'[s].todo = run[s].todo /\ (run[s].pc = "record" \/ Merge(s))
  <2>1. CASE BreakInCall(r)
    BY <1>1, <2>1 DEF BreakInCall, RunRecord
  <2>2. CASE BreakStops(r) \/ Refused(r) \/ ReopenFails(r) \/ Kill(r)
    BY <1>1, <2>2, ExitedTyped DEF BreakStops, Refused, ReopenFails, Kill, StopPartWay, Raise, Exits, Blank
  <2> QED
    BY <1>3, <2>1, <2>2 DEF FaultStep
<1>4. ASSUME NEW r \in Run, NEW m \in Modes[r], Start(r, m)
      PROVE  run'[s].todo = run[s].todo /\ run[s].pc = "record"
  BY <1>1, <1>4 DEF Start, Idle
<1>5. ASSUME NEW b \in Backend, OrphanRuns(b)
      PROVE  run'[s].todo = run[s].todo /\ run[s].pc = "record"
  <2>1. run'[s] = run[s] \/ run'[s] = [run[s] EXCEPT !.sole = FALSE]
    BY <1>5 DEF OrphanRuns
  <2> QED
    BY <1>1, <2>1, SoleTyped
<1> QED
  BY <1>2, <1>3, <1>4, <1>5 DEF Next, OrphanEnds, Upload, vars

\* A statement that records an object was sent by a run about to record it.
LEMMA PendingRecords ==
  ASSUME Inv, [Next]_vars, NEW b \in Backend, pending'[b].kind = "record"
  PROVE  \/ pending'[b] = pending[b]
         \/ \E r \in Run : run[r].pc = "record" /\ pending'[b].key = Key(r)
<1>1. pending \in [Backend -> Statement] /\ Nothing.kind = "none"
  BY DEF Inv, Typed, Nothing
<1>2. ASSUME NEW a \in Backend, pending' = [pending EXCEPT ![a] = Nothing]
      PROVE  pending'[b] = pending[b]
  BY <1>1, <1>2
<1>3. ASSUME NEW r \in Run, Running(r), ~At(r, "reopen"), Unlink(r)
      PROVE  \/ pending'[b] = pending[b]
             \/ run[r].pc = "record" /\ pending'[b].key = Key(r)
  <2>1. pending'[b] = pending[b] \/ pending'[b] = Sent(r)
    BY <1>1, <1>3 DEF Unlink
  <2> QED
    BY <1>3, <2>1, SentTyped DEF At
<1>4. ASSUME NEW r \in Run, RunStep(r)
      PROVE  pending'[b] = pending[b]
  <2>1. CASE UNCHANGED pending
    BY <2>1
  <2>2. CASE Finish(r)
    BY <1>2, <2>2, RunFacts DEF Finish, Ends, sessions, Running, At, Inv, Typed
  <2> QED
    BY <1>4, <2>1, <2>2 DEF RunStep, TakeLock, Relock, GetLock, LockBusy, List, Ingest, Ensure, Merge,
       Record, NextObject, Reopen, Terminate, sessions
<1>5. ASSUME NEW r \in Run, FaultStep(r)
      PROVE  \/ pending'[b] = pending[b]
             \/ run[r].pc = "record" /\ pending'[b].key = Key(r)
  <2>1. CASE BreakInCall(r)
    BY <1>3, <2>1 DEF BreakInCall, Running, At, InCall
  <2>2. CASE BreakStops(r)
    BY <1>3, <2>2 DEF BreakStops, Running, At, Linked
  <2>3. CASE Refused(r)
    <3>1. Con(r) \in Backend
      BY <2>3, RunFacts DEF Refused, Running, At
    <3> QED
      BY <1>2, <2>3, <3>1 DEF Refused, Ends
  <2>4. CASE ReopenFails(r)
    BY <2>4 DEF ReopenFails, sessions
  <2>5. CASE Kill(r)
    BY <1>3, <2>5 DEF Kill, sessions
  <2> QED
    BY <1>5, <2>1, <2>2, <2>3, <2>4, <2>5 DEF FaultStep
<1>6. ASSUME NEW a \in Backend, OrphanRuns(a) \/ OrphanEnds(a)
      PROVE  pending'[b] = pending[b]
  BY <1>2, <1>6 DEF OrphanRuns, OrphanEnds, Ends
<1> QED
  BY <1>4, <1>5, <1>6 DEF Next, Start, Upload, vars, sessions

LEMMA LedgeredNext == ASSUME Inv, Ledgered, [Next]_vars PROVE Ledgered'
<1>1. /\ ledger' \subseteq written' /\ written \subseteq written'
      /\ \A o \in written' : Stands(o)'
  BY DerivedStep, StandsStays DEF Ledgered, Inv, Typed
<1>2. ASSUME NEW r \in Run, run'[r].pc = "record" PROVE Key(r)' \in written'
  <2>1. Key(r)' = Key(r) /\ (run[r].pc = "record" \/ Merge(r))
    BY <1>2, RecordersHaveMerged DEF Key
  <2> QED
    BY <1>1, <2>1 DEF Ledgered, Merge, MergeBy
<1>3. ASSUME NEW b \in Backend, pending'[b].kind = "record" PROVE pending'[b].key \in written'
  BY <1>1, <1>3, PendingRecords DEF Ledgered
<1> QED
  BY <1>1, <1>2, <1>3 DEF Ledgered

LEMMA InitLedgered == Init => Ledgered
BY IdleTyped DEF Init, Ledgered, Nothing, Blank

\* The inductive invariant with what the ledger needs: a key in it, or about to
\* be recorded by a run or an orphan, has been merged.
THEOREM LedgerFollowsTable == Spec => [](Inv /\ Ledgered)
BY InitInv, InitLedgered, NextInv, LedgeredNext, PTL DEF Spec

\* A ledger entry means "this object is fully written": whatever broke between
\* its merge and its entry, everything it assigns stands in the table, or what
\* another merged object assigned to the same cell, be it NULL.
THEOREM LedgerIsTrue == Spec => []RecordedIsWritten
<1>1. Ledgered => RecordedIsWritten
  BY DEF Ledgered, RecordedIsWritten
<1> QED
  BY <1>1, LedgerFollowsTable, PTL

\* However many runs, sessions and late statements take part, the table changes
\* by whole objects only, and an object enters the ledger only when written.
THEOREM UpdateImplementsDerived == Spec => ImplementsDerived
<1>1. Init => Derived!DerivedInit
  BY DEF Init, Derived!DerivedInit, Derived!EmptyTable, EmptyTable, Derived!Cell, Cell
<1>2. Inv /\ Ledgered /\ [Next]_vars => [Derived!DerivedNext]_(Derived!derivedVars)
  BY DerivedStep
<1> QED
  BY <1>1, <1>2, LedgerFollowsTable, PTL DEF Spec, ImplementsDerived, Derived!DerivedSpec

----------------------------------------------------------------------------
(* Sessions are signalled, and columns reported, as they should be *)

OrphansOK ==
  /\ \A b \in dying : Orphan(b)
  /\ \A r \in Run : run[r].old \in alive => Orphan(run[r].old)

\* Process r still has the columns it must report, or has just named them in an
\* entry, or is gone in a way that writes none.
Reported(r) ==
  \/ Reportable(r) \subseteq run'[r].added \cup noted'
  \/ run'[r].exit \in {Traceback, Killed}

\* Process s has, for its sessions and its columns, nothing new.
SameFor(s) ==
  /\ run'[s].pc = run[s].pc /\ run'[s].con = run[s].con /\ run'[s].old = run[s].old
  /\ run'[s].added = run[s].added

\* What process r may do to its own sessions and columns, and to the server's.
Shape(r) ==
  /\ \A s \in Run \ {r} : SameFor(s)
  /\ run'[r].con \in {run[r].con, None} \cup FreshBackend
  /\ run[r].pc = "reopen" /\ run'[r].con = run[r].con => run'[r].pc = "reopen"
  /\ alive' \subseteq alive \cup FreshBackend
  /\ dying' \subseteq dying \cup ({run[r].old} \cap alive)
  /\ \/ run'[r].old \in {run[r].old, None}
     \/ run'[r].old = run[r].con /\ run'[r].con \in FreshBackend
  /\ Reported(r)

\* What the server does on its own.
ServerShape ==
  /\ \A s \in Run : SameFor(s)
  /\ alive' \subseteq alive /\ dying' \subseteq dying

LEMMA ShapeKeeps ==
  ASSUME Inv, Inv', OrphansOK, NEW r \in Run, Shape(r)
  PROVE  OrphansOK'
<1> USE DEF Shape, SameFor
<1>1. \A s \in Run : run[s].old \notin FreshBackend /\ run[s].con \notin FreshBackend
  BY DEF FreshBackend
<1>2. FreshBackend \cap alive = {}
  BY DEF FreshBackend
<1>3. ASSUME NEW b \in alive, Orphan(b), b \in alive' PROVE Orphan(b)'
  <2>1. b # None
    BY NoneIsNoBackend DEF Inv, Typed
  <2> QED
    BY <1>2, <1>3, <2>1 DEF Orphan, Con, At
<1>4. \A b \in dying' : Orphan(b)'
  <2> SUFFICES ASSUME NEW b \in dying' PROVE Orphan(b)'
    OBVIOUS
  <2>1. b \in alive' /\ b \in alive /\ Orphan(b)
    BY DEF Inv, Typed, OrphansOK
  <2> QED
    BY <1>3, <2>1
<1>5. ASSUME NEW s \in Run, run'[s].old \in alive' PROVE Orphan(run[s].old)'
  <2>1. run'[s].old # None
    BY <1>5, NoneIsNoBackend DEF Inv, Typed
  <2>2. CASE run'[s].old = run[s].old
    BY <1>1, <1>3, <1>5, <2>2 DEF OrphansOK
  <2>3. CASE s = r /\ run'[r].old = run[r].con /\ run'[r].con \in FreshBackend
    <3>1. \A u \in Run \ {r} : run'[u].con # run[r].con
      BY <2>1, <2>3 DEF Inv, OwnSession
    <3>2. run'[r].con # run[r].con
      BY <1>1, <2>3
    <3> QED
      BY <1>5, <2>3, <3>1, <3>2 DEF Orphan, Con
  <2> QED
    BY <2>1, <2>2, <2>3
<1> QED
  BY <1>4, <1>5 DEF OrphansOK

LEMMA ServerShapeKeeps ==
  ASSUME OrphansOK, ServerShape, Inv'
  PROVE  OrphansOK'
<1>1. ASSUME NEW b, Orphan(b), b \in alive' PROVE Orphan(b)'
  BY <1>1 DEF Orphan, ServerShape, SameFor, Con, At
<1> QED
  BY <1>1 DEF OrphansOK, ServerShape, SameFor, Inv, Typed

LEMMA SameIsReported == ASSUME NEW s \in Run, SameFor(s) PROVE Reported(s)
BY DEF SameFor, Reported, Reportable, At

\* A run that ends in order has named its columns.
LEMMA FinishShape ==
  ASSUME Inv, NEW r \in Run, Running(r), Finish(r)
  PROVE  Shape(r)
<1>1. Con(r) # None
  BY RunFacts, NoneIsNoBackend
<1>2. run'[r] = Idle /\ \A s \in Run \ {r} : run'[s] = run[s]
  BY DEF Finish, Inv, Typed
<1>3. Reported(r)
  BY <1>2, IdleTyped DEF Finish, Audit, Reported, Reportable, Blank
<1> QED
  BY <1>1, <1>2, <1>3, IdleTyped DEF Finish, Ends, Shape, SameFor, Con, Blank

LEMMA StopShape ==
  ASSUME Inv, NEW r \in Run, Running(r), NEW status \in Exits,
         run' = [run EXCEPT ![r] = Exited(status)],
         Audit(r) \/ status \in {Traceback, Killed},
         Ends(Con(r)) \/ Unlink(r) \/ UNCHANGED sessions
  PROVE  Shape(r)
<1>1. Con(r) # None
  BY RunFacts, NoneIsNoBackend
<1>2. run'[r] = Exited(status) /\ \A s \in Run \ {r} : run'[s] = run[s]
  BY DEF Inv, Typed
<1>3. alive' \subseteq alive /\ dying' \subseteq dying
  BY DEF Ends, Unlink, sessions
<1>4. Reported(r)
  BY <1>2, ExitedTyped DEF Audit, Reported, Reportable, Blank
<1> QED
  BY <1>1, <1>2, <1>3, <1>4, ExitedTyped DEF Shape, SameFor, Con, Blank

LEMMA RunStepShape ==
  ASSUME Inv, NEW r \in Run, RunStep(r)
  PROVE  Shape(r)
<1> USE DEF Shape, SameFor, Reported, Reportable
<1>0. run[r] \in RunRecord /\ run \in [Run -> RunRecord]
  BY DEF Inv, Typed
<1>1. CASE TakeLock(r)
  BY <1>0, <1>1 DEF TakeLock, GetLock, RunRecord, server, At
<1>2. CASE Relock(r)
  BY <1>0, <1>2 DEF Relock, GetLock, RunRecord, server, At
<1>3. CASE LockBusy(r)
  BY <1>3, FinishShape DEF LockBusy, Running, At
<1>4. CASE List(r)
  <2>1. CASE Finish(r)
    BY <1>4, <2>1, FinishShape DEF List, Running, At
  <2>2. CASE ~Finish(r)
    <3>1. PICK keys : run' = [run EXCEPT ![r].pc = FirstStep(r), ![r].todo = keys, ![r].keys = keys]
                      /\ UNCHANGED <<sessions, noted>>
      BY <1>4, <2>2 DEF List
    <3>2. FirstStep(r) # "idle"
      BY DEF FirstStep
    <3> QED
      BY <1>0, <1>4, <3>1, <3>2 DEF List, RunRecord, server, sessions, At
  <2> QED
    BY <2>1, <2>2
<1>5. CASE Ingest(r) \/ Record(r)
  <2>1. CASE Finish(r)
    BY <1>5, <2>1, FinishShape DEF Ingest, Record, Running, At
  <2>2. CASE ~Finish(r)
    <3>1. run' = [run EXCEPT ![r].pc = FirstStep(r), ![r].todo = @ \ {Key(r)},
                    ![r].again = FALSE, ![r].held = Ingested[Key(r), @].held]
          /\ UNCHANGED <<sessions, noted, columns>> /\ run[r].pc \in {"ingest", "record"}
      BY <1>5, <2>2 DEF Ingest, Record, NextObject, server, At
    <3>2. FirstStep(r) \notin {"idle", "merge"}
      BY DEF FirstStep
    <3>3. /\ \A s \in Run \ {r} : run'[s] = run[s]
          /\ run'[r].pc = FirstStep(r) /\ run'[r].con = run[r].con /\ run'[r].old = run[r].old
          /\ run'[r].added = run[r].added
      BY <1>0, <3>1 DEF RunRecord
    <3> QED
      BY <3>1, <3>2, <3>3 DEF sessions
  <2> QED
    BY <2>1, <2>2
<1>6. CASE Ensure(r)
  <2>0. run[r].pc = "ensure"
    BY <1>6 DEF Ensure, At
  <2>1. CASE Missing(r) = {}
    BY <1>0, <1>6, <2>0, <2>1 DEF Ensure, RunRecord, sessions
  <2>2. CASE Missing(r) # {}
    BY <1>0, <1>6, <2>0, <2>2 DEF Ensure, RunRecord, sessions
  <2> QED
    BY <2>1, <2>2
<1>7. CASE Merge(r)
  <2>0. run[r].pc = "merge" /\ UNCHANGED <<columns, sessions, noted>>
    BY <1>7 DEF Merge, At
  <2>1. run' = [OthersDisturbed(r) EXCEPT ![r].pc = "record"] /\ OthersDisturbed(r)[r] = run[r]
    BY <1>7 DEF Merge, OthersDisturbed
  <2>2. \A s \in Run \ {r} : SameFor(s)
    <3> SUFFICES ASSUME NEW s \in Run \ {r} PROVE SameFor(s)
      OBVIOUS
    <3>1. run'[s] = run[s] \/ run'[s] = [run[s] EXCEPT !.sole = FALSE]
      BY <2>1 DEF OthersDisturbed
    <3> QED
      BY <1>0, <3>1, SoleTyped
  <2>3. run'[r] = [run[r] EXCEPT !.pc = "record"]
    BY <2>1 DEF OthersDisturbed
  <2> QED
    BY <1>0, <2>0, <2>2, <2>3 DEF RunRecord, sessions
<1>8. CASE Reopen(r)
  <2>1. PICK b \in FreshBackend :
          /\ Opens(b)
          /\ run' = [run EXCEPT ![r].pc = "terminate", ![r].old = Con(r), ![r].con = b]
    BY <1>8 DEF Reopen
  <2>2. b # run[r].con
    BY DEF FreshBackend
  <2> QED
    BY <1>0, <1>8, <2>1, <2>2 DEF Reopen, RunRecord, Opens, server, At, Con
<1>9. CASE Terminate(r)
  BY <1>0, <1>9 DEF Terminate, Signalled, RunRecord, server, At
<1> QED
  BY <1>1, <1>2, <1>3, <1>4, <1>5, <1>6, <1>7, <1>8, <1>9 DEF RunStep

LEMMA FaultStepShape ==
  ASSUME Inv, NEW r \in Run, FaultStep(r)
  PROVE  Shape(r)
<1>1. CASE BreakInCall(r)
  <2>1. run[r] \in RunRecord /\ run \in [Run -> RunRecord]
    BY DEF Inv, Typed
  <2> QED
    BY <1>1, <2>1 DEF BreakInCall, Unlink, RunRecord, server, Shape, SameFor, Reported, Reportable, At, InCall
<1>2. CASE BreakStops(r)
  BY <1>2, StopShape DEF BreakStops, StopPartWay, Linked, Running, At, Exits
<1>3. CASE Refused(r)
  BY <1>3, StopShape DEF Refused, StopPartWay, Raise, Running, At, Exits
<1>4. CASE ReopenFails(r)
  BY <1>4, StopShape DEF ReopenFails, StopPartWay, Running, At, Exits
<1>5. CASE Kill(r)
  BY <1>5, StopShape DEF Kill, Exits
<1> QED
  BY <1>1, <1>2, <1>3, <1>4, <1>5 DEF FaultStep

LEMMA StartShape ==
  ASSUME Inv, NEW r \in Run, NEW m \in Modes[r], Start(r, m)
  PROVE  Shape(r)
<1>1. PICK b \in FreshBackend :
        /\ Opens(b)
        /\ run' = [run EXCEPT ![r] = [Idle EXCEPT !.mode = m, !.con = b,
                     !.pc = IF m = "dry" THEN "list" ELSE "lock"]]
  BY DEF Start
<1>2. run[r] \in RunRecord /\ run[r].con = None /\ run[r].pc = "idle" /\ run \in [Run -> RunRecord]
  BY RunFacts DEF Start, At, RunOK, Inv, Typed
<1>3. run'[r].con = b /\ run'[r].old = None
  BY <1>1, <1>2 DEF Idle
<1>4. \A s \in Run \ {r} : run'[s] = run[s]
  BY <1>1, <1>2
<1>5. Reported(r)
  <2>1. run[r].added = {}
    BY <1>2, RunFacts DEF RunOK
  <2> QED
    BY <1>2, <2>1 DEF Reported, Reportable, At
<1> QED
  BY <1>1, <1>2, <1>3, <1>4, <1>5 DEF Start, Opens, Shape, SameFor

\* A step is one process's, or the server's or the archive's own.
LEMMA NextShape ==
  ASSUME Inv, [Next]_vars
  PROVE  ServerShape \/ \E r \in Run : Shape(r)
<1>1. CASE \E r \in Run : RunStep(r) \/ FaultStep(r)
  BY <1>1, RunStepShape, FaultStepShape
<1>2. CASE \E r \in Run : \E m \in Modes[r] : Start(r, m)
  BY <1>2, StartShape
<1>3. CASE \E b \in Backend : OrphanRuns(b)
  <2> PICK b \in Backend : OrphanRuns(b)
    BY <1>3
  <2>1. \A s \in Run : run[s] \in RunRecord
    BY DEF Inv, Typed
  <2>2. \A s \in Run : run'[s] = run[s] \/ run'[s] = [run[s] EXCEPT !.sole = FALSE]
    BY DEF OrphanRuns
  <2>3. ASSUME NEW s \in Run
        PROVE  SameFor(s)
    <3>1. CASE run'[s] = run[s]
      BY <3>1 DEF SameFor
    <3>2. CASE run'[s] = [run[s] EXCEPT !.sole = FALSE]
      BY <2>1, <3>2 DEF SameFor, RunRecord
    <3> QED
      BY <2>2, <3>1, <3>2
  <2> QED
    BY <2>3 DEF ServerShape, OrphanRuns
<1>4. CASE \E b \in Backend : OrphanEnds(b)
  BY <1>4 DEF ServerShape, SameFor, OrphanEnds, Ends
<1>5. CASE (\E o \in Object : Upload(o)) \/ UNCHANGED vars
  BY <1>5 DEF ServerShape, SameFor, Upload, vars, sessions
<1> QED
  BY <1>1, <1>2, <1>3, <1>4, <1>5 DEF Next

\* The inductive invariant with what signals need: a session remembered as the
\* old one is nobody's.
THEOREM OrphansAreNobodys == Spec => [](Inv /\ OrphansOK)
<1>1. Init => OrphansOK
  BY IdleTyped DEF Init, OrphansOK, Blank
<1>2. Inv /\ Inv' /\ OrphansOK /\ [Next]_vars => OrphansOK'
  BY NextShape, ShapeKeeps, ServerShapeKeeps
<1> QED
  BY <1>1, <1>2, Invariant, PTL DEF Spec

\* "Only it": pg_terminate_backend never signals a session somebody uses, not
\* even one the server gave the lost session's pid to.
THEOREM OnlyOrphansAreSignalled == Spec => []SignalsOnlyOrphans
<1>1. OrphansOK => SignalsOnlyOrphans
  BY DEF OrphansOK, SignalsOnlyOrphans
<1> QED
  BY <1>1, OrphansAreNobodys, PTL

\* "So it writes the same entry": whatever breaks, a column whose ensure()
\* returned stays with its run, through reconnections and later objects, until
\* an audit entry that was attempted names it, also when the run stops part-way
\* or gives way to another; only a traceback or a kill forgets it.
THEOREM ColumnsAreAudited == Spec => SchemaChangesAreAudited
<1>1. ASSUME Inv, [Next]_vars, NEW s \in Run PROVE Reported(s)
  <2>1. SameFor(s) \/ Reported(s)
    BY <1>1, NextShape DEF Shape, ServerShape
  <2> QED
    BY <2>1, SameIsReported
<1>2. Inv /\ [Next]_vars =>
        [\A r \in Run : \/ Reportable(r) \subseteq run'[r].added \cup noted'
                        \/ run'[r].exit \in {Traceback, Killed}]_vars
  BY <1>1 DEF Reported
<1> QED
  BY <1>2, Invariant, PTL DEF Spec, SchemaChangesAreAudited

----------------------------------------------------------------------------
(* A finished run against its replay *)

Untouched == [table |-> EmptyTable, held |-> {}, cells |-> {}]
Replay(S, f, n) ==
  IF n = 0 THEN Untouched ELSE IF n \in S THEN WithObject(n, f[n - 1]) ELSE f[n - 1]

\* The recursion has a solution: the least n up to which it had none would have one.
LEMMA ReplayExists ==
  ASSUME NEW S, NEW m \in Nat
  PROVE  \E f : f = [n \in 0..m |-> Replay(S, f, n)]
<1> DEFINE Solved(k) == \E f : f = [n \in 0..k |-> Replay(S, f, n)]
           bad == {k \in Nat : ~Solved(k)}
<1>1. ASSUME NEW k \in Nat, k # 0 => Solved(k - 1) PROVE Solved(k)
  <2>1. CASE k = 0
    <3> DEFINE f == [n \in 0..0 |-> Untouched]
    <3>1. \A n \in 0..0 : n = 0
      OBVIOUS
    <3>2. f = [n \in 0..0 |-> Replay(S, f, n)]
      BY <3>1 DEF Replay
    <3> QED BY <2>1, <3>2
  <2>2. CASE k # 0
    <3>1. PICK g : g = [n \in 0..(k - 1) |-> Replay(S, g, n)]
      BY <1>1, <2>2
    <3> DEFINE f == [n \in 0..k |-> IF n = k THEN Replay(S, g, k) ELSE g[n]]
    <3>2. \A n \in 0..(k - 1) : f[n] = g[n]
      BY <2>2
    <3>3. ASSUME NEW n \in 0..k PROVE f[n] = Replay(S, f, n)
      <4>1. n # 0 => f[n - 1] = g[n - 1]
        BY <2>2, <3>2
      <4>2. Replay(S, f, n) = Replay(S, g, n)
        BY <4>1 DEF Replay
      <4>3. CASE n = k
        BY <4>2, <4>3
      <4>4. CASE n # k
        <5>1. n \in 0..(k - 1) /\ g[n] = Replay(S, g, n)
          BY <2>2, <3>1, <4>4
        <5> QED BY <3>2, <4>2, <5>1
      <4> QED BY <4>3, <4>4
    <3>4. f = [n \in 0..k |-> Replay(S, f, n)]
      <4> DEFINE h == [n \in 0..k |-> Replay(S, f, n)]
      <4>1. f = [n \in 0..k |-> f[n]]
        OBVIOUS
      <4>2. h = [n \in 0..k |-> f[n]]
        <5> HIDE DEF f
        <5> QED BY <3>3
      <4> QED BY <4>1, <4>2
    <3> HIDE DEF f
    <3> QED BY <3>4
  <2> QED BY <2>1, <2>2
<1> HIDE DEF Solved
<1>2. bad = {}
  <2> SUFFICES ASSUME bad # {} PROVE FALSE
    OBVIOUS
  <2>1. PICK k \in bad : \A j \in bad : k <= j
    BY LeastOf
  <2>2. k # 0 => Solved(k - 1)
    BY <2>1
  <2> QED BY <1>1, <2>1, <2>2
<1>3. Solved(m)
  BY <1>2
<1> QED BY <1>3 DEF Solved

LEMMA AfterIsReplay ==
  ASSUME NEW S, NEW n \in 0..MaxObject
  PROVE  After(S)[n] = IF n = 0 THEN Untouched
                       ELSE IF n \in S THEN WithObject(n, After(S)[n - 1]) ELSE After(S)[n - 1]
<1>1. MaxObject \in Nat
  BY WideTableAssumption
<1> DEFINE F == After(S)
<1>2. F = CHOOSE f : f = [k \in 0..MaxObject |-> Replay(S, f, k)]
  BY DEF After, Replay, Untouched
<1>3. F = [k \in 0..MaxObject |-> Replay(S, F, k)]
  <2>1. \E f : f = [k \in 0..MaxObject |-> Replay(S, f, k)]
    BY <1>1, ReplayExists
  <2> HIDE DEF F
  <2> QED BY <1>2, <2>1
<1> HIDE DEF F
<1>4. F[n] = Replay(S, F, n)
  BY <1>3
<1> QED BY <1>4 DEF Replay, F

\* Where S has no key, nothing is added.
LEMMA AfterSkips ==
  ASSUME NEW S, NEW m \in 0..MaxObject, NEW n \in 0..MaxObject, m <= n,
         \A k \in S : ~(m < k /\ k <= n)
  PROVE  After(S)[n] = After(S)[m]
<1>1. MaxObject \in Nat
  BY WideTableAssumption
<1> DEFINE bad == {k \in 0..MaxObject : m <= k /\ k <= n /\ After(S)[k] # After(S)[m]}
<1>2. bad = {}
  <2> SUFFICES ASSUME bad # {} PROVE FALSE
    OBVIOUS
  <2>1. bad \subseteq Nat
    BY <1>1
  <2>2. PICK k \in bad : \A j \in bad : k <= j
    BY <2>1, LeastOf
  <2>3. m < k /\ k <= n /\ k \in 0..MaxObject /\ k \notin S /\ k # 0 /\ k - 1 \in 0..MaxObject
    BY <1>1, <2>2
  <2>4. After(S)[k] = After(S)[k - 1]
    BY <2>3, AfterIsReplay
  <2>5. k - 1 \in bad
    BY <1>1, <2>2, <2>3, <2>4
  <2> QED BY <1>1, <2>2, <2>3, <2>5
<1> QED BY <1>1, <1>2

\* A run's keys below the one it is at, read once each, and that one too.
Before(r) == After(run[r].keys)[Key(r) - 1]
AfterKey(r) == After(run[r].keys)[Key(r)]

Agrees(t, was, out) == \A c \in was.cells \ out : t[c] = was.table[c]

Writing == {"ensure", "merge", "record", "reopen", "terminate", "relock"}
Reconnecting == {"reopen", "terminate", "relock"}

\* Until its object is merged for good, the cells the object assigns may hold
\* anything of it; the others hold what the keys before it left there.
Progress(r) ==
  /\ run[r].todo = {k \in run[r].keys : Key(r) <= k}
  /\ run[r].held = Before(r).held
  /\ run[r].sole => Agrees(table, Before(r), Region(RunRows(r)))

ReplayOK(r) ==
  /\ run[r].pc \in {"lock", "list"} => run[r].held = {}
  /\ run[r].pc \notin {"terminate", "relock"} => run[r].old = None
  /\ run[r].pc \in Writing => Progress(r)
  /\ run[r].pc = "record" /\ run[r].sole => Agrees(table, AfterKey(r), {})
  /\ run[r].pc \in Reconnecting =>
       \A b \in Backend : pending[b].kind = "merge" /\ OwnerOf(b, r) =>
         pending[b].key = Key(r) /\ pending[b].held = run[r].held

\* What the decoder holds when it is through object o.
Handed(o, h) == Ingested[o, h].held

LEMMA WithObjectIs ==
  ASSUME NEW k, NEW was
  PROVE  /\ WithObject(k, was).table = Merged(was.table, Rows(k, was.held))
         /\ WithObject(k, was).held = Handed(k, was.held)
         /\ WithObject(k, was).cells = was.cells \cup Region(Rows(k, was.held))
BY Zenon DEF WithObject, Handed

LEMMA HandedTyped ==
  ASSUME NEW k \in Object, NEW h \in SUBSET Message
  PROVE  Handed(k, h) \in SUBSET Message
BY RowsTyped, Zenon DEF Handed

LEMMA AfterTyped ==
  ASSUME NEW S, S \subseteq Object, NEW n \in 0..MaxObject
  PROVE  After(S)[n].held \in SUBSET Message /\ After(S)[n].cells \in SUBSET Cell
<1>1. MaxObject \in Nat
  BY WideTableAssumption
<1> DEFINE Good(k) == After(S)[k].held \in SUBSET Message /\ After(S)[k].cells \in SUBSET Cell
           bad == {k \in 0..MaxObject : ~Good(k)}
<1>2. ASSUME NEW k \in 0..MaxObject, k # 0 => Good(k - 1) PROVE Good(k)
  <2>1. CASE k = 0
    <3>1. After(S)[k] = Untouched
      BY <2>1, AfterIsReplay
    <3> QED BY <3>1 DEF Untouched
  <2>2. CASE k # 0 /\ k \notin S
    <3>1. After(S)[k] = After(S)[k - 1]
      BY <2>2, AfterIsReplay
    <3> QED BY <1>2, <2>2, <3>1
  <2>3. CASE k # 0 /\ k \in S
    <3> DEFINE was == After(S)[k - 1]
    <3>1. After(S)[k] = WithObject(k, was)
      BY <2>3, AfterIsReplay
    <3>2. was.held \in SUBSET Message /\ was.cells \in SUBSET Cell /\ k \in Object
      BY <1>2, <2>3
    <3> HIDE DEF was
    <3>3. Handed(k, was.held) \in SUBSET Message /\ Region(Rows(k, was.held)) \subseteq Cell
      BY <3>2, RowsTyped, HandedTyped
    <3>4. After(S)[k].held = Handed(k, was.held)
          /\ After(S)[k].cells = was.cells \cup Region(Rows(k, was.held))
      BY <3>1, WithObjectIs
    <3> QED BY <3>2, <3>3, <3>4
  <2> QED BY <2>1, <2>2, <2>3
<1> HIDE DEF Good
<1>3. bad = {}
  <2> SUFFICES ASSUME bad # {} PROVE FALSE
    OBVIOUS
  <2>1. bad \subseteq Nat
    BY <1>1
  <2>2. PICK k \in bad : \A j \in bad : k <= j
    BY <2>1, LeastOf
  <2>3. k # 0 => Good(k - 1)
    BY <1>1, <2>2
  <2> QED BY <1>2, <2>2, <2>3
<1> QED BY <1>3 DEF Good

\* Somebody else's step: the table is left alone, or this run is told.
LEMMA Undisturbed ==
  ASSUME NEW s \in Run, ReplayOK(s),
         /\ run'[s].pc = run[s].pc /\ run'[s].con = run[s].con /\ run'[s].old = run[s].old
         /\ run'[s].todo = run[s].todo /\ run'[s].keys = run[s].keys /\ run'[s].held = run[s].held,
         run'[s].sole => run[s].sole /\ table' = table,
         \A b \in Backend : OwnerOf(b, s) => pending'[b] = pending[b] \/ pending'[b].kind # "merge"
  PROVE  ReplayOK(s)'
<1>1. /\ Key(s)' = Key(s) /\ RunRows(s)' = RunRows(s)
      /\ Before(s)' = Before(s) /\ AfterKey(s)' = AfterKey(s)
      /\ \A b : OwnerOf(b, s)' <=> OwnerOf(b, s)
  BY DEF Key, RunRows, Before, AfterKey, OwnerOf, Running, At
<1>2. run'[s].sole => Agrees(table, Before(s), Region(RunRows(s)))' = Agrees(table, Before(s), Region(RunRows(s)))
                      /\ Agrees(table, AfterKey(s), {})' = Agrees(table, AfterKey(s), {})
  BY <1>1 DEF Agrees
<1>3. run[s].pc \in Writing => Progress(s)'
  BY <1>1, <1>2 DEF ReplayOK, Progress
<1> QED
  BY <1>1, <1>2, <1>3 DEF ReplayOK

LEMMA NextKeyIsLeast ==
  ASSUME NEW S, S \subseteq Object, S # {}
  PROVE  /\ NextKey(S) \in S /\ \A k \in S : NextKey(S) <= k
         /\ NextKey(S) \in 0..MaxObject /\ NextKey(S) - 1 \in 0..MaxObject /\ NextKey(S) # 0
<1>1. MaxObject \in Nat
  BY WideTableAssumption
<1>2. S \subseteq Nat
  BY <1>1 DEF Object
<1>3. NextKey(S) \in S /\ \A k \in S : NextKey(S) <= k
  BY <1>2, MinIsLeast DEF NextKey
<1>4. NextKey(S) \in Object
  BY <1>3
<1>5. \A k \in Object : k \in 0..MaxObject /\ k - 1 \in 0..MaxObject /\ k # 0
  BY <1>1 DEF Object
<1> QED
  BY <1>3, <1>4, <1>5

LEMMA AtObject ==
  ASSUME Inv, NEW r \in Run, run[r].todo # {}
  PROVE  /\ run[r].keys \subseteq Object /\ Key(r) \in run[r].todo /\ Key(r) \in run[r].keys
         /\ Key(r) \in Object /\ Key(r) \in 0..MaxObject /\ Key(r) - 1 \in 0..MaxObject /\ Key(r) # 0
         /\ \A k \in run[r].todo : Key(r) <= k
<1>1. run[r].keys \subseteq Object /\ run[r].todo \subseteq run[r].keys
  BY RunFacts DEF RunRecord, RunOK
<1> QED
  BY <1>1, NextKeyIsLeast DEF Key

LEMMA ObjectAdds ==
  ASSUME Inv, NEW r \in Run, run[r].todo # {}, run[r].held = Before(r).held
  PROVE  /\ AfterKey(r).table = Merged(Before(r).table, RunRows(r))
         /\ AfterKey(r).held = Handed(Key(r), run[r].held)
         /\ AfterKey(r).cells = Before(r).cells \cup Region(RunRows(r))
         /\ AfterKey(r).cells \subseteq Cell
<1>1. AfterKey(r) = WithObject(Key(r), Before(r))
  BY AtObject, AfterIsReplay DEF AfterKey, Before
<1>2. AfterKey(r).cells \subseteq Cell
  BY AtObject, AfterTyped DEF AfterKey
<1> QED
  BY <1>1, <1>2, WithObjectIs DEF RunRows

\* The object's rows go in: what they assign is theirs, the rest stays.
LEMMA MergeAgrees ==
  ASSUME Inv, NEW r \in Run, run[r].todo # {}, run[r].held = Before(r).held,
         Agrees(table, Before(r), Region(RunRows(r))), table' = Merged(table, RunRows(r))
  PROVE  Agrees(table', Before(r), Region(RunRows(r))) /\ Agrees(table', AfterKey(r), {})
<1> DEFINE was == Before(r)
           is == AfterKey(r)
           rows == RunRows(r)
<1>1. is.table = Merged(was.table, rows) /\ is.cells = was.cells \cup Region(rows) /\ is.cells \subseteq Cell
  BY ObjectAdds
<1>2. \A c \in was.cells \ Region(rows) : table[c] = was.table[c]
  BY DEF Agrees
<1> HIDE DEF was, is, rows
<1>3. \A c \in Cell : /\ table'[c] = IF c \in Region(rows) THEN Written(rows, c) ELSE table[c]
                      /\ is.table[c] = IF c \in Region(rows) THEN Written(rows, c) ELSE was.table[c]
  BY <1>1 DEF Merged, rows
<1>4. Agrees(table', was, Region(rows)) /\ Agrees(table', is, {})
  BY <1>1, <1>2, <1>3 DEF Agrees
<1> QED
  BY <1>4 DEF was, is, rows

\* A step of its own that only moves the run along within its object.
LEMMA SameObject ==
  ASSUME NEW r \in Run, run[r].pc \in Writing, ReplayOK(r),
         run'[r].todo = run[r].todo /\ run'[r].keys = run[r].keys /\ run'[r].held = run[r].held,
         run'[r].sole = run[r].sole, table' = table
  PROVE  Progress(r)' /\ Key(r)' = Key(r)
<1>1. /\ Key(r)' = Key(r) /\ RunRows(r)' = RunRows(r) /\ Before(r)' = Before(r)
  BY DEF Key, RunRows, Before
<1> QED
  BY <1>1 DEF ReplayOK, Progress, Agrees

LEMMA GetLockReplay ==
  ASSUME Inv, NEW r \in Run, ReplayOK(r), TakeLock(r) \/ Relock(r)
  PROVE  ReplayOK(r)'
<1>1. run[r] \in RunRecord /\ run \in [Run -> RunRecord]
  BY DEF Inv, Typed
<1>2. CASE TakeLock(r)
  <2>1. run'[r].pc = "list" /\ run'[r].old = None /\ run'[r].held = run[r].held /\ run[r].pc = "lock"
    BY <1>1, <1>2 DEF TakeLock, GetLock, At, RunRecord
  <2> QED
    BY <2>1 DEF ReplayOK, Writing, Reconnecting
<1>3. CASE Relock(r)
  <2>1. run'[r].pc = "ensure" /\ run'[r].old = None /\ run[r].pc = "relock" /\ table' = table
        /\ run'[r].todo = run[r].todo /\ run'[r].keys = run[r].keys /\ run'[r].held = run[r].held
        /\ run'[r].sole = run[r].sole
    BY <1>1, <1>3 DEF Relock, GetLock, At, RunRecord, server
  <2>2. Progress(r)'
    BY <2>1, SameObject DEF Writing
  <2> QED
    BY <2>1, <2>2 DEF ReplayOK, Reconnecting
<1> QED
  BY <1>2, <1>3

LEMMA IdleReplay ==
  ASSUME NEW r \in Run, Blank(run'[r])
  PROVE  ReplayOK(r)'
BY DEF Blank, ReplayOK, Writing, Reconnecting

LEMMA EnsureReplay ==
  ASSUME Inv, NEW r \in Run, ReplayOK(r), Ensure(r)
  PROVE  ReplayOK(r)'
<1>1. run[r] \in RunRecord /\ run \in [Run -> RunRecord]
  BY DEF Inv, Typed
<1>2. run'[r].pc \in {"ensure", "merge"} /\ run'[r].old = run[r].old /\ run[r].pc = "ensure" /\ table' = table
      /\ run'[r].todo = run[r].todo /\ run'[r].keys = run[r].keys /\ run'[r].held = run[r].held
      /\ run'[r].sole = run[r].sole
  <2>1. CASE Missing(r) = {}
    BY <1>1, <2>1 DEF Ensure, At, RunRecord
  <2>2. CASE Missing(r) # {}
    BY <1>1, <2>2 DEF Ensure, At, RunRecord
  <2> QED BY <2>1, <2>2
<1>3. Progress(r)'
  BY <1>2, SameObject DEF Writing
<1> QED
  BY <1>2, <1>3 DEF ReplayOK, Reconnecting

LEMMA MergeReplay ==
  ASSUME Inv, NEW r \in Run, ReplayOK(r), Merge(r)
  PROVE  ReplayOK(r)'
<1>1. run[r] \in RunRecord /\ RunOK(r) /\ run[r].todo # {}
  BY RunFacts DEF Merge, At, RunOK, Working
<1>2. run'[r] = [run[r] EXCEPT !.pc = "record"] /\ run[r].pc = "merge"
  BY DEF Merge, OthersDisturbed, At
<1>3. run'[r].pc = "record" /\ run'[r].old = run[r].old /\ run'[r].todo = run[r].todo
      /\ run'[r].keys = run[r].keys /\ run'[r].held = run[r].held /\ run'[r].sole = run[r].sole
  BY <1>1, <1>2 DEF RunRecord
<1>4. Progress(r)
  BY <1>2 DEF ReplayOK, Writing
<1>5. /\ Key(r)' = Key(r) /\ RunRows(r)' = RunRows(r)
      /\ Before(r)' = Before(r) /\ AfterKey(r)' = AfterKey(r)
  BY <1>3 DEF Key, RunRows, Before, AfterKey
<1>6. run[r].sole => Agrees(table', Before(r), Region(RunRows(r))) /\ Agrees(table', AfterKey(r), {})
  BY <1>1, <1>4, MergeAgrees DEF Progress, Merge, MergeBy, RunRows
<1>7. Progress(r)'
  BY <1>3, <1>4, <1>5, <1>6 DEF Progress
<1>8. run'[r].sole => Agrees(table', AfterKey(r)', {})
  BY <1>3, <1>5, <1>6
<1> QED
  BY <1>2, <1>3, <1>7, <1>8 DEF ReplayOK, Reconnecting

LEMMA FinishReplay ==
  ASSUME Inv, NEW r \in Run, Finish(r)
  PROVE  ReplayOK(r)'
<1>1. Blank(run'[r])
  BY IdleTyped DEF Finish, Inv, Typed
<1> QED
  BY <1>1, IdleReplay

\* Nothing is written before the first key, and nothing the run knows of.
LEMMA ListReplay ==
  ASSUME Inv, Inv', NEW r \in Run, ReplayOK(r), List(r)
  PROVE  ReplayOK(r)'
<1>1. run[r] \in RunRecord /\ run \in [Run -> RunRecord] /\ run[r].pc = "list"
  BY DEF Inv, Typed, List, At
<1>2. CASE Finish(r)
  BY <1>2, FinishReplay
<1>3. CASE ~Finish(r)
  <2>1. PICK keys : keys # {} /\ run' = [run EXCEPT ![r].pc = FirstStep(r), ![r].todo = keys, ![r].keys = keys]
    BY <1>3 DEF List
  <2>2. run'[r].pc = FirstStep(r) /\ run'[r].todo = keys /\ run'[r].keys = keys /\ run'[r].held = {}
        /\ run'[r].old = None
    BY <1>1, <2>1 DEF RunRecord, ReplayOK
  <2>3. /\ keys \subseteq Object /\ Key(r)' \in 0..MaxObject /\ Key(r)' - 1 \in 0..MaxObject
        /\ \A k \in keys : Key(r)' <= k
    <3>1. keys \subseteq Object
      BY <2>2 DEF Inv, Typed, RunRecord
    <3>2. Key(r)' = NextKey(keys)
      BY <2>2 DEF Key
    <3>3. keys # {}
      BY <2>1
    <3> QED BY <3>1, <3>2, <3>3, NextKeyIsLeast
  <2>4. Before(r)' = Untouched
    <3>0. MaxObject \in Nat
      BY WideTableAssumption
    <3>1. 0 \in 0..MaxObject
      BY <3>0
    <3>2. \A k \in keys : ~(0 < k /\ k <= Key(r)' - 1)
      BY <2>3, <3>0 DEF Object
    <3>3. After(keys)[Key(r)' - 1] = After(keys)[0]
      BY <2>2, <2>3, <3>0, <3>1, <3>2, AfterSkips
    <3>4. After(keys)[0] = Untouched
      BY <3>1, AfterIsReplay
    <3> QED BY <2>2, <3>3, <3>4 DEF Before
  <2>5. Progress(r)'
    <3>1. Before(r)'.held = {} /\ Before(r)'.cells = {}
      BY <2>4 DEF Untouched
    <3>2. Agrees(table, Before(r), Region(RunRows(r)))'
      BY <3>1 DEF Agrees
    <3> QED
      BY <2>2, <2>3, <3>1, <3>2 DEF Progress
  <2>6. FirstStep(r) \in {"ingest", "ensure"}
    BY DEF FirstStep
  <2> QED
    BY <2>2, <2>5, <2>6 DEF ReplayOK, Reconnecting
<1> QED
  BY <1>2, <1>3

\* The next key is read on top of what this one left: there is none between.
LEMMA NextObjectReplay ==
  ASSUME Inv, Inv', NEW r \in Run, ReplayOK(r), Ingest(r) \/ Record(r)
  PROVE  ReplayOK(r)'
<1>1. run[r] \in RunRecord /\ run \in [Run -> RunRecord] /\ run[r].todo # {}
  BY RunFacts DEF Inv, Typed, Ingest, Record, At, RunOK, Working
<1>2. NextObject(r) /\ UNCHANGED table
  BY DEF Ingest, Record, server
<1>3. CASE Finish(r)
  BY <1>3, FinishReplay
<1>4. CASE ~Finish(r)
  <2> DEFINE k == Key(r)
             rest == run[r].todo \ {k}
  <2>1. /\ rest # {}
        /\ run' = [run EXCEPT ![r].pc = FirstStep(r), ![r].todo = @ \ {Key(r)},
                      ![r].again = FALSE, ![r].held = Ingested[Key(r), @].held]
    BY <1>1, <1>2, <1>4, AtObject DEF NextObject
  <2>2. run'[r].held = Handed(k, run[r].held)
    BY <1>1, <2>1, Zenon DEF Handed, RunRecord
  <2>3. run'[r].pc = FirstStep(r) /\ run'[r].todo = rest /\ run'[r].keys = run[r].keys
        /\ run'[r].old = run[r].old /\ run'[r].sole = run[r].sole
    BY <1>1, <2>1 DEF RunRecord
  <2>4. FirstStep(r) \in {"ingest", "ensure"} /\ run[r].pc \in {"ingest", "record"}
        /\ (FirstStep(r) = "ensure" => run[r].pc = "record")
    BY RunFacts DEF FirstStep, Ingest, Record, At, Dry, RunOK, UnderLock, InCall, Working
  <2>5. CASE FirstStep(r) = "ingest"
    BY <2>3, <2>4, <2>5 DEF ReplayOK, Writing, Reconnecting
  <2>6. CASE run[r].pc = "record"
    <3>1. Progress(r) /\ (run[r].sole => Agrees(table, AfterKey(r), {}))
      BY <2>6 DEF ReplayOK, Writing
    <3>2. /\ Key(r)' = NextKey(rest) /\ NextKey(rest) \in rest /\ \A j \in rest : NextKey(rest) <= j
          /\ NextKey(rest) - 1 \in 0..MaxObject
      BY <1>1, <2>1, <2>3, NextKeyIsLeast DEF Key, RunRecord
    <3> DEFINE n == NextKey(rest)
    <3>3. k \in 0..MaxObject /\ MaxObject \in Nat /\ run[r].keys \subseteq Object /\ rest \subseteq run[r].todo
      BY <1>1, AtObject, WideTableAssumption
    <3>4. run[r].todo = {j \in run[r].keys : k <= j}
      BY <3>1 DEF Progress
    <3>5. Object \subseteq Nat
      BY <3>3 DEF Object
    <3>6. /\ rest = {j \in run[r].keys : n <= j} /\ k <= n - 1
          /\ \A j \in run[r].keys : ~(k < j /\ j <= n - 1)
      <4>1. run[r].keys \subseteq Nat /\ k \in run[r].keys
        BY <1>1, <3>3, <3>5, AtObject
      <4>2. n \in rest /\ (\A j \in rest : n <= j) /\ rest = {j \in run[r].keys : k <= j} \ {k}
        BY <3>2, <3>4
      <4> HIDE DEF k, rest, n
      <4> DEFINE all == run[r].keys
      <4>3. all \subseteq Nat /\ k \in all /\ n \in rest /\ (\A j \in rest : n <= j)
            /\ rest = {j \in all : k <= j} \ {k}
        BY <4>1, <4>2
      <4> HIDE DEF all
      <4>4. /\ rest = {j \in all : n <= j} /\ k <= n - 1
            /\ \A j \in all : ~(k < j /\ j <= n - 1)
        <5>1. k \in Nat /\ n \in Nat /\ n \in all /\ k < n /\ rest \subseteq all
          BY <4>3
        <5>2. \A j \in all : (j \in rest <=> n <= j) /\ ~(k < j /\ j <= n - 1)
          BY <4>3, <5>1
        <5>3. rest = {j \in all : n <= j}
          BY <5>1, <5>2
        <5> QED
          BY <5>1, <5>2, <5>3
      <4> QED BY <4>4 DEF all
    <3>7. Before(r)' = AfterKey(r)
      <4>2. After(run[r].keys)[n - 1] = After(run[r].keys)[k]
        BY <3>2, <3>3, <3>6, AfterSkips
      <4> QED BY <2>3, <3>2, <4>2 DEF Before, AfterKey
    <3>8. run'[r].held = Before(r)'.held
      BY <1>1, <2>2, <3>1, <3>7, ObjectAdds DEF Progress
    <3>9. run'[r].sole => Agrees(table, Before(r), Region(RunRows(r)))'
      <4>1. run'[r].sole => Agrees(table', AfterKey(r), {})
        BY <1>2, <2>3, <3>1
      <4> QED BY <3>7, <4>1 DEF Agrees
    <3>10. Progress(r)'
      BY <2>3, <3>2, <3>6, <3>8, <3>9 DEF Progress
    <3> QED
      BY <2>3, <2>4, <2>6, <3>10 DEF ReplayOK, Reconnecting
  <2> QED
    BY <2>4, <2>5, <2>6
<1> QED
  BY <1>3, <1>4

LEMMA LinkReplay ==
  ASSUME Inv, NEW r \in Run, ReplayOK(r), Reopen(r) \/ Terminate(r)
  PROVE  ReplayOK(r)'
<1>1. run[r] \in RunRecord /\ run \in [Run -> RunRecord]
  BY DEF Inv, Typed
<1>2. CASE Reopen(r)
  <2>1. PICK b \in FreshBackend :
          run' = [run EXCEPT ![r].pc = "terminate", ![r].old = Con(r), ![r].con = b]
    BY <1>2 DEF Reopen
  <2>2. run'[r].pc = "terminate" /\ run[r].pc = "reopen" /\ table' = table /\ pending' = pending
        /\ run'[r].old = run[r].con /\ run'[r].con = b
        /\ run'[r].todo = run[r].todo /\ run'[r].keys = run[r].keys /\ run'[r].held = run[r].held
        /\ run'[r].sole = run[r].sole
    BY <1>1, <1>2, <2>1 DEF Reopen, RunRecord, At, Con, server
  <2>3. Progress(r)' /\ Key(r)' = Key(r)
    BY <2>2, SameObject DEF Writing
  <2>4. pending[b].kind # "merge"
    BY NoneIsNoBackend DEF FreshBackend, Inv, Typed, PendingOK, InCall
  <2>5. ASSUME NEW a \in Backend, pending'[a].kind = "merge", OwnerOf(a, r)'
        PROVE  pending'[a].key = Key(r)' /\ pending'[a].held = run'[r].held
    <3>1. a = run[r].con
      BY <2>2, <2>4, <2>5 DEF OwnerOf
    <3>2. OwnerOf(a, r)
      BY <2>2, <3>1 DEF OwnerOf, Running, At
    <3> QED BY <2>2, <2>3, <2>5, <3>2 DEF ReplayOK, Reconnecting
  <2> QED
    BY <2>2, <2>3, <2>5 DEF ReplayOK
<1>3. CASE Terminate(r)
  <2>1. run'[r].pc = "relock" /\ run[r].pc = "terminate" /\ table' = table /\ pending' = pending
        /\ run'[r].old = run[r].old /\ run'[r].con = run[r].con
        /\ run'[r].todo = run[r].todo /\ run'[r].keys = run[r].keys /\ run'[r].held = run[r].held
        /\ run'[r].sole = run[r].sole
    BY <1>1, <1>3 DEF Terminate, RunRecord, At, server
  <2>2. Progress(r)' /\ Key(r)' = Key(r)
    BY <2>1, SameObject DEF Writing
  <2>3. \A a \in Backend : OwnerOf(a, r)' => OwnerOf(a, r)
    BY <2>1 DEF OwnerOf, Running, At
  <2> QED
    BY <2>1, <2>2, <2>3 DEF ReplayOK, Reconnecting
<1> QED
  BY <1>2, <1>3

\* What a broken call left behind is the statement it was at.
LEMMA BreakReplay ==
  ASSUME Inv, NEW r \in Run, ReplayOK(r), BreakInCall(r)
  PROVE  ReplayOK(r)'
<1>1. run[r] \in RunRecord /\ run \in [Run -> RunRecord]
  BY DEF Inv, Typed
<1>2. run'[r].pc = "reopen" /\ run[r].pc \in InCall /\ table' = table
      /\ run'[r].old = run[r].old /\ run'[r].con = run[r].con
      /\ run'[r].todo = run[r].todo /\ run'[r].keys = run[r].keys /\ run'[r].held = run[r].held
      /\ run'[r].sole = run[r].sole
  BY <1>1 DEF BreakInCall, RunRecord, server
<1>3. Progress(r)' /\ Key(r)' = Key(r)
  BY <1>2, SameObject DEF Writing, InCall
<1>4. run[r].old = None
  BY <1>2 DEF ReplayOK, InCall
<1>5. pending'[Con(r)] = Sent(r) /\ Con(r) \in Backend
  BY <1>2, RunFacts DEF BreakInCall, Unlink, Inv, Typed, Running, At, InCall
<1>6. Sent(r).kind = "merge" => Sent(r).key = Key(r) /\ Sent(r).held = run[r].held
  <2>1. CASE At(r, "ensure") /\ Missing(r) # {}
    BY <2>1 DEF Sent, Nothing
  <2>2. CASE run[r].pc \in {"merge", "record"}
    BY <2>2 DEF Sent, Nothing, At
  <2>3. CASE run[r].pc \in {"lock", "relock"}
    BY <1>2, <2>3 DEF InCall
  <2>4. CASE Sent(r) = Nothing
    BY <2>4 DEF Nothing
  <2> QED BY <2>1, <2>2, <2>3, <2>4 DEF Sent
<1>7. ASSUME NEW b \in Backend, pending'[b].kind = "merge", OwnerOf(b, r)'
      PROVE  pending'[b].key = Key(r)' /\ pending'[b].held = run'[r].held
  <2>1. b = Con(r)
    BY <1>2, <1>4, <1>7, NoneIsNoBackend DEF OwnerOf, Con
  <2> QED BY <1>2, <1>3, <1>5, <1>6, <1>7, <2>1
<1> QED
  BY <1>2, <1>3, <1>4, <1>7 DEF ReplayOK

LEMMA StartReplay ==
  ASSUME Inv, NEW r \in Run, NEW m \in Modes[r], Start(r, m)
  PROVE  ReplayOK(r)'
<1>1. PICK b \in FreshBackend :
        run' = [run EXCEPT ![r] = [Idle EXCEPT !.mode = m, !.con = b,
                                     !.pc = IF m = "dry" THEN "list" ELSE "lock"]]
  BY DEF Start
<1>2. run'[r].pc \in {"list", "lock"} /\ run'[r].old = None /\ run'[r].held = {}
  BY <1>1 DEF Inv, Typed, Idle
<1> QED
  BY <1>2 DEF ReplayOK, Writing, Reconnecting

\* A run's own step.
LEMMA OwnReplay ==
  ASSUME Inv, Inv', NEW r \in Run, ReplayOK(r),
         RunStep(r) \/ FaultStep(r) \/ \E m \in Modes[r] : Start(r, m)
  PROVE  ReplayOK(r)'
<1>1. CASE RunStep(r)
  BY <1>1, GetLockReplay, FinishReplay, ListReplay, NextObjectReplay, EnsureReplay, MergeReplay,
     LinkReplay DEF RunStep, LockBusy
<1>2. CASE FaultStep(r)
  <2>1. CASE BreakInCall(r)
    BY <2>1, BreakReplay
  <2>2. CASE BreakStops(r) \/ Refused(r) \/ ReopenFails(r) \/ Kill(r)
    <3>1. Blank(run'[r])
      BY <2>2, ExitedTyped DEF BreakStops, Refused, ReopenFails, Kill, StopPartWay, Raise, Exits, Inv, Typed
    <3> QED BY <3>1, IdleReplay
  <2> QED BY <1>2, <2>1, <2>2 DEF FaultStep
<1>3. CASE \E m \in Modes[r] : Start(r, m)
  BY <1>3, StartReplay
<1> QED
  BY <1>1, <1>2, <1>3

\* The statement a session was left with is its owner's: no other run's step
\* puts another in its place.
LEMMA OthersPending ==
  ASSUME Inv, OrphansOK, NEW r \in Run, NEW s \in Run \ {r}, NEW b \in Backend, OwnerOf(b, s),
         RunStep(r) \/ FaultStep(r) \/ \E m \in Modes[r] : Start(r, m)
  PROVE  pending'[b] = pending[b] \/ pending'[b].kind # "merge"
<1>1. pending \in [Backend -> Statement] /\ Nothing.kind = "none"
  BY DEF Inv, Typed, Nothing
<1>2. ASSUME NEW a, pending' = [pending EXCEPT ![a] = Nothing]
      PROVE  pending'[b] = pending[b] \/ pending'[b].kind # "merge"
  BY <1>1, <1>2
<1>3. ASSUME Running(r), ~At(r, "reopen"), Unlink(r)
      PROVE  pending'[b] = pending[b]
  <2>1. Con(r) \in alive /\ \A u \in Run \ {r} : run[u].con # Con(r)
    BY <1>3, RunFacts DEF RunOK, Running, At, Con
  <2>2. run[s].old # Con(r)
    BY <1>3, <2>1 DEF OrphansOK, Orphan
  <2>3. b # Con(r)
    BY <2>1, <2>2 DEF OwnerOf
  <2> QED BY <1>1, <1>3, <2>3 DEF Unlink
<1>4. CASE RunStep(r)
  <2>1. CASE UNCHANGED pending
    BY <2>1
  <2>2. CASE Finish(r)
    BY <1>2, <2>2 DEF Finish, Ends, sessions
  <2> QED
    BY <1>4, <2>1, <2>2 DEF RunStep, TakeLock, Relock, GetLock, LockBusy, List, Ingest, Ensure, Merge,
       Record, NextObject, Reopen, Terminate, sessions
<1>5. CASE FaultStep(r)
  <2>1. CASE BreakInCall(r)
    BY <1>3, <2>1 DEF BreakInCall, Running, At, InCall
  <2>2. CASE BreakStops(r)
    BY <1>3, <2>2 DEF BreakStops, Running, At, Linked
  <2>3. CASE Refused(r)
    BY <1>2, <2>3 DEF Refused, Ends
  <2>4. CASE ReopenFails(r)
    BY <2>4 DEF ReopenFails, sessions
  <2>5. CASE Kill(r)
    BY <1>3, <2>5 DEF Kill, sessions
  <2> QED
    BY <1>5, <2>1, <2>2, <2>3, <2>4, <2>5 DEF FaultStep
<1>6. CASE \E m \in Modes[r] : Start(r, m)
  BY <1>6 DEF Start
<1> QED
  BY <1>4, <1>5, <1>6

LEMMA OthersReplay ==
  ASSUME Inv, OrphansOK, NEW r \in Run, NEW s \in Run \ {r}, ReplayOK(s),
         RunStep(r) \/ FaultStep(r) \/ \E m \in Modes[r] : Start(r, m)
  PROVE  ReplayOK(s)'
<1>1. run[s] \in RunRecord /\ run \in [Run -> RunRecord]
  BY DEF Inv, Typed
<1>2. CASE run'[s] = run[s] /\ table' = table
  BY <1>2, OthersPending, Undisturbed
<1>3. CASE Merge(r)
  <2>1. run'[s] = IF Running(s) THEN [run[s] EXCEPT !.sole = FALSE] ELSE run[s]
    BY <1>3 DEF Merge, OthersDisturbed
  <2>2. CASE Running(s)
    <3>1. run'[s] = [run[s] EXCEPT !.sole = FALSE]
      BY <2>1, <2>2
    <3>2. ~run'[s].sole
      BY <1>1, <3>1 DEF RunRecord
    <3> QED BY <1>1, <3>1, <3>2, SoleTyped, OthersPending, Undisturbed
  <2>3. CASE ~Running(s)
    BY <2>1, <2>3 DEF ReplayOK, Running, At, Writing, Reconnecting
  <2> QED BY <2>2, <2>3
<1>4. CASE RunStep(r) /\ ~Merge(r)
  <2>1. CASE Finish(r) /\ UNCHANGED table
    BY <1>1, <1>2, <2>1 DEF Finish
  <2>2. CASE List(r) \/ Ingest(r) \/ Record(r)
    BY <1>1, <1>2, <2>1, <2>2 DEF List, Ingest, Record, NextObject, server
  <2>3. CASE TakeLock(r) \/ Relock(r) \/ LockBusy(r) \/ Ensure(r) \/ Reopen(r) \/ Terminate(r)
    BY <1>1, <1>2, <2>1, <2>3 DEF TakeLock, Relock, GetLock, LockBusy, Ensure, Reopen, Terminate, server
  <2> QED BY <1>4, <2>2, <2>3 DEF RunStep
<1>5. CASE FaultStep(r)
  BY <1>1, <1>2, <1>5 DEF FaultStep, BreakInCall, BreakStops, Refused, ReopenFails, Kill, StopPartWay, Raise, server
<1>6. CASE \E m \in Modes[r] : Start(r, m)
  BY <1>1, <1>2, <1>6 DEF Start, server
<1> QED
  BY <1>3, <1>4, <1>5, <1>6

\* A late statement of its own lost session does what the run will do again.
LEMMA OrphanReplay ==
  ASSUME Inv, NEW b \in Backend, OrphanRuns(b), NEW s \in Run, ReplayOK(s)
  PROVE  ReplayOK(s)'
<1>1. run[s] \in RunRecord /\ pending \in [Backend -> Statement] /\ Nothing.kind = "none"
  BY DEF Inv, Typed, Nothing
<1>2. /\ pending' = [pending EXCEPT ![b] = Nothing]
      /\ \A a \in Backend : pending'[a] = pending[a] \/ pending'[a].kind # "merge"
  BY <1>1 DEF OrphanRuns
<1>3. CASE pending[b].kind # "merge"
  <2>1. run'[s] = run[s] /\ table' = table
    BY <1>3 DEF OrphanRuns, server
  <2> QED BY <1>2, <2>1, Undisturbed
<1>4. CASE pending[b].kind = "merge"
  <2>1. /\ run'[s] = IF Running(s) /\ ~OwnerOf(b, s) THEN [run[s] EXCEPT !.sole = FALSE] ELSE run[s]
        /\ MergeBy(pending[b].key, pending[b].held) /\ Orphan(b)
    BY <1>4 DEF OrphanRuns
  <2>2. CASE ~Running(s)
    BY <2>1, <2>2 DEF ReplayOK, Running, At, Writing, Reconnecting
  <2>3. CASE Running(s) /\ ~OwnerOf(b, s)
    <3>1. run'[s] = [run[s] EXCEPT !.sole = FALSE]
      BY <2>1, <2>3
    <3>2. ~run'[s].sole
      BY <1>1, <3>1 DEF RunRecord
    <3> QED BY <1>1, <1>2, <3>1, <3>2, SoleTyped, Undisturbed
  <2>4. CASE OwnerOf(b, s)
    <3>1. run'[s] = run[s]
      BY <2>1, <2>4
    <3>2. run[s].pc \in Reconnecting
      BY <2>1, <2>4, NoneIsNoBackend DEF OwnerOf, Orphan, Con, At, ReplayOK, Reconnecting
    <3>3. pending[b].key = Key(s) /\ pending[b].held = run[s].held /\ Progress(s)
      BY <1>4, <2>4, <3>2 DEF ReplayOK, Reconnecting, Writing
    <3>4. run[s].todo # {}
      BY <3>2, RunFacts DEF RunOK, Reconnecting, Working
    <3>5. table' = Merged(table, RunRows(s))
      BY <2>1, <3>3 DEF MergeBy, RunRows
    <3>6. /\ Key(s)' = Key(s) /\ RunRows(s)' = RunRows(s) /\ Before(s)' = Before(s)
          /\ \A a : OwnerOf(a, s)' <=> OwnerOf(a, s)
      BY <3>1 DEF Key, RunRows, Before, OwnerOf, Running, At
    <3>7. run[s].sole => Agrees(table', Before(s), Region(RunRows(s)))
      BY <3>3, <3>4, <3>5, MergeAgrees DEF Progress
    <3>8. Progress(s)'
      BY <3>1, <3>3, <3>6, <3>7 DEF Progress
    <3> QED BY <1>2, <3>1, <3>2, <3>6, <3>8 DEF ReplayOK, Reconnecting
  <2> QED BY <2>2, <2>3, <2>4
<1> QED
  BY <1>3, <1>4

LEMMA ReplayNext ==
  ASSUME Inv, Inv', OrphansOK, \A r \in Run : ReplayOK(r), [Next]_vars
  PROVE  \A r \in Run : ReplayOK(r)'
<1> SUFFICES ASSUME NEW s \in Run PROVE ReplayOK(s)'
  OBVIOUS
<1>1. ASSUME NEW r \in Run, RunStep(r) \/ FaultStep(r) \/ \E m \in Modes[r] : Start(r, m)
      PROVE  ReplayOK(s)'
  <2>1. CASE s = r
    BY <1>1, <2>1, OwnReplay
  <2>2. CASE s # r
    BY <1>1, <2>2, OthersReplay
  <2> QED BY <2>1, <2>2
<1>2. CASE \E b \in Backend : OrphanRuns(b)
  BY <1>2, OrphanReplay
<1>3. ASSUME NEW b \in Backend, OrphanEnds(b) PROVE ReplayOK(s)'
  <2>1. run' = run /\ table' = table /\ pending' = [pending EXCEPT ![b] = Nothing]
    BY <1>3 DEF OrphanEnds, Ends, server
  <2>2. \A a \in Backend : pending'[a] = pending[a] \/ pending'[a].kind # "merge"
    BY <2>1 DEF Inv, Typed, Nothing
  <2> QED BY <2>1, <2>2, Undisturbed
<1>4. CASE (\E o \in Object : Upload(o)) \/ UNCHANGED vars
  <2>1. run' = run /\ table' = table /\ pending' = pending
    BY <1>4 DEF Upload, vars, server, sessions
  <2> QED BY <2>1, Undisturbed
<1> QED
  BY <1>1, <1>2, <1>3, <1>4 DEF Next

\* A run completes at its last key, where what is agreed on is the whole replay.
LEMMA CompletedIsReplay ==
  ASSUME Inv, NEW r \in Run, ReplayOK(r), Completes(r)
  PROVE  \A c \in Replayed(run[r].keys).cells : table'[c] = Replayed(run[r].keys).table[c]
<1>1. run[r] \in RunRecord /\ run \in [Run -> RunRecord] /\ run[r].pc = "record" /\ run[r].todo # {}
      /\ run[r].sole /\ table' = table
  BY RunFacts DEF Inv, Typed, Completes, Record, At, RunOK, Working
<1>2. run[r].todo = {Key(r)}
  <2> SUFFICES ASSUME run[r].todo # {Key(r)} PROVE FALSE
    OBVIOUS
  <2>1. run' = [run EXCEPT ![r].pc = FirstStep(r), ![r].todo = @ \ {Key(r)},
                  ![r].again = FALSE, ![r].held = Ingested[Key(r), @].held]
    BY DEF Completes, Record, NextObject
  <2>2. run'[r].pc = FirstStep(r)
    BY <1>1, <2>1 DEF RunRecord
  <2> QED BY <2>2 DEF Completes, FirstStep
<1>3. Progress(r) /\ Agrees(table, AfterKey(r), {})
  BY <1>1 DEF ReplayOK, Writing
<1>4. \A k \in run[r].keys : ~(Key(r) < k /\ k <= MaxObject)
  <2>1. run[r].todo = {k \in run[r].keys : Key(r) <= k} /\ run[r].keys \subseteq Object /\ MaxObject \in Nat
        /\ Key(r) \in Object
    BY <1>1, <1>3, AtObject, WideTableAssumption DEF Progress
  <2>2. Object \subseteq Nat
    BY <2>1 DEF Object
  <2>3. ASSUME NEW k \in run[r].keys, Key(r) < k PROVE FALSE
    <3>1. Key(r) \in Nat /\ k \in Nat
      BY <2>1, <2>2
    <3>2. k \in run[r].todo
      BY <2>1, <2>3, <3>1
    <3> QED BY <1>2, <2>3, <3>1, <3>2
  <2> QED BY <2>3
<1>5. Replayed(run[r].keys) = AfterKey(r)
  <2>1. Key(r) \in 0..MaxObject /\ MaxObject \in 0..MaxObject /\ Key(r) <= MaxObject
    <3>1. MaxObject \in Nat /\ Key(r) \in 0..MaxObject
      BY <1>1, AtObject, WideTableAssumption
    <3> QED BY <3>1
  <2> QED BY <1>4, <2>1, AfterSkips DEF Replayed, AfterKey
<1> QED
  BY <1>1, <1>3, <1>5 DEF Agrees

LEMMA InitReplay == Init => \A r \in Run : ReplayOK(r)
BY DEF Init, Idle, ReplayOK, Writing, Reconnecting

\* The inductive invariant with what a run's place among its keys says of the
\* table: outside the object it is at, the keys before it read once each.
THEOREM RunsReplay == Spec => [](Inv /\ OrphansOK /\ \A r \in Run : ReplayOK(r))
<1>1. Inv /\ Inv' /\ OrphansOK /\ (\A r \in Run : ReplayOK(r)) /\ [Next]_vars
        => (\A r \in Run : ReplayOK(r))'
  BY ReplayNext
<1> QED
  BY <1>1, InitReplay, OrphansAreNobodys, PTL DEF Spec

\* Retries, lost answers and late statements of a dead link do not show: a run
\* that ends well, no other having written meanwhile, leaves what reading its
\* keys once in capture order writes.
THEOREM RunReplaysItsKeys == Spec => FinishedRunIsReplay
<1>1. Inv /\ (\A r \in Run : ReplayOK(r)) /\ [Next]_vars =>
        [\A r \in Run : Completes(r) =>
           LET replay == Replayed(run[r].keys)
           IN  \A c \in replay.cells : table'[c] = replay.table[c]]_vars
  BY CompletedIsReplay
<1> QED
  BY <1>1, RunsReplay, PTL DEF Spec, FinishedRunIsReplay

=============================================================================
