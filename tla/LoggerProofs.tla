---------------------------- MODULE LoggerProofs ----------------------------
(***************************************************************************)
(* The logger process, for every number of frames, all clocks, both caps   *)
(* and any number of process ends.                                         *)
(***************************************************************************)
EXTENDS Logger, TotalsProofs, SequenceTheorems

\* What is proved of the RAM buffer and of the spool.  SpoolProofs' own caller
\* plays no part here: the logger is the caller.
Queue == INSTANCE RamBufferProofs WITH NBytes <- [f \in Frame |-> 1]

Files == INSTANCE SpoolProofs WITH
  Rank <- [o \in Object |-> Stamp[FirstFrame(o)]],
  Size <- [o \in Object |-> Cardinality(o)],
  Rows <- [o \in Object |-> Cardinality(o)],
  Thread <- {"loop", "stop"},
  MaxObjects <- MaxFrames,
  alive <- life # "down",
  caller <- [o \in Object |-> "held"]

Threads == {"loop", "stop"}

----------------------------------------------------------------------------
(* Greatest elements of bounded sets of naturals *)

LEMMA GreatestOf ==
  ASSUME NEW S, NEW n \in Nat, S \subseteq 0..n, S # {}
  PROVE  \E x \in S : \A y \in S : y <= x
<1> DEFINE D == {d \in 0..n : n - d \in S}
<1>1. D \subseteq Nat /\ D # {}
  <2> PICK x \in S : TRUE
    OBVIOUS
  <2>1. n - x \in 0..n /\ n - (n - x) = x
    OBVIOUS
  <2>2. n - x \in D
    BY <2>1
  <2>3. D \subseteq Nat
    OBVIOUS
  <2> HIDE DEF D
  <2> QED
    BY <2>2, <2>3
<1>2. PICK d \in D : \A e \in D : d <= e
  BY <1>1, LeastOf
<1>3. ASSUME NEW y \in S PROVE y <= n - d
  <2>1. y \in 0..n /\ n - y \in 0..n /\ n - (n - y) = y
    OBVIOUS
  <2>2. n - y \in D
    BY <2>1
  <2>3. d <= n - y /\ d \in 0..n
    BY <1>2, <2>2
  <2> QED
    BY <2>1, <2>3
<1> QED
  BY <1>2, <1>3

----------------------------------------------------------------------------
(* The two components, as the logger instantiates them *)

LEMMA QueueConstants ==
  /\ MaxFrames \in Nat
  /\ [f \in Frame |-> 1] \in [Queue!Frame -> Nat \ {0}]
  /\ MaxBufferBytes \in Nat
BY LoggerAssumption DEF Queue!Frame, Frame

LEMMA FiniteObjects ==
  /\ IsFiniteSet(Frame)
  /\ IsFiniteSet(Object)
  /\ \A o \in Object : IsFiniteSet(o) /\ FirstFrame(o) \in o /\ o \subseteq Frame
<1>1. IsFiniteSet(Frame)
  BY LoggerAssumption, FS_Interval DEF Frame
<1>2. IsFiniteSet(SUBSET Frame)
  BY <1>1, FS_SUBSET
<1>3. IsFiniteSet(Object)
  BY <1>2, FS_Subset DEF Object
<1>4. ASSUME NEW o \in Object PROVE IsFiniteSet(o) /\ FirstFrame(o) \in o /\ o \subseteq Frame
  <2>1. o \subseteq Frame /\ o # {}
    BY DEF Object
  <2>2. o \subseteq Nat
    BY <2>1, LoggerAssumption DEF Frame
  <2>3. \E f \in o : \A g \in o : f <= g
    BY <2>1, <2>2, LeastOf
  <2>4. FirstFrame(o) \in o
    BY <2>3 DEF FirstFrame
  <2> QED
    BY <1>1, <2>1, <2>4, FS_Subset
<1> QED
  BY <1>1, <1>3, <1>4

LEMMA FilesConstants ==
  /\ Files!IsFiniteSet(Object)
  /\ [o \in Object |-> Stamp[FirstFrame(o)]] \in [Object -> Int]
  /\ [o \in Object |-> Cardinality(o)] \in [Object -> Nat]
  /\ [o \in Object |-> Cardinality(o)] \in [Object -> Nat]
  /\ MaxFrames \in Nat
  /\ MaxDiskBytes \in Nat
  /\ Faults \subseteq Files!FaultKinds
<1>1. Files!IsFiniteSet(Object)
  BY FiniteObjects DEF Files!IsFiniteSet, IsFiniteSet
<1>2. Faults \subseteq Files!FaultKinds
  BY FaultsAssumption DEF Disk!FaultKinds, Files!FaultKinds
<1>3. \A o \in Object : Stamp[FirstFrame(o)] \in Int
  BY FiniteObjects, LoggerAssumption
<1>4. \A o \in Object : Cardinality(o) \in Nat
  BY FiniteObjects, FS_CardinalityType
<1> QED
  BY <1>1, <1>2, <1>3, <1>4, LoggerAssumption

LEMMA EvictedRowsConstant == MaxEvictedRows \in Nat
BY LoggerAssumption

LEMMA SameWriterStep ==
  ASSUME NEW t, Disk!WriterStep(t) PROVE Files!WriterStep(t)
BY DEF Disk!WriterStep, Disk!WriterProgress, Disk!UnlinkVictim, Disk!WriterAt, Disk!SkipExisting,
  Disk!Current, Disk!FilesUnchanged, Disk!diskVars, Disk!history, Disk!BeginObject, Disk!WriterGoes,
  Disk!ListFiles, Disk!MeasureUsage, Disk!PickVictim, Disk!VictimGone, Disk!CountRows,
  Disk!EvictionDone, Disk!WriteTmp, Disk!RenameTmp, Disk!ObjectsDone, Disk!FsyncDir,
  Disk!EvictionFails, Disk!WriteFails, Disk!WriteRaises, Disk!LeaveEviction, Disk!MustEvict,
  Disk!Oldest, Disk!IdleWriter, Disk!Total, Disk!Cardinality, Disk!Pieces,
  Files!WriterStep, Files!WriterProgress, Files!UnlinkVictim, Files!WriterAt, Files!SkipExisting,
  Files!Current, Files!FilesUnchanged, Files!diskVars, Files!history, Files!BeginObject,
  Files!WriterGoes, Files!ListFiles, Files!MeasureUsage, Files!PickVictim, Files!VictimGone,
  Files!CountRows, Files!EvictionDone, Files!WriteTmp, Files!RenameTmp, Files!ObjectsDone,
  Files!FsyncDir, Files!EvictionFails, Files!WriteFails, Files!WriteRaises, Files!LeaveEviction,
  Files!MustEvict, Files!Oldest, Files!IdleWriter, Files!Total, Files!Cardinality, Files!Pieces

\* Everything an upload, a late PUT, the filesystem or a start may do.
Uploads(others) ==
  Disk!BeginPass \/ Disk!UploadStep \/ Disk!CancelUploads(others) \/ Disk!LatePut
    \/ Disk!JournalCommit \/ Disk!StartProcess

LEMMA SameUploads ==
  ASSUME NEW others, Uploads(others)
  PROVE  Files!BeginPass \/ Files!UploadStep \/ Files!CancelUploads(others) \/ Files!LatePut
           \/ Files!JournalCommit \/ Files!StartProcess
BY DEF Uploads,
  Disk!BeginPass, Disk!UploadStep, Disk!UploadProgress, Disk!ReadFile, Disk!SkipFile, Disk!PutOk,
  Disk!DeleteUploaded, Disk!EndPass, Disk!PutFails, Disk!DeleteFails, Disk!CancelUploads,
  Disk!InFlight, Disk!LatePut, Disk!JournalCommit, Disk!StartProcess, Disk!UploadKeeps,
  Disk!IdleUploader, Disk!Oldest, Disk!diskVars, Disk!history,
  Files!BeginPass, Files!UploadStep, Files!UploadProgress, Files!ReadFile, Files!SkipFile, Files!PutOk,
  Files!DeleteUploaded, Files!EndPass, Files!PutFails, Files!DeleteFails, Files!CancelUploads,
  Files!InFlight, Files!LatePut, Files!JournalCommit, Files!StartProcess, Files!UploadKeeps,
  Files!IdleUploader, Files!Oldest, Files!diskVars, Files!history

LEMMA SameEnds ==
  ASSUME NEW others
  PROVE  /\ Disk!PowerCut(others) => Files!PowerCut(others)
         /\ Disk!ProcessEnds(others) => Files!ProcessEnds(others)
BY DEF Disk!PowerCut, Disk!ProcessEnds, Disk!ThreadsDie, Disk!InFlight, Disk!IdleWriter,
  Disk!IdleUploader, Disk!diskVars,
  Files!PowerCut, Files!ProcessEnds, Files!ThreadsDie, Files!InFlight, Files!IdleWriter,
  Files!IdleUploader, Files!diskVars

----------------------------------------------------------------------------
(* The RAM buffer in this environment *)

LEMMA SpoolOnlyKeepsQueue ==
  ASSUME SpoolOnly PROVE UNCHANGED Buf!vars
BY DEF SpoolOnly, bufVars, Buf!vars, Buf!bufVars, Buf!ledgers

LEMMA StepsOfTheBuffer == [Next]_vars => [Buf!Next]_(Buf!vars)
<1> SUFFICES ASSUME [Next]_vars, ~UNCHANGED Buf!vars PROVE Buf!Next
  OBVIOUS
<1>1. ~UNCHANGED bufVars /\ ~SpoolOnly
  BY SpoolOnlyKeepsQueue DEF bufVars, Buf!vars, Buf!bufVars, Buf!ledgers
<1>2. Next /\ ~UNCHANGED vars
  BY <1>1 DEF vars
<1>3. CASE FlushStep
  BY <1>1, <1>3 DEF FlushStep, BeginFlush, BeginWrite, NothingToFlush, Spooled, SpoolRefused,
                    DirectPut, DirectPutFails, Buf!Next
<1>4. CASE StopStep
  BY <1>1, <1>4 DEF StopStep, ResultDiscarded, BeginLastPass, StopReturns, Exit, Buf!Next
<1>5. CASE Capture \/ Kill \/ PowerCut \/ Shutdown \/ Start
  BY <1>1, <1>5 DEF Capture, Kill, PowerCut, Shutdown, Start, Buf!Next
<1>6. CASE BeginPass \/ UploadStep \/ LatePut \/ JournalCommit \/ \E t \in {"loop", "stop"} : WriterStep(t)
  BY <1>1, <1>6 DEF BeginPass, UploadStep, LatePut, JournalCommit, WriterStep
<1> QED
  BY <1>2, <1>3, <1>4, <1>5, <1>6 DEF Next

(* Under the flush loop, the shutdown and every fault, the buffer does     *)
(* what RamBuffer's callers do and nothing else: what is proved of that    *)
(* module holds in the process.                                            *)
THEOREM BufferKeepsItsSpec == Spec => Buf!Spec
<1>1. Init => Buf!Init
  BY DEF Init
<1> QED
  BY <1>1, StepsOfTheBuffer, PTL DEF Spec, Buf!Spec

LEMMA SameQueueSteps ==
  /\ Buf!Init => Queue!Init
  /\ Buf!Receive => Queue!Receive
  /\ Buf!TakeBuffer => Queue!TakeBuffer
  /\ Buf!PlaceBatch => Queue!PlaceBatch
  /\ Buf!ReturnBuffer => Queue!ReturnBuffer
  /\ Buf!CancelFlush => Queue!CancelFlush
  /\ Buf!ProcessEnds => Queue!ProcessEnds
BY DEF Buf!Init, Buf!Receive, Buf!TakeBuffer, Buf!PlaceBatch, Buf!ReturnBuffer, Buf!CancelFlush,
  Buf!ProcessEnds, Buf!Trim, Buf!StopsAfter, Buf!BytesAfter, Buf!Total, Buf!Pieces, Buf!Cardinality,
  Buf!Range, Buf!ledgers, 
  Queue!Init, Queue!Receive, Queue!TakeBuffer, Queue!PlaceBatch, Queue!ReturnBuffer, Queue!CancelFlush,
  Queue!ProcessEnds, Queue!Trim, Queue!StopsAfter, Queue!BytesAfter, Queue!Total, Queue!Pieces,
  Queue!Cardinality, Queue!Range, Queue!ledgers

LEMMA QueueStep == [Next]_vars => [Queue!Next]_(Queue!vars)
<1>1. Buf!Next => Queue!Next
  BY SameQueueSteps DEF Buf!Next, Queue!Next
<1>2. UNCHANGED Buf!vars => UNCHANGED Queue!vars
  BY DEF Buf!vars, Buf!bufVars, Buf!ledgers, Queue!vars, Queue!bufVars, Queue!ledgers
<1> QED
  BY <1>1, <1>2, StepsOfTheBuffer

LEMMA QueueHolds == Spec => []Queue!IInv
<1>1. Init => Queue!Init
  BY SameQueueSteps DEF Init
<1>2. Queue!Init => Queue!IInv
  BY QueueConstants, Queue!InitEstablishes
<1>3. Queue!IInv /\ [Queue!Next]_(Queue!vars) => Queue!IInv'
  BY QueueConstants, Queue!NextPreserves
<1> QED
  BY <1>1, <1>2, <1>3, QueueStep, PTL DEF Spec
----------------------------------------------------------------------------
(* group_by_day *)

\* How many runs have started up to position s.
RunNumber(q, s) == Cardinality({r \in RunStarts(q) : r <= s})

LEMMA RunStartsFinite ==
  ASSUME NEW q, Len(q) \in Nat
  PROVE  /\ RunStarts(q) \subseteq 1..Len(q) /\ IsFiniteSet(RunStarts(q))
         /\ Cardinality(RunStarts(q)) \in Nat
         /\ Len(q) > 0 => 1 \in RunStarts(q)
         /\ \A s : IsFiniteSet({r \in RunStarts(q) : r <= s}) /\ RunNumber(q, s) \in Nat
<1>1. RunStarts(q) \subseteq 1..Len(q) /\ (Len(q) > 0 => 1 \in RunStarts(q))
  BY DEF RunStarts
<1>2. IsFiniteSet(1..Len(q))
  BY FS_Interval
<1>3. IsFiniteSet(RunStarts(q))
  BY <1>1, <1>2, FS_Subset
<1>4. \A s : IsFiniteSet({r \in RunStarts(q) : r <= s})
  BY <1>3, FS_Subset
<1> QED
  BY <1>1, <1>3, <1>4, FS_CardinalityType DEF RunNumber

\* The runs are numbered in order, from 1.
LEMMA RunNumbers ==
  ASSUME NEW q, Len(q) \in Nat, NEW s \in RunStarts(q)
  PROVE  /\ RunNumber(q, s) \in 1..Cardinality(RunStarts(q))
         /\ \A t \in RunStarts(q) : s < t => RunNumber(q, s) < RunNumber(q, t)
<1> DEFINE Upto(x) == {r \in RunStarts(q) : r <= x}
<1>0. /\ RunStarts(q) \subseteq 1..Len(q) /\ IsFiniteSet(RunStarts(q))
      /\ Cardinality(RunStarts(q)) \in Nat /\ s \in Nat
      /\ \A x : IsFiniteSet(Upto(x)) /\ RunNumber(q, x) \in Nat
  BY RunStartsFinite
<1>1. RunNumber(q, s) # 0
  <2>1. s \in Upto(s)
    BY <1>0
  <2>2. Upto(s) # {} /\ IsFiniteSet(Upto(s))
    BY <1>0, <2>1
  <2> HIDE DEF Upto
  <2>3. Cardinality(Upto(s)) # 0
    BY <2>2, FS_EmptySet
  <2> QED
    BY <2>3 DEF RunNumber, Upto
<1>2. RunNumber(q, s) <= Cardinality(RunStarts(q))
  <2>1. Upto(s) \in SUBSET RunStarts(q)
    OBVIOUS
  <2> HIDE DEF Upto
  <2>2. Cardinality(Upto(s)) <= Cardinality(RunStarts(q))
    BY <1>0, <2>1, FS_Subset
  <2> QED
    BY <2>2 DEF RunNumber, Upto
<1>3. ASSUME NEW t \in RunStarts(q), s < t
      PROVE  RunNumber(q, s) < RunNumber(q, t)
  <2>1. Upto(s) \in SUBSET Upto(t) /\ Upto(s) # Upto(t)
    <3>1. t \in Nat /\ \A r \in RunStarts(q) : r \in Nat
      BY <1>0
    <3>2. \A r \in RunStarts(q) : r <= s => r <= t
      BY <1>0, <1>3, <3>1
    <3>3. t \in Upto(t) /\ t \notin Upto(s)
      BY <1>0, <1>3, <3>1
    <3> QED
      BY <3>2, <3>3
  <2>2. IsFiniteSet(Upto(t)) /\ RunNumber(q, s) = Cardinality(Upto(s))
        /\ RunNumber(q, t) = Cardinality(Upto(t))
    BY <1>0 DEF RunNumber
  <2> HIDE DEF Upto
  <2>3. Cardinality(Upto(s)) <= Cardinality(Upto(t)) /\ Cardinality(Upto(s)) # Cardinality(Upto(t))
    BY <2>1, <2>2, FS_Subset
  <2> QED
    BY <1>0, <2>2, <2>3
<1>4. RunNumber(q, s) \in 1..Cardinality(RunStarts(q))
  <2>1. RunNumber(q, s) \in Nat /\ Cardinality(RunStarts(q)) \in Nat
    BY <1>0
  <2> QED
    BY <1>1, <1>2, <2>1
<1> QED
  BY <1>3, <1>4

\* And every number up to how many there are is that of one run.
LEMMA RunOfNumber ==
  ASSUME NEW q, Len(q) \in Nat, NEW n \in 1..Cardinality(RunStarts(q))
  PROVE  \E s \in RunStarts(q) : {t \in RunStarts(q) : RunNumber(q, t) = n} = {s}
<1> DEFINE S == RunStarts(q)
           T == 1..Cardinality(RunStarts(q))
           f == [s \in S |-> RunNumber(q, s)]
<1>0. S \subseteq 1..Len(q) /\ IsFiniteSet(S) /\ Cardinality(S) \in Nat
  BY RunStartsFinite
<1>1. \A s \in S : RunNumber(q, s) \in T /\ s \in Nat
  BY <1>0, RunNumbers
<1>2. \A s, t \in S : RunNumber(q, s) = RunNumber(q, t) => s = t
  <2> SUFFICES ASSUME NEW s \in S, NEW t \in S, RunNumber(q, s) = RunNumber(q, t) PROVE s = t
    OBVIOUS
  <2>1. s < t => RunNumber(q, s) < RunNumber(q, t)
    BY RunNumbers
  <2>2. t < s => RunNumber(q, t) < RunNumber(q, s)
    BY RunNumbers
  <2>3. RunNumber(q, s) \in Nat /\ s \in Nat /\ t \in Nat
    BY <1>1
  <2> QED
    BY <2>1, <2>2, <2>3
<1>3. f \in Injection(S, T)
  BY <1>1, <1>2 DEF Injection, IsInjective
<1>4. IsFiniteSet(T) /\ Cardinality(T) = Cardinality(S)
  <2> DEFINE c == Cardinality(RunStarts(q))
  <2>1. c \in Nat
    BY <1>0
  <2> HIDE DEF c
  <2>2. 1 \in Int /\ c \in Int /\ (IF 1 > c THEN 0 ELSE c - 1 + 1) = c
    BY <2>1
  <2>3. IsFiniteSet(1..c) /\ Cardinality(1..c) = c
    BY <2>2, FS_Interval
  <2> QED
    BY <2>3 DEF c
<1>5. f \in Surjection(S, T)
  <2> HIDE DEF f, S, T
  <2> QED
    BY <1>3, <1>4, FS_Injection
<1>6. PICK s \in S : f[s] = n
  BY <1>5 DEF Surjection
<1>7. RunNumber(q, s) = n
  BY <1>6
<1> QED
  BY <1>2, <1>7

\* A run, by the position it starts at.
FramesFrom(q, s) == {q[j] : j \in RunFrom(q, s)}

LEMMA RunsAre ==
  ASSUME NEW q, Len(q) \in Nat
  PROVE  /\ \A n \in 1..Cardinality(RunStarts(q)) : \E s \in RunStarts(q) :
              RunNumber(q, s) = n /\ DayRuns(q)[n] = FramesFrom(q, s)
         /\ \A s \in RunStarts(q) :
              /\ RunNumber(q, s) \in 1..Cardinality(RunStarts(q))
              /\ DayRuns(q)[RunNumber(q, s)] = FramesFrom(q, s)
<1>1. ASSUME NEW n \in 1..Cardinality(RunStarts(q)), NEW s \in RunStarts(q),
             {t \in RunStarts(q) : RunNumber(q, t) = n} = {s}
      PROVE  RunNumber(q, s) = n /\ DayRuns(q)[n] = FramesFrom(q, s)
  <2>1. DayRuns(q)[n] = {q[j] : j \in UNION {RunFrom(q, i) : i \in
                           {t \in RunStarts(q) : RunNumber(q, t) = n}}}
    BY DEF DayRuns, RunNumber
  <2>2. UNION {RunFrom(q, i) : i \in {s}} = RunFrom(q, s)
    OBVIOUS
  <2>3. s \in {t \in RunStarts(q) : RunNumber(q, t) = n}
    BY <1>1
  <2> QED
    BY <1>1, <2>1, <2>2, <2>3 DEF FramesFrom
<1>2. ASSUME NEW s \in RunStarts(q)
      PROVE  /\ RunNumber(q, s) \in 1..Cardinality(RunStarts(q))
             /\ DayRuns(q)[RunNumber(q, s)] = FramesFrom(q, s)
  <2>1. RunNumber(q, s) \in 1..Cardinality(RunStarts(q))
    BY RunNumbers
  <2>2. PICK t \in RunStarts(q) : {r \in RunStarts(q) : RunNumber(q, r) = RunNumber(q, s)} = {t}
    BY <2>1, RunOfNumber
  <2>3. t = s
    BY <2>2
  <2> QED
    BY <1>1, <2>1, <2>2, <2>3
<1> QED
  BY <1>1, <1>2, RunOfNumber

\* The runs of a queue in order of arrival are its frames, cut up; its last
\* frame is in the last run only.
LEMMA RunsOfQueue ==
  ASSUME NEW n \in Nat, n <= MaxFrames, NEW q \in Seq(1..n), q # <<>>, Queue!Increasing(q)
  PROVE  /\ DayRuns(q) \in Seq(Object) /\ Len(DayRuns(q)) \in Nat \ {0}
         /\ UNION Range(DayRuns(q)) = Range(q)
         /\ q[Len(q)] \in DayRuns(q)[Len(DayRuns(q))]
         /\ \A k \in 1..Len(DayRuns(q)) : q[Len(q)] \in DayRuns(q)[k] => k = Len(DayRuns(q))
<1> DEFINE l == Len(q)
           c == Cardinality(RunStarts(q))
           runs == DayRuns(q)
<1>0. l \in Nat \ {0} /\ DOMAIN q = 1..l /\ \A i \in 1..l : q[i] \in 1..n
  BY LenProperties, EmptySeq
<1>1. /\ RunStarts(q) \subseteq 1..l /\ 1 \in RunStarts(q) /\ c \in Nat
      /\ IsFiniteSet(RunStarts(q))
  BY <1>0, RunStartsFinite
<1>2. RunNumber(q, 1) \in 1..c
  BY <1>0, <1>1, RunNumbers
<1>3. c \in Nat \ {0}
  BY <1>1, <1>2
<1>4. \A s \in RunStarts(q) : s \in RunFrom(q, s) /\ RunFrom(q, s) \subseteq 1..l
  <2> SUFFICES ASSUME NEW s \in RunStarts(q) PROVE s \in RunFrom(q, s) /\ RunFrom(q, s) \subseteq 1..l
    OBVIOUS
  <2>1. s \in 1..l
    BY <1>1
  <2> QED
    BY <1>0, <2>1 DEF RunFrom
<1>5. \A s \in RunStarts(q) : FramesFrom(q, s) # {} /\ FramesFrom(q, s) \subseteq Range(q)
                                /\ FramesFrom(q, s) \in Object
  <2> SUFFICES ASSUME NEW s \in RunStarts(q)
               PROVE  FramesFrom(q, s) # {} /\ FramesFrom(q, s) \subseteq Range(q)
                        /\ FramesFrom(q, s) \in Object
    OBVIOUS
  <2>1. q[s] \in FramesFrom(q, s)
    BY <1>4 DEF FramesFrom
  <2>2. FramesFrom(q, s) \subseteq Range(q)
    BY <1>0, <1>4 DEF FramesFrom, Range
  <2>3. Range(q) \subseteq Frame
    BY <1>0, LoggerAssumption DEF Range, Frame
  <2> QED
    BY <2>1, <2>2, <2>3 DEF Object
<1>6. DOMAIN runs = 1..c
  BY DEF DayRuns
<1>7. /\ \A k \in 1..c : \E s \in RunStarts(q) : RunNumber(q, s) = k /\ runs[k] = FramesFrom(q, s)
      /\ \A s \in RunStarts(q) : RunNumber(q, s) \in 1..c /\ runs[RunNumber(q, s)] = FramesFrom(q, s)
  BY <1>0, RunsAre
<1>8. runs \in Seq(Object) /\ Len(runs) = c
  <2>1. runs = [k \in 1..c |-> runs[k]]
    BY DEF DayRuns
  <2>2. \A k \in 1..c : runs[k] \in Object
    BY <1>5, <1>7
  <2> HIDE DEF c, runs
  <2>3. runs \in [1..c -> Object]
    BY <2>1, <2>2
  <2> QED
    BY <1>3, <2>3
<1> HIDE DEF c, runs
<1>9. ASSUME NEW j \in 1..l
      PROVE  \E s \in RunStarts(q) : j \in RunFrom(q, s)
  <2> DEFINE S == {r \in RunStarts(q) : r <= j}
  <2>1. S \subseteq 0..l /\ 1 \in S
    BY <1>0, <1>1
  <2>2. PICK s \in S : \A r \in S : r <= s
    BY <1>0, <2>1, GreatestOf
  <2>3. s \in RunStarts(q) /\ s \in 1..l /\ s <= j
    BY <1>1
  <2>4. ASSUME NEW k \in (s + 1)..j, k \in RunStarts(q) PROVE FALSE
    <3>1. k <= j /\ k > s /\ k \in Nat
      BY <2>3
    <3>2. k <= s
      BY <2>2, <2>4, <3>1
    <3> QED
      BY <2>3, <3>1, <3>2
  <2>5. j \in s..l
    BY <1>0, <2>3
  <2>6. j \in RunFrom(q, s)
    BY <2>4, <2>5 DEF RunFrom
  <2> QED
    BY <2>3, <2>6
<1>10. UNION Range(runs) = Range(q)
  <2>1. ASSUME NEW k \in 1..c PROVE runs[k] \subseteq Range(q)
    BY <1>5, <1>7
  <2>2. ASSUME NEW j \in 1..l PROVE q[j] \in UNION Range(runs)
    <3> PICK s \in RunStarts(q) : j \in RunFrom(q, s)
      BY <1>9
    <3>1. q[j] \in FramesFrom(q, s)
      BY DEF FramesFrom
    <3>2. q[j] \in runs[RunNumber(q, s)] /\ RunNumber(q, s) \in 1..c
      BY <1>7, <3>1
    <3> QED
      BY <1>6, <3>2 DEF Range
  <2> QED
    BY <1>0, <1>6, <2>1, <2>2 DEF Range
<1>11. ASSUME NEW s \in RunStarts(q), l \in RunFrom(q, s) PROVE RunNumber(q, s) = c
  <2>1. s \in 1..l
    BY <1>1
  <2>2. \A r \in RunStarts(q) : r <= s
    <3> SUFFICES ASSUME NEW r \in RunStarts(q), ~(r <= s) PROVE FALSE
      OBVIOUS
    <3>1. r \in (s + 1)..l
      BY <1>1, <2>1
    <3> QED
      BY <1>11, <3>1 DEF RunFrom
  <2>3. {r \in RunStarts(q) : r <= s} = RunStarts(q)
    BY <2>2
  <2> QED
    BY <2>3 DEF RunNumber, c
<1>12. ASSUME NEW s \in RunStarts(q), q[l] \in FramesFrom(q, s) PROVE l \in RunFrom(q, s)
  <2>1. PICK j \in RunFrom(q, s) : q[j] = q[l]
    BY <1>12 DEF FramesFrom
  <2>2. j \in 1..l /\ j \in DOMAIN q /\ l \in DOMAIN q
    BY <1>0, <1>4
  <2>3. j < l => q[j] < q[l]
    BY <2>2 DEF Queue!Increasing
  <2>4. q[l] \in Nat
    BY <1>0
  <2>5. j = l
    BY <1>0, <2>1, <2>2, <2>3, <2>4
  <2> QED
    BY <2>5
<1>13. ASSUME NEW k \in 1..c, q[l] \in runs[k] PROVE k = c
  <2>1. PICK s \in RunStarts(q) : RunNumber(q, s) = k /\ runs[k] = FramesFrom(q, s)
    BY <1>7
  <2> QED
    BY <1>11, <1>12, <1>13, <2>1
<1>14. q[l] \in runs[c]
  <2>1. PICK s \in RunStarts(q) : l \in RunFrom(q, s)
    BY <1>0, <1>9
  <2>2. q[l] \in FramesFrom(q, s) /\ RunNumber(q, s) = c
    BY <1>11, <2>1 DEF FramesFrom
  <2> QED
    BY <1>7, <2>2
<1> QED
  BY <1>3, <1>8, <1>10, <1>13, <1>14 DEF runs

----------------------------------------------------------------------------
(* What the parts of a step do to the spool *)

SpoolOK == Files!Typed /\ Files!Kept

LEMMA Writing ==
  ASSUME SpoolOK, NEW t \in Threads, Disk!WriterStep(t)
  PROVE  /\ SpoolOK'
         /\ Files!CallStep(writer[t], writer'[t]) /\ writer'[t].objs = writer[t].objs
         /\ \A s \in Threads \ {t} : writer'[s] = writer[s]
         /\ visible \subseteq visible' \cup evicted' /\ evicted \subseteq evicted'
         /\ UNCHANGED <<s3, up, late>>
<1>1. Files!WriterStep(t)
  BY SameWriterStep
<1>2. Files!Typed'
  BY <1>1, FilesConstants, EvictedRowsConstant, Files!WriterTyped DEF SpoolOK, Threads
<1>3. Files!Kept'
  BY <1>1, FilesConstants, EvictedRowsConstant, Files!WriterKeeps DEF SpoolOK, Threads
<1>4. /\ Files!CallStep(writer[t], writer'[t]) /\ writer'[t].objs = writer[t].objs
      /\ \A s \in Threads \ {t} : writer'[s] = writer[s]
      /\ visible \subseteq visible' \cup evicted' /\ evicted \subseteq evicted'
      /\ UNCHANGED <<life # "down", s3, up, late>>
  BY <1>1, FilesConstants, EvictedRowsConstant, Files!EveryCallStep DEF SpoolOK, Threads
<1> QED
  BY <1>2, <1>3, <1>4 DEF SpoolOK

LEMMA Uploading ==
  ASSUME SpoolOK, NEW others \in SUBSET Object, Uploads(others)
  PROVE  /\ SpoolOK'
         /\ writer' = writer /\ evicted' = evicted
         /\ visible' \subseteq visible /\ visible \subseteq visible' \cup s3
         /\ durable' = durable \/ (durable' = visible /\ visible' = visible)
         /\ s3 \subseteq s3' /\ s3' \subseteq s3 \cup up.obj \cup late
<1> DEFINE Step == \/ Files!BeginPass \/ Files!UploadStep \/ Files!CancelUploads(others)
                   \/ Files!LatePut \/ Files!JournalCommit \/ Files!StartProcess
<1>1. Step
  BY SameUploads
<1>2. Files!Typed'
  BY <1>1, FilesConstants, EvictedRowsConstant, Files!UploadTyped DEF SpoolOK
<1>3. Files!Kept /\ up \in Files!Uploader
  BY DEF SpoolOK, Files!Typed, Files!TypeOK
<1>4. Files!Kept'
  BY <1>1, <1>3, FilesConstants, EvictedRowsConstant, Files!UploadKeepsAll
<1>5. /\ writer' = writer /\ evicted' = evicted
      /\ visible' \subseteq visible /\ visible \subseteq visible' \cup s3
      /\ durable' = durable \/ (durable' = visible /\ visible' = visible)
      /\ s3 \subseteq s3' /\ s3' \subseteq s3 \cup up.obj \cup late
  BY <1>1, <1>3, FilesConstants, EvictedRowsConstant, Files!EveryUploadStep
<1> QED
  BY <1>2, <1>4, <1>5 DEF SpoolOK

LEMMA SpoolSets ==
  ASSUME SpoolOK
  PROVE  /\ visible \subseteq Object /\ durable \subseteq Object /\ s3 \subseteq Object
         /\ evicted \subseteq Object /\ late \subseteq Object /\ up.obj \subseteq Object
         /\ writer \in [Threads -> Files!Writer]
         /\ \A t \in Threads : /\ writer[t].objs \in Seq(Object) /\ Len(writer[t].objs) \in Nat
                               /\ writer[t].i \in Nat \ {0} /\ writer[t].pc \in Files!WriterPc
BY DEF SpoolOK, Files!Typed, Files!TypeOK, Files!Uploader, Files!Writer, Threads

LEMMA Idle ==
  /\ Disk!IdleWriter \in Files!Writer
  /\ Disk!IdleWriter.pc = "idle" /\ Disk!IdleWriter.objs = <<>>
  /\ Disk!IdleUploader.pc = "idle" /\ Disk!IdleUploader.obj = {}
  /\ Disk!IdleUploader \in Files!Uploader
<1>1. <<>> \in Seq(Object)
  OBVIOUS
<1> QED
  BY <1>1 DEF Disk!IdleWriter, Disk!IdleUploader, Files!Writer, Files!WriterPc,
              Files!Uploader, Files!UploaderPc

LEMMA Submitting ==
  ASSUME SpoolOK, NEW t \in Threads, NEW objs \in Seq(Object), Disk!Submit(t, objs)
  PROVE  /\ SpoolOK'
         /\ writer[t].pc = "idle"
         /\ writer'[t].pc = "next" /\ writer'[t].objs = objs /\ writer'[t].i = 1
         /\ writer'[t].renamed = FALSE
         /\ \A s \in Threads \ {t} : writer'[s] = writer[s]
         /\ UNCHANGED <<visible, durable, s3, up, late, evicted, stored>>
<1> DEFINE x == [Disk!IdleWriter EXCEPT !.pc = "next", !.objs = objs]
<1>1. /\ writer' = [writer EXCEPT ![t] = x] /\ writer[t].pc = "idle"
      /\ UNCHANGED <<visible, durable, tmps, s3, up, late, evictedRows, evicted, counted, stored>>
      /\ UNCHANGED (life # "down")
  BY DEF Disk!Submit, Disk!WriterAt, Disk!FilesUnchanged, Disk!diskVars, Disk!history
<1>2. x.pc = "next" /\ x.objs = objs /\ x.i = 1 /\ x.renamed = FALSE
  BY DEF Disk!IdleWriter
<1>3. x \in Files!Writer /\ Files!InBatch(x)
  BY <1>2, Idle DEF Files!Writer, Files!WriterPc, Files!InBatch, Files!Holding
<1> HIDE DEF x
<1>4. writer \in [Threads -> Files!Writer]
  BY SpoolSets
<1>5. writer'[t] = x /\ \A s \in Threads \ {t} : writer'[s] = writer[s]
  BY <1>1, <1>4
<1>6. writer' \in [Threads -> Files!Writer]
  BY <1>1, <1>3, <1>4
<1>7. \A s \in Threads : Files!InBatch(writer'[s])
  BY <1>3, <1>5 DEF SpoolOK, Files!Typed, Threads
<1>8. Files!Typed'
  BY <1>1, <1>6, <1>7 DEF SpoolOK, Files!Typed, Files!TypeOK, Files!InBatch, Threads
<1>9. Files!Kept'
  BY <1>1 DEF SpoolOK, Files!Kept, Files!NothingVanishes, Files!DeletesStored
<1> QED
  BY <1>1, <1>2, <1>5, <1>8, <1>9 DEF SpoolOK

LEMMA Collecting ==
  ASSUME SpoolOK, NEW t \in Threads, Disk!Collect(t)
  PROVE  /\ SpoolOK'
         /\ writer[t].pc \in {"true", "false"}
         /\ writer'[t].pc = "idle" /\ writer'[t].objs = <<>>
         /\ \A s \in Threads \ {t} : writer'[s] = writer[s]
         /\ UNCHANGED <<visible, durable, s3, up, late, evicted, stored>>
<1> DEFINE x == Disk!IdleWriter
<1>1. /\ writer' = [writer EXCEPT ![t] = x] /\ writer[t].pc \in {"true", "false"}
      /\ UNCHANGED <<visible, durable, tmps, s3, up, late, evictedRows, evicted, counted, stored>>
      /\ UNCHANGED (life # "down")
  BY DEF Disk!Collect, Disk!FilesUnchanged, Disk!diskVars, Disk!history
<1>2. x.pc = "idle" /\ x.objs = <<>>
  BY Idle
<1>3. x \in Files!Writer /\ Files!InBatch(x)
  BY Idle DEF Files!InBatch, Files!Holding
<1> HIDE DEF x
<1>4. writer \in [Threads -> Files!Writer]
  BY SpoolSets
<1>5. writer'[t] = x /\ \A s \in Threads \ {t} : writer'[s] = writer[s]
  BY <1>1, <1>4
<1>6. writer' \in [Threads -> Files!Writer]
  BY <1>1, <1>3, <1>4
<1>7. \A s \in Threads : Files!InBatch(writer'[s])
  BY <1>3, <1>5 DEF SpoolOK, Files!Typed, Threads
<1>8. Files!Typed'
  BY <1>1, <1>6, <1>7 DEF SpoolOK, Files!Typed, Files!TypeOK, Files!InBatch, Threads
<1>9. Files!Kept'
  BY <1>1 DEF SpoolOK, Files!Kept, Files!NothingVanishes, Files!DeletesStored
<1> QED
  BY <1>1, <1>2, <1>5, <1>8, <1>9 DEF SpoolOK

LEMMA PuttingDirectly ==
  ASSUME SpoolOK, NEW o \in Object, Disk!DirectPutOk(o) \/ Disk!DirectPutFails(o)
  PROVE  /\ SpoolOK'
         /\ UNCHANGED <<visible, durable, writer, up, late, evicted>>
         /\ s3 \subseteq s3' /\ s3' \subseteq s3 \cup {o}
         /\ Disk!DirectPutOk(o) => o \in s3'
         /\ Disk!DirectPutFails(o) /\ "lostAnswer" \notin Faults => s3' = s3
<1>1. /\ UNCHANGED <<visible, durable, tmps, writer, up, late, evictedRows, evicted, counted, stored>>
      /\ UNCHANGED (life # "down")
  BY DEF Disk!DirectPutOk, Disk!DirectPutFails, Disk!diskVars, Disk!history
<1>2. /\ s3 \subseteq s3' /\ s3' \subseteq s3 \cup {o}
      /\ Disk!DirectPutOk(o) => o \in s3'
      /\ Disk!DirectPutFails(o) /\ "lostAnswer" \notin Faults => s3' = s3
  BY DEF Disk!DirectPutOk, Disk!DirectPutFails
<1>3. Files!Typed'
  BY <1>1, <1>2, SpoolSets DEF SpoolOK, Files!Typed, Files!TypeOK, Files!InBatch
<1>4. Files!Kept'
  BY <1>1, <1>2 DEF SpoolOK, Files!Kept, Files!NothingVanishes, Files!DeletesStored
<1> QED
  BY <1>1, <1>2, <1>3, <1>4 DEF SpoolOK

LEMMA Ending ==
  ASSUME SpoolOK, NEW others \in SUBSET Object, Disk!PowerCut(others) \/ Disk!ProcessEnds(others)
  PROVE  /\ SpoolOK'
         /\ \A t \in Threads : writer'[t].pc = "idle" /\ writer'[t].objs = <<>>
         /\ UNCHANGED <<durable, evicted>>
         /\ visible' = visible \/ ("power" \in Faults /\ visible' = durable)
         /\ Disk!ProcessEnds(others) => visible' = visible
         /\ s3 \subseteq s3' /\ s3' \subseteq s3 \cup up.obj \cup late \cup others
         /\ up'.obj = {} /\ late' = {}
<1>1. Files!PowerCut(others) \/ Files!ProcessEnds(others)
  BY SameEnds
<1>2. Files!Typed'
  BY <1>1, FilesConstants, EvictedRowsConstant, Files!EndTyped DEF SpoolOK
<1>3. Files!Kept'
  BY <1>1, FilesConstants, EvictedRowsConstant, Files!EndKeeps DEF SpoolOK
<1>4. /\ writer' = [t \in Threads |-> Disk!IdleWriter] /\ up' = Disk!IdleUploader /\ late' = {}
      /\ s3 \subseteq s3' /\ s3' \subseteq s3 \cup up.obj \cup late \cup others
  BY DEF Disk!PowerCut, Disk!ProcessEnds, Disk!ThreadsDie, Disk!InFlight, Threads
<1>5. /\ UNCHANGED <<durable, evicted>>
      /\ visible' = visible \/ ("power" \in Faults /\ visible' = durable)
      /\ Disk!ProcessEnds(others) => visible' = visible
  BY DEF Disk!PowerCut, Disk!ProcessEnds, Disk!diskVars
<1> QED
  BY <1>2, <1>3, <1>4, <1>5, Idle DEF SpoolOK

----------------------------------------------------------------------------
(* The flush, its await and its thread *)

Control ==
  /\ life \in Lives /\ phase \in Phases /\ direct \in Seq(Object) /\ ends \in 0..MaxEnds
  /\ life \notin {"running", "down"} => ends < MaxEnds
  /\ phase = "none" <=> batch = <<>>
  /\ phase = "direct" <=> direct # <<>>
  /\ phase # "none" => life \in {"running", "flushing"}

\* Which thread is at work on what.
Calls ==
  /\ \A t \in Threads : writer[t].pc = "idle" => writer[t].objs = <<>>
  /\ phase = "writing" => /\ writer[FlushThread].pc # "idle"
                          /\ writer[FlushThread].objs = DayRuns(batch)
  /\ phase # "writing" /\ life = "running" => writer["loop"].pc = "idle"
  /\ ~(phase = "writing" /\ life = "flushing") => writer["stop"].pc = "idle"
  /\ life = "down" => writer["loop"].pc = "idle"

Shape == Queue!IInv /\ SpoolOK /\ Control /\ Calls

LEMMA BatchRuns ==
  ASSUME Queue!IInv, batch # <<>>
  PROVE  /\ DayRuns(batch) \in Seq(Object) /\ Len(DayRuns(batch)) \in Nat \ {0}
         /\ DayRuns(batch) # <<>>
         /\ UNION Range(DayRuns(batch)) = Range(batch)
         /\ batch[Len(batch)] \in DayRuns(batch)[Len(DayRuns(batch))]
         /\ \A k \in 1..Len(DayRuns(batch)) :
              batch[Len(batch)] \in DayRuns(batch)[k] => k = Len(DayRuns(batch))
<1>1. /\ rx \in Nat /\ rx <= MaxFrames /\ batch \in Seq(1..rx) /\ Queue!Increasing(batch)
  BY LoggerAssumption DEF Queue!IInv, Queue!TypeOK, Queue!Ordered
<1>2. /\ DayRuns(batch) \in Seq(Object) /\ Len(DayRuns(batch)) \in Nat \ {0}
      /\ UNION Range(DayRuns(batch)) = Range(batch)
      /\ batch[Len(batch)] \in DayRuns(batch)[Len(DayRuns(batch))]
      /\ \A k \in 1..Len(DayRuns(batch)) :
           batch[Len(batch)] \in DayRuns(batch)[k] => k = Len(DayRuns(batch))
  BY <1>1, RunsOfQueue
<1>3. DayRuns(batch) # <<>>
  BY <1>2
<1> QED
  BY <1>2, <1>3

\* A flush returns, the queue having given up its batch.
LEMMA ReturnKeepsControl ==
  ASSUME Control, phase # "none", FlushReturns, batch' = <<>>, ends' = ends
  PROVE  /\ Control' /\ phase' = "none" /\ direct' = <<>>
         /\ (life = "running" /\ life' = "running") \/ (life = "flushing" /\ life' = "draining")
<1>1. <<>> \in Seq(Object)
  OBVIOUS
<1> QED
  BY <1>1 DEF Control, FlushReturns, Lives, Phases

LEMMA DirectHead ==
  ASSUME Control
  PROVE  /\ DirectInFlight \in SUBSET Object
         /\ phase = "direct" => /\ Head(direct) \in Object /\ Tail(direct) \in Seq(Object)
                                /\ Range(direct) = {Head(direct)} \cup Range(Tail(direct))
<1>1. CASE phase = "direct"
  <2>1. direct \in Seq(Object) /\ direct # <<>>
    BY <1>1 DEF Control
  <2>2. Head(direct) \in Object /\ Tail(direct) \in Seq(Object)
    BY <2>1
  <2>3. Range(direct) = {Head(direct)} \cup Range(Tail(direct))
    <3> DEFINE tl == Tail(direct)
    <3>1. /\ Len(direct) \in Nat \ {0} /\ DOMAIN direct = 1..Len(direct)
          /\ Head(direct) = direct[1]
          /\ Len(tl) = Len(direct) - 1 /\ DOMAIN tl = 1..Len(tl)
          /\ \A i \in 1..Len(tl) : tl[i] = direct[i + 1]
      BY <2>1, HeadTailProperties, EmptySeq, LenProperties
    <3> HIDE DEF tl
    <3>2. Range(tl) \subseteq Range(direct) /\ Head(direct) \in Range(direct)
      BY <3>1 DEF Range
    <3>3. ASSUME NEW i \in 1..Len(direct) PROVE direct[i] \in {Head(direct)} \cup Range(tl)
      <4>1. CASE i = 1
        BY <3>1, <4>1
      <4>2. CASE i # 1
        <5>1. i - 1 \in 1..Len(tl) /\ (i - 1) + 1 = i
          BY <3>1, <4>2
        <5>2. tl[i - 1] = direct[i]
          BY <3>1, <5>1
        <5> QED
          BY <3>1, <5>1, <5>2 DEF Range
      <4> QED
        BY <4>1, <4>2
    <3>4. Range(direct) \subseteq {Head(direct)} \cup Range(tl)
      BY <3>1, <3>3 DEF Range
    <3> QED
      BY <3>2, <3>4 DEF tl
  <2> QED
    BY <1>1, <2>2, <2>3 DEF DirectInFlight
<1>2. CASE phase # "direct"
  BY <1>2 DEF DirectInFlight
<1> QED
  BY <1>1, <1>2

LEMMA ShapeInit == Init => Shape
<1> SUFFICES ASSUME Init PROVE Shape
  OBVIOUS
<1>1. Queue!IInv
  BY SameQueueSteps, QueueConstants, Queue!InitEstablishes DEF Init
<1>2. batch = <<>>
  BY DEF Init, Buf!Init
<1>3. writer = [t \in Threads |-> Disk!IdleWriter] /\ up = Disk!IdleUploader
  BY DEF Init, Threads
<1>4. \A t \in Threads : writer[t] \in Files!Writer /\ writer[t].pc = "idle" /\ writer[t].objs = <<>>
  BY <1>3, Idle
<1>5. <<>> \in Seq(Object)
  OBVIOUS
<1>6. Files!Typed
  BY <1>3, <1>4, Idle DEF Init, Files!Typed, Files!TypeOK, Files!InBatch, Files!Holding, Threads
<1>7. Files!Kept
  BY <1>3, Idle DEF Init, Files!Kept, Files!NothingVanishes, Files!DeletesStored
<1>8. Control
  BY <1>2, <1>5, LoggerAssumption DEF Init, Control, Lives, Phases
<1>9. Calls
  BY <1>4 DEF Init, Calls, Threads
<1> QED
  BY <1>1, <1>6, <1>7, <1>8, <1>9 DEF Shape, SpoolOK

\* Where the spool stands still.
LEMMA SpoolStands ==
  ASSUME SpoolOK, UNCHANGED diskVars, life' # "down" <=> life # "down"
  PROVE  SpoolOK'
BY DEF diskVars, SpoolOK, Files!Typed, Files!TypeOK, Files!InBatch,
       Files!Kept, Files!NothingVanishes, Files!DeletesStored

\* The queue's own part is known; this is the rest of the step.
LEMMA ShapeNext ==
  ASSUME Shape, [Next]_vars
  PROVE  Shape'
<1>0. Queue!IInv'
  BY QueueStep, QueueConstants, Queue!NextPreserves DEF Shape
<1>a. SpoolOK /\ Control /\ Calls /\ Queue!IInv
  BY DEF Shape
<1>b. FlushThread \in Threads
  BY DEF FlushThread, Threads
<1>c. DirectInFlight \in SUBSET Object
  BY <1>a, DirectHead
<1>d. <<>> \in Seq(Object)
  OBVIOUS
<1> SUFFICES SpoolOK' /\ Control' /\ Calls'
  BY <1>0 DEF Shape
<1>1. CASE Capture
  <2>1. UNCHANGED <<diskVars, life, phase, direct, ends, batch>>
    BY <1>1 DEF Capture, Buf!Receive
  <2>2. SpoolOK'
    BY <1>a, <2>1, SpoolStands
  <2> QED
    BY <1>a, <2>1, <2>2 DEF Control, Calls, FlushThread, diskVars
<1>2. CASE BeginFlush
  <2>1. /\ UNCHANGED <<diskVars, life, direct, ends>> /\ phase = "none" /\ phase' = "objects"
        /\ life \in {"running", "flushing"} /\ batch' # <<>>
    BY <1>2 DEF BeginFlush, Buf!TakeBuffer
  <2>2. SpoolOK'
    BY <1>a, <2>1, SpoolStands
  <2> QED
    BY <1>a, <2>1, <2>2 DEF Control, Calls, FlushThread, diskVars, Phases
<1>3. CASE NothingToFlush
  <2>1. /\ UNCHANGED <<diskVars, batch, ends>> /\ phase = "none" /\ phase' = "none"
        /\ direct' = <<>> /\ life = "flushing" /\ life' = "draining"
    BY <1>3 DEF NothingToFlush, FlushReturns, bufVars
  <2>2. SpoolOK'
    BY <1>a, <2>1, SpoolStands
  <2> QED
    BY <1>a, <1>d, <2>1, <2>2 DEF Control, Calls, FlushThread, diskVars, Lives
<1>4. CASE BeginWrite
  <2>1. /\ UNCHANGED <<batch, life, direct, ends>> /\ phase = "objects" /\ phase' = "writing"
        /\ Disk!Submit(FlushThread, DayRuns(batch))
    BY <1>4 DEF BeginWrite, bufVars
  <2>2. DayRuns(batch) \in Seq(Object)
    BY <1>a, <2>1, BatchRuns DEF Control
  <2>3. /\ SpoolOK' /\ writer'[FlushThread].pc = "next"
        /\ writer'[FlushThread].objs = DayRuns(batch)
        /\ \A s \in Threads \ {FlushThread} : writer'[s] = writer[s]
    BY <1>a, <1>b, <2>1, <2>2, Submitting
  <2>4. Control'
    BY <1>a, <2>1 DEF Control, Phases
  <2>5. life \in {"running", "flushing"} /\ FlushThread' = FlushThread
    BY <1>a, <2>1 DEF Control, FlushThread
  <2>6. DayRuns(batch)' = DayRuns(batch)
    BY <2>1
  <2> QED
    BY <1>a, <2>1, <2>3, <2>4, <2>5, <2>6 DEF Calls, FlushThread, Threads
<1>5. CASE Spooled
  <2>1. /\ phase = "writing" /\ FlushReturns /\ batch' = <<>> /\ ends' = ends
        /\ Disk!Collect(FlushThread)
    BY <1>5 DEF Spooled, Buf!PlaceBatch
  <2>2. /\ Control' /\ phase' = "none"
        /\ (life = "running" /\ life' = "running") \/ (life = "flushing" /\ life' = "draining")
    BY <1>a, <2>1, ReturnKeepsControl
  <2>3. /\ SpoolOK' /\ writer'[FlushThread].pc = "idle" /\ writer'[FlushThread].objs = <<>>
        /\ \A s \in Threads \ {FlushThread} : writer'[s] = writer[s]
    BY <1>a, <1>b, <2>1, Collecting
  <2> QED
    BY <1>a, <2>1, <2>2, <2>3 DEF Calls, FlushThread, Threads
<1>6. CASE SpoolRefused
  <2>1. /\ phase = "writing" /\ phase' = "direct" /\ direct' = writer[FlushThread].objs
        /\ UNCHANGED <<batch, life, ends>> /\ Disk!Collect(FlushThread)
    BY <1>6 DEF SpoolRefused, bufVars
  <2>2. direct' \in Seq(Object) /\ direct' # <<>>
    BY <1>a, <2>1, BatchRuns DEF Control, Calls
  <2>3. /\ SpoolOK' /\ writer'[FlushThread].pc = "idle" /\ writer'[FlushThread].objs = <<>>
        /\ \A s \in Threads \ {FlushThread} : writer'[s] = writer[s]
    BY <1>a, <1>b, <2>1, Collecting
  <2>4. Control'
    BY <1>a, <2>1, <2>2 DEF Control, Phases
  <2>5. life \in {"running", "flushing"}
    BY <1>a, <2>1 DEF Control
  <2> QED
    BY <1>a, <2>1, <2>3, <2>4, <2>5 DEF Calls, FlushThread, Threads
<1>7. CASE DirectPut
  <2>1. phase = "direct" /\ Disk!DirectPutOk(Head(direct)) /\ ends' = ends
    BY <1>7 DEF DirectPut
  <2>2. Head(direct) \in Object /\ Tail(direct) \in Seq(Object)
    BY <1>a, <2>1, DirectHead
  <2>3. SpoolOK' /\ writer' = writer
    BY <1>a, <2>1, <2>2, PuttingDirectly
  <2>4. CASE Tail(direct) # <<>>
    <3>1. direct' = Tail(direct) /\ UNCHANGED <<batch, life, phase>>
      BY <1>7, <2>4 DEF DirectPut, bufVars
    <3> QED
      BY <1>a, <2>1, <2>2, <2>3, <2>4, <3>1 DEF Control, Calls, FlushThread
  <2>5. CASE Tail(direct) = <<>>
    <3>1. FlushReturns /\ batch' = <<>>
      BY <1>7, <2>5 DEF DirectPut, Buf!PlaceBatch
    <3>2. /\ Control' /\ phase' = "none"
          /\ (life = "running" /\ life' = "running") \/ (life = "flushing" /\ life' = "draining")
      BY <1>a, <2>1, <3>1, ReturnKeepsControl
    <3> QED
      BY <1>a, <2>1, <2>3, <3>2 DEF Calls
  <2> QED
    BY <2>4, <2>5
<1>8. CASE DirectPutFails
  <2>1. /\ phase = "direct" /\ FlushReturns /\ batch' = <<>> /\ ends' = ends
        /\ Disk!DirectPutFails(Head(direct))
    BY <1>8 DEF DirectPutFails, Buf!ReturnBuffer
  <2>2. Head(direct) \in Object
    BY <1>a, <2>1, DirectHead
  <2>3. SpoolOK' /\ writer' = writer
    BY <1>a, <2>1, <2>2, PuttingDirectly
  <2>4. /\ Control' /\ phase' = "none"
        /\ (life = "running" /\ life' = "running") \/ (life = "flushing" /\ life' = "draining")
    BY <1>a, <2>1, ReturnKeepsControl
  <2> QED
    BY <1>a, <2>1, <2>3, <2>4 DEF Calls
<1>9. CASE \E t \in Threads : WriterStep(t)
  <2> PICK t \in Threads : WriterStep(t)
    BY <1>9
  <2>1. UNCHANGED <<batch, life, phase, direct, ends>> /\ Disk!WriterStep(t)
    BY DEF WriterStep, SpoolOnly, bufVars
  <2>2. /\ SpoolOK' /\ Files!CallStep(writer[t], writer'[t]) /\ writer'[t].objs = writer[t].objs
        /\ \A s \in Threads \ {t} : writer'[s] = writer[s]
    BY <1>a, <2>1, Writing
  <2>3. writer[t].pc # "idle" /\ writer'[t].pc # "idle"
    BY <2>2 DEF Files!CallStep, Files!Works, Files!Skips, Files!Renames, Files!Finishes,
                Files!Syncs, Files!Refuses, Files!Holding
  <2>4. Control'
    BY <1>a, <2>1 DEF Control
  <2>5. FlushThread' = FlushThread /\ DayRuns(batch)' = DayRuns(batch)
    BY <2>1 DEF FlushThread
  <2> QED
    BY <1>a, <1>b, <2>1, <2>2, <2>3, <2>4, <2>5 DEF Calls, Threads
<1>10. CASE BeginPass \/ UploadStep \/ LatePut \/ JournalCommit \/ BeginLastPass \/ Start
  <2>1. UNCHANGED <<batch, phase, direct, ends>> /\ Uploads({})
    BY <1>10 DEF BeginPass, UploadStep, LatePut, JournalCommit, BeginLastPass, Start, SpoolOnly,
                 bufVars, Uploads
  <2>2. SpoolOK' /\ writer' = writer
    BY <1>a, <2>1, Uploading
  <2>3. \/ life' = life
        \/ life = "draining" /\ life' = "uploading"
        \/ life = "down" /\ life' = "running"
    BY <1>10 DEF BeginPass, UploadStep, LatePut, JournalCommit, BeginLastPass, Start, SpoolOnly
  <2>4. Control'
    BY <1>a, <2>1, <2>3 DEF Control, Lives
  <2>5. DayRuns(batch)' = DayRuns(batch)
    BY <2>1
  <2> QED
    BY <1>a, <2>1, <2>2, <2>3, <2>4, <2>5 DEF Calls, Control, FlushThread
<1>11. CASE ends < MaxEnds /\ Shutdown
  <2>1. /\ life = "running" /\ life' = "flushing" /\ phase' = "none" /\ direct' = <<>>
        /\ ends' = ends /\ ends < MaxEnds /\ batch' = <<>> /\ Uploads(DirectInFlight)
    BY <1>11 DEF Shutdown, Buf!CancelFlush, bufVars, Uploads
  <2>2. SpoolOK' /\ writer' = writer
    BY <1>a, <1>c, <2>1, Uploading
  <2>3. Control'
    BY <1>a, <1>d, <2>1 DEF Control, Lives, Phases
  <2> QED
    BY <1>a, <2>1, <2>2, <2>3 DEF Calls
<1>12. CASE ResultDiscarded
  <2>1. /\ UNCHANGED <<batch, life, phase, direct, ends>> /\ life # "running" /\ Disk!Collect("loop")
    BY <1>12 DEF ResultDiscarded, SpoolOnly, bufVars
  <2>2. /\ SpoolOK' /\ writer'["loop"].pc = "idle" /\ writer'["loop"].objs = <<>>
        /\ writer'["stop"] = writer["stop"]
    BY <1>a, <2>1, Collecting DEF Threads
  <2>3. Control' /\ FlushThread = "stop" /\ FlushThread' = "stop" /\ DayRuns(batch)' = DayRuns(batch)
    BY <1>a, <2>1 DEF Control, FlushThread
  <2> QED
    BY <1>a, <2>1, <2>2, <2>3 DEF Calls, Threads
<1>13. CASE StopReturns
  <2>1. /\ UNCHANGED <<diskVars, batch, phase, direct, ends>>
        /\ life = "uploading" /\ life' = "exiting"
    BY <1>13 DEF StopReturns, bufVars
  <2>2. SpoolOK'
    BY <1>a, <2>1, SpoolStands
  <2> QED
    BY <1>a, <2>1, <2>2 DEF Control, Calls, diskVars, Lives
<1>14. CASE Exit
  <2>1. /\ life = "exiting" /\ life' = "down" /\ batch' = <<>> /\ ends' = ends + 1
        /\ UNCHANGED <<phase, direct>> /\ Disk!ProcessEnds({})
    BY <1>14 DEF Exit, Buf!ProcessEnds
  <2>2. SpoolOK' /\ \A t \in Threads : writer'[t].pc = "idle" /\ writer'[t].objs = <<>>
    BY <1>a, <2>1, Ending
  <2>3. phase = "none" /\ direct = <<>> /\ ends + 1 \in 0..MaxEnds
    BY <1>a, <2>1, LoggerAssumption DEF Control
  <2>4. Control'
    BY <1>d, <2>1, <2>3 DEF Control, Lives, Phases
  <2> QED
    BY <2>1, <2>2, <2>3, <2>4 DEF Calls, Threads
<1>15. CASE Kill \/ PowerCut
  <2>1. /\ ends < MaxEnds /\ life' = "down" /\ phase' = "none" /\ direct' = <<>>
        /\ ends' = ends + 1 /\ batch' = <<>>
        /\ Disk!PowerCut(DirectInFlight) \/ Disk!ProcessEnds(DirectInFlight)
    BY <1>15 DEF Kill, PowerCut, Buf!ProcessEnds
  <2>2. SpoolOK' /\ \A t \in Threads : writer'[t].pc = "idle" /\ writer'[t].objs = <<>>
    BY <1>a, <1>c, <2>1, Ending
  <2>3. ends + 1 \in 0..MaxEnds
    BY <1>a, <2>1, LoggerAssumption DEF Control
  <2>4. Control'
    BY <1>d, <2>1, <2>3 DEF Control, Lives, Phases
  <2> QED
    BY <2>1, <2>2, <2>4 DEF Calls, Threads
<1>16. CASE UNCHANGED vars
  <2>1. UNCHANGED <<diskVars, batch, life, phase, direct, ends>>
    BY <1>16 DEF vars, bufVars
  <2>2. SpoolOK'
    BY <1>a, <2>1, SpoolStands
  <2> QED
    BY <1>a, <2>1, <2>2 DEF Control, Calls, FlushThread, diskVars
<1> QED
  BY <1>1, <1>2, <1>3, <1>4, <1>5, <1>6, <1>7, <1>8, <1>9, <1>10, <1>11, <1>12, <1>13, <1>14, <1>15,
     <1>16 DEF Next, FlushStep, StopStep, Threads

LEMMA ShapeHolds == Spec => []Shape
BY ShapeInit, ShapeNext, PTL DEF Spec

(* The state keeps its shape, and the flush and what it holds agree: a     *)
(* batch is in hand exactly between the take and the return of a flush,    *)
(* and the objects of a direct upload exactly while it awaits one.         *)
THEOREM LoggerTypes == Spec => []TypeOK
<1>1. Shape => TypeOK
  <2>1. Queue!TypeOK => Buf!TypeOK
    BY DEF Queue!TypeOK, Buf!TypeOK
  <2>2. Files!TypeOK => Disk!TypeOK
    BY DEF Files!TypeOK, Disk!TypeOK, Files!Writer, Disk!Writer, Files!Uploader, Disk!Uploader,
           Files!WriterPc, Disk!WriterPc, Files!UploaderPc, Disk!UploaderPc
  <2> QED
    BY <2>1, <2>2 DEF Shape, Queue!IInv, SpoolOK, Files!Typed, Control, TypeOK
<1> QED
  BY <1>1, ShapeHolds, PTL

=============================================================================
