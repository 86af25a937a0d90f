------------------------- MODULE LoggerSafetyProofs -------------------------
(***************************************************************************)
(* What the logger loses and what it does not, for every number of frames, *)
(* all clocks, both caps and any number of process ends; that it           *)
(* implements Custody; and that with one day to a session, no failing      *)
(* fsync and no lost answer it stores no frame twice.                      *)
(***************************************************************************)
EXTENDS LoggerProofs

\* What nothing but a power cut takes away, and what not even that does.  On a
\* machine whose fsync can fail the second is claimed of the files themselves,
\* and the theorem then excludes the power cut.
Safe == visible \cup s3 \cup evicted
Firm == (IF "fsync" \in Faults THEN visible ELSE durable) \cup s3 \cup evicted

Newest(q) == q[Len(q)]

\* No file, seen or committed, has f in it.
Unfiled(f) == \A o \in visible \cup durable : f \notin o

PastLast(w) == w.i > Len(w.objs)

FilesAreOld == \A o \in visible \cup durable : o \subseteq 1..rx

DurableIsSafe == durable \subseteq Safe

\* After a shutdown the loop's thread works on what the flush abandoned.
Orphaned == life # "running" => UNION Range(writer["loop"].objs) \subseteq abandoned

\* What a call of _write_spool has seen to so far.
Done(w) ==
  /\ w.pc = "false" => w.i = 1
  /\ w.pc # "false" => \A k \in 1..Len(w.objs) : k < w.i => w.objs[k] \in Safe
  /\ w.pc \in {"sync", "true"} => PastLast(w)
  /\ w.pc = "true" => Range(w.objs) \subseteq Firm
  /\ "fsync" \notin Faults /\ PastLast(w) => w.renamed

CallKeeps == phase = "writing" => Done(writer[FlushThread])

\* The newest frame that is queued has never been in a file: a batch that comes
\* back has an object that must be renamed again, and the call that does so
\* ends with an fsync, which also commits what an earlier call renamed.
Fresh ==
  "fsync" \notin Faults =>
    /\ buffer # <<>> => Unfiled(Newest(buffer))
    /\ batch # <<>> /\ ~(phase = "writing" /\ PastLast(writer[FlushThread])) => Unfiled(Newest(batch))

DirectHolds == phase = "direct" => Range(batch) \subseteq (UNION Range(direct)) \cup (UNION s3)

PlacedIsFirm == placed \subseteq UNION Firm

Trusted == "power" \notin Faults \/ "fsync" \notin Faults

\* What holds whatever may fail, and what is kept besides on a machine that
\* does not both lose power and fail to sync.
Filing == Shape /\ FilesAreOld /\ DurableIsSafe /\ Orphaned
Keeping == Filing /\ CallKeeps /\ Fresh /\ DirectHolds /\ PlacedIsFirm

----------------------------------------------------------------------------
(* Kinds of steps *)

\* The queue is left alone, the files lose only what is stored.
Shrinks ==
  /\ visible' \subseteq visible /\ visible \subseteq visible' \cup s3 /\ evicted' = evicted
  /\ durable' = durable \/ (durable' = visible /\ visible' = visible)
  /\ s3 \subseteq s3'

Behind ==
  /\ UNCHANGED <<bufVars, writer, phase, direct>>
  /\ Shrinks
  /\ phase = "writing" => life' = life
  /\ life' # "running" => life # "running"

LEMMA StepsBehind ==
  ASSUME Shape,
         \/ BeginPass \/ UploadStep \/ LatePut \/ JournalCommit \/ BeginLastPass \/ Start
         \/ NothingToFlush \/ StopReturns \/ UNCHANGED vars
  PROVE  Behind
<1>a. SpoolOK /\ Control
  BY DEF Shape
<1>1. CASE BeginPass \/ UploadStep \/ LatePut \/ JournalCommit \/ BeginLastPass \/ Start
  <2>1. UNCHANGED <<bufVars, phase, direct>> /\ Uploads({})
    BY <1>1 DEF BeginPass, UploadStep, LatePut, JournalCommit, BeginLastPass, Start, SpoolOnly,
                 Uploads
  <2>2. writer' = writer /\ Shrinks
    BY <1>a, <2>1, Uploading DEF Shrinks
  <2>3. \/ life' = life
        \/ life = "draining" /\ life' = "uploading"
        \/ life = "down" /\ life' = "running"
    BY <1>1 DEF BeginPass, UploadStep, LatePut, JournalCommit, BeginLastPass, Start, SpoolOnly
  <2> QED
    BY <1>a, <2>1, <2>2, <2>3 DEF Behind, Control
<1>2. CASE NothingToFlush \/ StopReturns \/ UNCHANGED vars
  <2>1. UNCHANGED <<bufVars, diskVars, phase>>
    BY <1>2 DEF NothingToFlush, StopReturns, vars, FlushReturns
  <2>2. UNCHANGED direct
    BY <1>a, <1>2 DEF NothingToFlush, StopReturns, vars, FlushReturns, Control
  <2>3. \/ life' = life
        \/ life = "flushing" /\ life' = "draining" /\ phase = "none"
        \/ life = "uploading" /\ life' = "exiting"
    BY <1>2 DEF NothingToFlush, StopReturns, vars, FlushReturns
  <2> QED
    BY <1>a, <2>1, <2>2, <2>3 DEF Behind, Control, Shrinks, diskVars
<1> QED
  BY <1>1, <1>2

\* What any step does to what is stored, and to the files.
LEMMA FilesStep ==
  ASSUME Shape, [Next]_vars, DurableIsSafe
  PROVE  /\ s3 \subseteq s3' /\ evicted \subseteq evicted'
         /\ Trusted => Firm \subseteq Firm'
         /\ DurableIsSafe'
         /\ Safe \subseteq Safe' \/ life' = "down"
         /\ \/ visible' \cup durable' \subseteq visible \cup durable
            \/ \E t \in Threads : WriterStep(t)
<1>a. SpoolOK /\ Control
  BY DEF Shape
<1>b. FlushThread \in Threads
  BY DEF FlushThread, Threads
<1>1. CASE /\ UNCHANGED <<visible, durable, evicted>> /\ s3 \subseteq s3'
  BY <1>1 DEF Safe, Firm, DurableIsSafe
<1>2. CASE Shrinks
  BY <1>2 DEF Shrinks, Safe, Firm, DurableIsSafe
<1>3. CASE \E t \in Threads : WriterStep(t)
  <2> PICK t \in Threads : WriterStep(t)
    BY <1>3
  <2>1. Disk!WriterStep(t)
    BY DEF WriterStep
  <2>2. /\ Files!CallStep(writer[t], writer'[t]) /\ s3' = s3
        /\ visible \subseteq visible' \cup evicted' /\ evicted \subseteq evicted'
    BY <1>a, <2>1, Writing
  <2>3. durable' = durable \/ durable' = visible' 
    BY <2>2 DEF Files!CallStep
  <2>4. durable' # durable => visible' = visible
    BY <2>2 DEF Files!CallStep
  <2> QED
    BY <2>2, <2>3, <2>4 DEF Safe, Firm, DurableIsSafe
<1>4. CASE Exit \/ Kill \/ PowerCut
  <2>1. /\ life' = "down"
        /\ \/ Disk!PowerCut(DirectInFlight) \/ Disk!ProcessEnds(DirectInFlight)
           \/ Disk!ProcessEnds({})
    BY <1>4 DEF Exit, Kill, PowerCut
  <2>2. DirectInFlight \in SUBSET Object /\ {} \in SUBSET Object
    BY <1>a, DirectHead
  <2>3. /\ UNCHANGED <<durable, evicted>> /\ s3 \subseteq s3'
        /\ visible' = visible \/ ("power" \in Faults /\ visible' = durable)
    BY <1>a, <2>1, <2>2, Ending
  <2> QED
    BY <2>1, <2>3 DEF Safe, Firm, DurableIsSafe, Trusted
<1>5. CASE BeginWrite \/ Spooled \/ SpoolRefused \/ ResultDiscarded
  <2>1. \/ \E t \in Threads : Disk!Collect(t)
        \/ \E t \in Threads : \E objs : Disk!Submit(t, objs)
    BY <1>b, <1>5 DEF BeginWrite, Spooled, SpoolRefused, ResultDiscarded, Threads
  <2>2. UNCHANGED <<visible, durable, evicted, s3>>
    BY <2>1 DEF Disk!Collect, Disk!Submit, Disk!FilesUnchanged, Disk!diskVars, Disk!history
  <2> QED
    BY <1>1, <2>2
<1>6. CASE Capture \/ BeginFlush
  BY <1>1, <1>6 DEF Capture, BeginFlush, diskVars
<1>7. CASE DirectPut \/ DirectPutFails
  <2>1. Disk!DirectPutOk(Head(direct)) \/ Disk!DirectPutFails(Head(direct))
    BY <1>7 DEF DirectPut, DirectPutFails
  <2>2. Head(direct) \in Object
    BY <1>a, <1>7, DirectHead DEF DirectPut, DirectPutFails
  <2> QED
    BY <1>a, <1>1, <2>1, <2>2, PuttingDirectly
<1>8. CASE Shutdown
  <2>1. DirectInFlight \in SUBSET Object /\ Uploads(DirectInFlight)
    BY <1>a, <1>8, DirectHead DEF Shutdown, Uploads
  <2>2. Shrinks
    BY <1>a, <2>1, Uploading DEF Shrinks
  <2> QED
    BY <1>2, <2>2
<1>9. CASE \/ BeginPass \/ UploadStep \/ LatePut \/ JournalCommit \/ BeginLastPass \/ Start
           \/ NothingToFlush \/ StopReturns \/ UNCHANGED vars
  BY <1>2, <1>9, StepsBehind DEF Behind
<1> QED
  BY <1>3, <1>4, <1>5, <1>6, <1>7, <1>8, <1>9 DEF Next, FlushStep, StopStep, Threads

----------------------------------------------------------------------------
(* The queue *)

LEMMA QueueSets ==
  ASSUME Queue!IInv
  PROVE  /\ rx \in Nat /\ Range(buffer) \cup Range(batch) \cup placed \cup abandoned \subseteq 1..rx
         /\ buffer \in Seq(1..rx) /\ batch \in Seq(1..rx)
         /\ Range(buffer) \cap (Range(batch) \cup abandoned) = {}
         /\ Range(batch) \cap abandoned = {}
         /\ buffer # <<>> => Newest(buffer) \in Range(buffer)
         /\ batch # <<>> => Newest(batch) \in Range(batch)
<1>1. rx \in Nat /\ buffer \in Seq(1..rx) /\ batch \in Seq(1..rx)
  BY LoggerAssumption DEF Queue!IInv, Queue!TypeOK
<1>2. Range(buffer) = Queue!Range(buffer) /\ Range(batch) = Queue!Range(batch)
  BY DEF Range, Queue!Range
<1>3. /\ Range(buffer) \cup Range(batch) \cup placed \cup abandoned \subseteq 1..rx
      /\ Range(buffer) \cap (Range(batch) \cup abandoned) = {}
      /\ Range(batch) \cap abandoned = {}
  BY <1>2 DEF Queue!IInv, Queue!Partition, Queue!SixWay
<1>4. ASSUME NEW q \in Seq(1..rx), q # <<>> PROVE Newest(q) \in Range(q)
  <2>1. Len(q) \in Nat \ {0} /\ DOMAIN q = 1..Len(q)
    BY <1>4, LenProperties, EmptySeq
  <2> QED
    BY <2>1 DEF Newest, Range
<1> QED
  BY <1>1, <1>3, <1>4

LEMMA QueueGrows ==
  ASSUME Queue!IInv, [Next]_vars
  PROVE  rx' \in Nat /\ rx <= rx' /\ abandoned \subseteq abandoned'
<1>1. rx \in Nat
  BY QueueSets
<1>2. CASE Queue!Next
  BY <1>1, <1>2 DEF Queue!Next, Queue!Receive, Queue!TakeBuffer, Queue!PlaceBatch, Queue!ReturnBuffer,
                    Queue!CancelFlush, Queue!ProcessEnds, Queue!ledgers
<1>3. CASE UNCHANGED Queue!vars
  BY <1>1, <1>3 DEF Queue!vars, Queue!bufVars, Queue!ledgers
<1> QED
  BY <1>2, <1>3, QueueStep

\* What is left after a trim ends as the queue did.
LEMMA TrimKeepsNewest ==
  ASSUME NEW S, NEW q \in Seq(S), NEW bytes, Buf!Trim(q, bytes), buffer' # <<>>
  PROVE  Newest(buffer') = Newest(q) /\ q # <<>>
<1>1. PICK k \in 0..Len(q) : buffer' = SubSeq(q, k + 1, Len(q))
  BY DEF Buf!Trim
<1>2. Len(q) \in Nat /\ k \in Nat /\ k <= Len(q)
  BY LenProperties
<1>3. k # Len(q)
  BY <1>1, <1>2, SubSeqEmpty
<1>4. Len(buffer') = Len(q) - k /\ \A i \in 1..(Len(q) - k) : buffer'[i] = q[k + i]
  <2>1. k + 1 \in 1..(Len(q) + 1) /\ Len(q) \in k..Len(q)
    BY <1>2
  <2>2. SubSeq(q, k + 1, Len(q)) = [i \in 1..(Len(q) - k) |-> q[k + i]]
    BY <1>2, Z3
  <2> QED
    BY <1>1, <1>2, <1>3, <2>2
<1>5. Len(q) - k \in 1..(Len(q) - k) /\ k + (Len(q) - k) = Len(q)
  BY <1>2, <1>3
<1> QED
  BY <1>2, <1>3, <1>4, <1>5, EmptySeq DEF Newest

LEMMA NewestReceived ==
  ASSUME Queue!IInv, Buf!Receive, buffer' # <<>>
  PROVE  Newest(buffer') = rx + 1
<1>1. rx \in Nat /\ buffer \in Seq(1..rx)
  BY QueueSets
<1>2. buffer \in Seq(Nat) /\ rx + 1 \in Nat
  <2>1. 1..rx \subseteq Nat
    BY <1>1
  <2> QED
    BY <1>1, <2>1
<1>3. /\ Append(buffer, rx + 1) \in Seq(Nat)
      /\ Newest(Append(buffer, rx + 1)) = rx + 1
  BY <1>2 DEF Newest
<1> QED
  BY <1>3, TrimKeepsNewest DEF Buf!Receive

LEMMA NewestReturned ==
  ASSUME Queue!IInv, Buf!ReturnBuffer, buffer' # <<>>
  PROVE  Newest(buffer') = IF buffer = <<>> THEN Newest(batch) ELSE Newest(buffer)
<1>1. buffer \in Seq(1..rx) /\ batch \in Seq(1..rx)
  BY QueueSets
<1>2. batch \o buffer \in Seq(1..rx)
  BY <1>1
<1>3. Newest(buffer') = Newest(batch \o buffer)
  BY <1>2, TrimKeepsNewest DEF Buf!ReturnBuffer
<1>4. CASE buffer = <<>>
  BY <1>1, <1>3, <1>4, ConcatEmptySeq
<1>5. CASE buffer # <<>>
  <2>1. /\ Len(batch) \in Nat /\ Len(buffer) \in Nat \ {0}
        /\ Len(batch \o buffer) = Len(batch) + Len(buffer)
    BY <1>1, <1>5, LenProperties, EmptySeq
  <2>2. (batch \o buffer)[Len(batch) + Len(buffer)] = buffer[Len(buffer)]
    BY <1>1, <2>1
  <2> QED
    BY <1>3, <1>5, <2>1, <2>2 DEF Newest
<1> QED
  BY <1>4, <1>5

\* A thread works on the batch, or on what a shutdown abandoned.
LEMMA ObjectsOf ==
  ASSUME Shape, Orphaned, NEW t \in Threads
  PROVE  /\ UNION Range(writer[t].objs) \subseteq Range(batch) \cup abandoned
         /\ ~(phase = "writing" /\ t = FlushThread) => UNION Range(writer[t].objs) \subseteq abandoned
<1>1. Range(<<>>) = {}
  BY DEF Range
<1>2. CASE phase = "writing" /\ t = FlushThread
  <2>1. batch # <<>> /\ writer[t].objs = DayRuns(batch)
    BY <1>2 DEF Shape, Control, Calls
  <2> QED
    BY <1>2, <2>1, BatchRuns DEF Shape
<1>3. CASE ~(phase = "writing" /\ t = FlushThread)
  <2>1. CASE t = "loop"
    <3>1. CASE life = "running"
      BY <1>1, <1>3, <2>1, <3>1 DEF Shape, Calls, FlushThread
    <3>2. CASE life # "running"
      BY <2>1, <3>2 DEF Orphaned
    <3> QED
      BY <3>1, <3>2
  <2>2. CASE t = "stop"
    BY <1>1, <1>3, <2>2 DEF Shape, Calls, FlushThread
  <2> QED
    BY <2>1, <2>2 DEF Threads
<1> QED
  BY <1>2, <1>3

----------------------------------------------------------------------------
(* The call of the current flush *)

LEMMA DoneAdvances ==
  ASSUME Keeping, phase = "writing", NEW t \in Threads, t = FlushThread,
         Files!CallStep(writer[t], writer'[t]), writer'[t].objs = writer[t].objs,
         visible \subseteq visible' \cup evicted', evicted \subseteq evicted', s3' = s3,
         Firm \subseteq Firm'
  PROVE  Done(writer[t])'
<1> DEFINE w == writer[t]
           x == writer'[t]
           n == Len(w.objs)
<1>a. /\ SpoolOK /\ Done(w) /\ w.objs = DayRuns(batch) /\ batch # <<>>
      /\ n \in Nat \ {0} /\ DOMAIN w.objs = 1..n
      /\ w.i \in Nat \ {0}
  <2>1. SpoolOK /\ Done(w) /\ w.objs = DayRuns(batch) /\ batch # <<>>
    BY DEF Keeping, Filing, Shape, Control, Calls, CallKeeps
  <2>2. DayRuns(batch) \in Seq(Object) /\ Len(DayRuns(batch)) \in Nat \ {0}
    BY <2>1, BatchRuns DEF Keeping, Filing, Shape
  <2>3. DOMAIN DayRuns(batch) = 1..Len(DayRuns(batch))
    BY <2>2, LenProperties
  <2> QED
    BY <2>1, <2>2, <2>3, SpoolSets
<1>b. Safe \subseteq Safe'
  BY DEF Safe
\* The last object cannot have been there already.
<1>c. "fsync" \notin Faults /\ w.i = n => w.objs[n] \notin visible
  <2> SUFFICES ASSUME "fsync" \notin Faults, w.i = n, w.objs[n] \in visible PROVE FALSE
    OBVIOUS
  <2>1. ~PastLast(w)
    BY <1>a DEF PastLast
  <2>2. Unfiled(Newest(batch))
    BY <1>a, <2>1 DEF Keeping, Fresh
  <2>3. Newest(batch) \in w.objs[n]
    BY <1>a, BatchRuns DEF Newest, Keeping, Filing, Shape
  <2> QED
    BY <2>2, <2>3 DEF Unfiled
<1>d. x.objs = w.objs
  OBVIOUS
<1> DEFINE Seen(y) == \A k \in 1..n : k < y.i => w.objs[k] \in Safe'
           Renamed(y) == "fsync" \notin Faults /\ y.i > n => y.renamed
           Next1(y) == /\ y.pc = "false" => y.i = 1
                       /\ y.pc # "false" => Seen(y)
                       /\ y.pc \in {"sync", "true"} => y.i > n
                       /\ y.pc = "true" => Range(w.objs) \subseteq Firm'
                       /\ Renamed(y)
<1>e. w.pc # "false" => Seen(w)
  BY <1>a, <1>b DEF Done
<1>f. Renamed(w)
  BY <1>a DEF Done, PastLast
<1> SUFFICES Next1(x)
  BY <1>d DEF Done, PastLast
<1>1. CASE Files!Works(w, x) /\ visible' \subseteq visible /\ durable' = durable
  <2>1. /\ w.pc # "false" /\ x.i = w.i /\ x.renamed = w.renamed
        /\ x.pc \notin {"false", "sync", "true"}
    BY <1>1 DEF Files!Works, Files!Holding
  <2> QED
    BY <1>e, <1>f, <2>1
<1>2. CASE Files!Skips(w, x) /\ UNCHANGED <<visible, durable>> /\ w.objs[w.i] \in visible
  <2>1. /\ w.pc = "next" /\ x.pc = "next" /\ x.i = w.i + 1 /\ x.renamed = w.renamed
        /\ w.i \in 1..n
    BY <1>2 DEF Files!Skips
  <2>2. w.objs[w.i] \in Safe'
    BY <1>2 DEF Safe
  <2>3. Seen(x)
    BY <1>a, <1>e, <2>1, <2>2
  <2>4. Renamed(x)
    BY <1>a, <1>c, <1>2, <2>1
  <2> QED
    BY <2>1, <2>3, <2>4
<1>3. CASE Files!Renames(w, x) /\ visible' = visible \cup {w.objs[w.i]} /\ durable' = durable
  <2>1. /\ w.pc = "rename" /\ x.pc = "next" /\ x.i = w.i + 1 /\ x.renamed = TRUE
        /\ w.i \in 1..n
    BY <1>3 DEF Files!Renames
  <2>2. w.objs[w.i] \in Safe'
    BY <1>3 DEF Safe
  <2>3. Seen(x)
    BY <1>a, <1>e, <2>1, <2>2
  <2> QED
    BY <2>1, <2>3
<1>4. CASE Files!Finishes(w, x) /\ UNCHANGED <<visible, durable>>
  <2>1. /\ w.pc = "next" /\ x.pc = IF w.renamed THEN "sync" ELSE "true"
        /\ x.i = w.i /\ x.renamed = w.renamed /\ w.i > n
    BY <1>4 DEF Files!Finishes
  <2>2. \A k \in 1..n : w.objs[k] \in Safe
    BY <1>a, <2>1 DEF Done
  <2>3. x.pc = "true" => Range(w.objs) \subseteq Firm'
    <3>1. x.pc = "true" => "fsync" \in Faults
      BY <1>f, <2>1
    <3>2. "fsync" \in Faults => Safe = Firm
      BY DEF Safe, Firm
    <3> QED
      BY <1>a, <2>2, <3>1, <3>2 DEF Range
  <2> QED
    BY <1>e, <1>f, <2>1, <2>3
<1>5. CASE Files!Syncs(w, x) /\ visible' = visible /\ durable' = visible
  <2>1. w.pc = "sync" /\ x.pc = "true" /\ x.i = w.i /\ x.renamed = w.renamed
    BY <1>5 DEF Files!Syncs
  <2>2. \A k \in 1..n : w.objs[k] \in Safe
    BY <1>a, <2>1 DEF Done, PastLast
  <2>3. Safe \subseteq Firm'
    BY <1>5 DEF Safe, Firm
  <2>4. Range(w.objs) \subseteq Firm'
    BY <1>a, <2>2, <2>3 DEF Range
  <2>5. w.i > n
    BY <1>a, <2>1 DEF Done, PastLast
  <2> QED
    BY <1>e, <1>f, <2>1, <2>4, <2>5
<1>6. CASE Files!Refuses(w, x) /\ UNCHANGED <<visible, durable>>
  <2>1. x.pc = "false" /\ x.i = 1
    BY <1>6 DEF Files!Refuses
  <2> QED
    BY <1>a, <2>1
<1> QED
  BY <1>1, <1>2, <1>3, <1>4, <1>5, <1>6 DEF Files!CallStep

----------------------------------------------------------------------------
(* Each part of the invariant is kept *)

LEMMA KeepingInit == Init => Keeping
<1> SUFFICES ASSUME Init PROVE Keeping
  OBVIOUS
<1>1. Shape
  BY ShapeInit
<1>2. /\ visible = {} /\ durable = {} /\ life = "running" /\ phase = "none"
      /\ buffer = <<>> /\ batch = <<>> /\ placed = {}
  BY DEF Init, Buf!Init
<1> QED
  BY <1>1, <1>2 DEF Keeping, Filing, FilesAreOld, DurableIsSafe, Orphaned, CallKeeps, Fresh, DirectHolds,
                    PlacedIsFirm

\* What a thread adds to the files.
LEMMA RenameAdds ==
  ASSUME Shape, NEW t \in Threads, WriterStep(t)
  PROVE  /\ UNCHANGED <<bufVars, life, phase, direct, s3>>
         /\ Files!CallStep(writer[t], writer'[t]) /\ writer'[t].objs = writer[t].objs
         /\ \A s \in Threads \ {t} : writer'[s] = writer[s]
         /\ visible \subseteq visible' \cup evicted' /\ evicted \subseteq evicted'
         /\ \A o \in visible' \cup durable' :
              \/ o \in visible \cup durable
              \/ /\ writer[t].i \in 1..Len(writer[t].objs) /\ o = writer[t].objs[writer[t].i]
                 /\ o \in Range(writer[t].objs)
                 /\ writer'[t].i = writer[t].i + 1
<1> DEFINE w == writer[t]
           x == writer'[t]
<1>1. SpoolOK /\ Disk!WriterStep(t)
  BY DEF Shape, WriterStep
<1>2. UNCHANGED <<bufVars, life, phase, direct>>
  BY DEF WriterStep, SpoolOnly
<1>3. /\ Files!CallStep(w, x) /\ x.objs = w.objs
      /\ \A s \in Threads \ {t} : writer'[s] = writer[s]
      /\ visible \subseteq visible' \cup evicted' /\ evicted \subseteq evicted' /\ s3' = s3
  BY <1>1, Writing
<1>4. DOMAIN w.objs = 1..Len(w.objs)
  BY <1>1, SpoolSets, LenProperties
<1>5. CASE Files!Renames(w, x) /\ visible' = visible \cup {w.objs[w.i]} /\ durable' = durable
  BY <1>2, <1>3, <1>4, <1>5 DEF Files!Renames, Range
<1>6. CASE visible' \subseteq visible \cup durable /\ durable' \subseteq visible \cup durable
  BY <1>2, <1>3, <1>6
<1> QED
  BY <1>3, <1>5, <1>6 DEF Files!CallStep

LEMMA OldNext == ASSUME Filing, [Next]_vars PROVE FilesAreOld'
<1>a. Shape /\ Queue!IInv /\ FilesAreOld /\ Orphaned /\ DurableIsSafe
  BY DEF Keeping, Filing, Shape
<1>b. rx \in Nat /\ rx' \in Nat /\ rx <= rx'
  BY <1>a, QueueSets, QueueGrows
<1>c. 1..rx \subseteq 1..rx'
  BY <1>b
<1>1. CASE visible' \cup durable' \subseteq visible \cup durable
  BY <1>a, <1>c, <1>1 DEF FilesAreOld
<1>2. CASE \E t \in Threads : WriterStep(t)
  <2> PICK t \in Threads : WriterStep(t)
    BY <1>2
  <2>1. UNION Range(writer[t].objs) \subseteq 1..rx
    BY <1>a, ObjectsOf, QueueSets
  <2>2. \A o \in visible' \cup durable' : o \in visible \cup durable \/ o \in Range(writer[t].objs)
    BY <1>a, RenameAdds
  <2> QED
    BY <1>a, <1>c, <2>1, <2>2 DEF FilesAreOld
<1> QED
  BY <1>a, <1>1, <1>2, FilesStep

LEMMA OrphanNext == ASSUME Filing, [Next]_vars PROVE Orphaned'
<1>a. Shape /\ Queue!IInv /\ Orphaned /\ SpoolOK /\ Control /\ Calls
  BY DEF Keeping, Filing, Shape
<1>b. abandoned \subseteq abandoned'
  BY <1>a, QueueGrows
<1>c. Range(<<>>) = {}
  BY DEF Range
<1>d. "loop" \in Threads /\ FlushThread \in Threads
  BY DEF FlushThread, Threads
<1>1. CASE life' = "running"
  BY <1>1 DEF Orphaned
<1>2. CASE writer'["loop"].objs = writer["loop"].objs /\ life # "running"
  BY <1>a, <1>b, <1>2 DEF Orphaned
<1>3. CASE writer'["loop"].objs = <<>>
  BY <1>c, <1>3 DEF Orphaned
<1>4. CASE /\ life' = life
           /\ \/ \E t \in Threads : Disk!Collect(t)
              \/ \E objs : Disk!Submit(FlushThread, objs)
  <2>1. CASE \E t \in Threads : Disk!Collect(t)
    BY <1>a, <1>d, <1>1, <1>2, <1>3, <1>4, <2>1, Collecting
  <2>2. CASE \E objs : Disk!Submit(FlushThread, objs)
    <3>1. CASE life = "running"
      BY <1>1, <1>4, <3>1
    <3>2. CASE life # "running"
      <4>1. FlushThread = "stop"
        BY <3>2 DEF FlushThread
      <4>2. writer'["loop"] = writer["loop"]
        BY <1>a, <2>2, <4>1, SpoolSets DEF Disk!Submit, Threads
      <4> QED
        BY <1>2, <3>2, <4>2
    <3> QED
      BY <3>1, <3>2
  <2> QED
    BY <1>4, <2>1, <2>2
<1>5. CASE BeginWrite \/ SpoolRefused \/ ResultDiscarded
  BY <1>d, <1>4, <1>5 DEF BeginWrite, SpoolRefused, ResultDiscarded, SpoolOnly
<1>6. CASE Spooled
  <2>1. phase = "writing" /\ FlushReturns /\ Disk!Collect(FlushThread)
    BY <1>6 DEF Spooled
  <2>2. life = "running" \/ life = "flushing"
    BY <1>a, <2>1 DEF Control
  <2>3. CASE life = "running"
    BY <1>1, <2>1, <2>3 DEF FlushReturns
  <2>4. CASE life = "flushing"
    <3>1. FlushThread = "stop"
      BY <2>4 DEF FlushThread
    <3>2. writer'["loop"] = writer["loop"]
      BY <1>a, <1>d, <2>1, <3>1, Collecting DEF Threads
    <3> QED
      BY <1>2, <2>4, <3>2
  <2> QED
    BY <2>2, <2>3, <2>4
<1>7. CASE Capture \/ BeginFlush \/ DirectPut \/ DirectPutFails
  <2>1. writer' = writer
    BY <1>7 DEF Capture, BeginFlush, DirectPut, DirectPutFails, diskVars, Disk!DirectPutOk,
                Disk!DirectPutFails
  <2>2. life = "running" => life' = "running"
    BY <1>7 DEF Capture, BeginFlush, DirectPut, DirectPutFails, FlushReturns
  <2> QED
    BY <1>1, <1>2, <2>1, <2>2
<1>8. CASE \E t \in Threads : WriterStep(t)
  <2>1. life' = life /\ writer'["loop"].objs = writer["loop"].objs
    BY <1>a, <1>d, <1>8, RenameAdds
  <2> QED
    BY <1>1, <1>2, <2>1
<1>9. CASE Behind
  BY <1>1, <1>2, <1>9 DEF Behind
<1>10. CASE Shutdown
  <2>1. life = "running" /\ writer' = writer
    BY <1>10 DEF Shutdown, Disk!CancelUploads
  <2>2. CASE batch = <<>>
    <3>1. phase = "none"
      BY <1>a, <2>2 DEF Control
    <3>2. writer["loop"].objs = <<>>
      BY <1>a, <2>1, <3>1, <1>d DEF Calls
    <3> QED
      BY <1>3, <2>1, <3>2
  <2>3. CASE batch # <<>>
    <3>1. abandoned' = abandoned \cup Range(batch)
      BY <1>10, <2>3 DEF Shutdown, Buf!CancelFlush, Buf!Range, Range
    <3>2. UNION Range(writer["loop"].objs) \subseteq abandoned'
      BY <1>a, <1>d, <3>1, ObjectsOf
    <3> QED
      BY <2>1, <3>2 DEF Orphaned
  <2> QED
    BY <2>2, <2>3
<1>11. CASE Exit \/ Kill \/ PowerCut
  <2>1. writer' = [t \in Threads |-> Disk!IdleWriter]
    BY <1>11 DEF Exit, Kill, PowerCut, Disk!ProcessEnds, Disk!PowerCut, Disk!ThreadsDie, Threads
  <2> QED
    BY <1>d, <1>3, <2>1, Idle
<1> QED
  BY <1>a, <1>5, <1>6, <1>7, <1>8, <1>9, <1>10, <1>11, StepsBehind DEF Next, FlushStep, StopStep, Threads

LEMMA CallNext == ASSUME Keeping, [Next]_vars, Trusted PROVE CallKeeps'
<1>a. Shape /\ Queue!IInv /\ SpoolOK /\ Control /\ Calls /\ CallKeeps
  BY DEF Keeping, Filing, Shape
<1>b. FlushThread \in Threads
  BY DEF FlushThread, Threads
<1> SUFFICES ASSUME phase' = "writing" PROVE Done(writer[FlushThread])'
  BY DEF CallKeeps
<1>c. Control'
  BY <1>a, ShapeNext DEF Shape
<1>d. Safe \subseteq Safe' /\ Firm \subseteq Firm'
  BY <1>a, <1>c, FilesStep DEF Keeping, Filing, Control
<1>1. ASSUME phase = "writing", life' = life, writer'[FlushThread] = writer[FlushThread]
      PROVE  Done(writer[FlushThread])'
  <2>1. FlushThread' = FlushThread
    BY <1>1 DEF FlushThread
  <2>2. Done(writer[FlushThread])
    BY <1>a, <1>1 DEF CallKeeps
  <2> QED
    BY <1>d, <1>1, <2>1, <2>2 DEF Done, PastLast
<1>2. CASE Capture
  BY <1>1, <1>2 DEF Capture, diskVars
<1>3. CASE BeginWrite
  <2>1. /\ life' = life /\ batch # <<>> /\ Disk!Submit(FlushThread, DayRuns(batch))
    BY <1>a, <1>3 DEF BeginWrite, Control
  <2>2. DayRuns(batch) \in Seq(Object) /\ Len(DayRuns(batch)) \in Nat \ {0}
    BY <1>a, <2>1, BatchRuns
  <2>3. /\ writer'[FlushThread].pc = "next" /\ writer'[FlushThread].i = 1
        /\ writer'[FlushThread].objs = DayRuns(batch)
    BY <1>a, <1>b, <2>1, <2>2, Submitting
  <2>4. FlushThread' = FlushThread
    BY <2>1 DEF FlushThread
  <2> QED
    BY <2>2, <2>3, <2>4 DEF Done, PastLast
<1>4. CASE \E t \in Threads : WriterStep(t)
  <2> PICK t \in Threads : WriterStep(t)
    BY <1>4
  <2>1. /\ UNCHANGED <<life, phase, s3>>
        /\ Files!CallStep(writer[t], writer'[t]) /\ writer'[t].objs = writer[t].objs
        /\ \A s \in Threads \ {t} : writer'[s] = writer[s]
        /\ visible \subseteq visible' \cup evicted' /\ evicted \subseteq evicted'
    BY <1>a, RenameAdds
  <2>2. CASE t # FlushThread
    BY <1>1, <1>b, <2>1, <2>2
  <2>3. CASE t = FlushThread
    <3>1. Done(writer[t])'
      BY <1>d, <2>1, <2>3, DoneAdvances
    <3>2. FlushThread' = FlushThread
      BY <2>1 DEF FlushThread
    <3> QED
      BY <2>3, <3>1, <3>2
  <2> QED
    BY <2>2, <2>3
<1>5. CASE Behind
  BY <1>1, <1>5 DEF Behind
<1>6. CASE ResultDiscarded
  <2>1. /\ UNCHANGED <<life, phase>> /\ life # "running" /\ Disk!Collect("loop")
    BY <1>6 DEF ResultDiscarded, SpoolOnly
  <2>2. FlushThread = "stop" /\ writer'["stop"] = writer["stop"]
    BY <1>a, <2>1, Collecting DEF FlushThread, Threads
  <2> QED
    BY <1>1, <2>1, <2>2
<1>7. CASE \/ BeginFlush \/ Spooled \/ SpoolRefused \/ DirectPut \/ DirectPutFails \/ Shutdown
           \/ Exit \/ Kill \/ PowerCut
  BY <1>a, <1>7 DEF BeginFlush, Spooled, SpoolRefused, DirectPut, DirectPutFails, Shutdown, Exit,
                    Kill, PowerCut, FlushReturns, Control
<1> QED
  BY <1>a, <1>2, <1>3, <1>4, <1>5, <1>6, <1>7, StepsBehind DEF Next, FlushStep, StopStep, Threads

LEMMA DirectNext == ASSUME Keeping, [Next]_vars, Trusted PROVE DirectHolds'
<1>a. Shape /\ Queue!IInv /\ SpoolOK /\ Control /\ Calls /\ DirectHolds
  BY DEF Keeping, Filing, Shape
<1>b. FlushThread \in Threads /\ s3 \subseteq s3'
  BY <1>a, FilesStep DEF FlushThread, Threads, Keeping, Filing
<1>1. CASE phase' # "direct"
  BY <1>1 DEF DirectHolds
<1>2. CASE UNCHANGED <<batch, phase, direct>>
  BY <1>a, <1>b, <1>2 DEF DirectHolds
<1>3. CASE SpoolRefused
  <2>1. direct' = DayRuns(batch) /\ batch' = batch /\ batch # <<>>
    BY <1>a, <1>3 DEF SpoolRefused, bufVars, Calls, Control
  <2>2. UNION Range(direct') = Range(batch')
    BY <1>a, <2>1, BatchRuns
  <2> QED
    BY <2>2 DEF DirectHolds
<1>4. CASE DirectPut
  <2>1. CASE Tail(direct) = <<>>
    BY <1>1, <1>4, <2>1 DEF DirectPut, FlushReturns
  <2>2. CASE Tail(direct) # <<>>
    <3>1. direct' = Tail(direct) /\ batch' = batch /\ phase = "direct" /\ Disk!DirectPutOk(Head(direct))
      BY <1>4, <2>2 DEF DirectPut, bufVars
    <3>2. Head(direct) \in s3'
      BY <3>1 DEF Disk!DirectPutOk
    <3>3. Range(direct) = {Head(direct)} \cup Range(direct')
      BY <1>a, <3>1, DirectHead
    <3>4. UNION Range(direct) \subseteq (UNION Range(direct')) \cup (UNION s3')
      BY <3>2, <3>3
    <3>5. UNION s3 \subseteq UNION s3'
      BY <1>b
    <3>6. Range(batch) \subseteq (UNION Range(direct)) \cup (UNION s3)
      BY <1>a, <3>1 DEF DirectHolds
    <3>7. Range(batch') \subseteq (UNION Range(direct')) \cup (UNION s3')
      BY <3>1, <3>4, <3>5, <3>6
    <3> QED
      BY <3>7 DEF DirectHolds
  <2> QED
    BY <2>1, <2>2
<1>5. CASE \/ BeginFlush \/ BeginWrite \/ Spooled \/ DirectPutFails \/ Shutdown \/ Kill \/ PowerCut
  BY <1>1, <1>5 DEF BeginFlush, BeginWrite, Spooled, DirectPutFails, Shutdown, Kill, PowerCut, FlushReturns
<1>6. CASE Exit
  BY <1>1, <1>a, <1>6 DEF Exit, Control
<1>7. CASE Capture \/ ResultDiscarded \/ Behind \/ \E t \in Threads : WriterStep(t)
  BY <1>2, <1>7 DEF Capture, Buf!Receive, ResultDiscarded, Behind, WriterStep, SpoolOnly, bufVars
<1> QED
  BY <1>a, <1>3, <1>4, <1>5, <1>6, <1>7, StepsBehind DEF Next, FlushStep, StopStep, Threads

LEMMA PlacedNext == ASSUME Keeping, [Next]_vars, Trusted PROVE PlacedIsFirm'
<1>a. Shape /\ Queue!IInv /\ SpoolOK /\ Control /\ Calls /\ PlacedIsFirm /\ CallKeeps /\ DirectHolds
  BY DEF Keeping, Filing, Shape
<1>b. Firm \subseteq Firm' /\ s3 \subseteq s3'
  BY <1>a, FilesStep DEF Keeping, Filing
<1>c. FlushThread \in Threads
  BY DEF FlushThread, Threads
<1>1. CASE placed' = placed
  BY <1>a, <1>b, <1>1 DEF PlacedIsFirm
<1>2. CASE placed' = placed \cup Range(batch) /\ Range(batch) \subseteq UNION Firm'
  BY <1>a, <1>b, <1>2 DEF PlacedIsFirm
<1>3. CASE Spooled
  <2>1. /\ phase = "writing" /\ writer[FlushThread].pc = "true"
        /\ placed' = placed \cup Range(batch)
    BY <1>3 DEF Spooled, Disk!WriterAt, Buf!PlaceBatch, Buf!Range, Range
  <2>2. Range(DayRuns(batch)) \subseteq Firm /\ batch # <<>>
    BY <1>a, <2>1 DEF CallKeeps, Done, Calls, Control
  <2>3. UNION Range(DayRuns(batch)) = Range(batch)
    BY <1>a, <2>2, BatchRuns
  <2> QED
    BY <1>2, <1>b, <2>1, <2>2, <2>3
<1>4. CASE DirectPut
  <2>1. CASE Tail(direct) # <<>>
    BY <1>1, <1>4, <2>1 DEF DirectPut, bufVars
  <2>2. CASE Tail(direct) = <<>>
    <3>1. placed' = placed \cup Range(batch) /\ phase = "direct" /\ Disk!DirectPutOk(Head(direct))
      BY <1>4, <2>2 DEF DirectPut, Buf!PlaceBatch, Buf!Range, Range
    <3>2. Head(direct) \in s3'
      BY <3>1 DEF Disk!DirectPutOk
    <3>3. Range(direct) = {Head(direct)}
      <4>1. Range(<<>>) = {}
        BY DEF Range
      <4> QED
        BY <1>a, <2>2, <3>1, <4>1, DirectHead
    <3>4. Range(batch) \subseteq UNION s3'
      <4>1. UNION Range(direct) \subseteq UNION s3' /\ UNION s3 \subseteq UNION s3'
        BY <1>b, <3>2, <3>3
      <4> QED
        BY <1>a, <3>1, <4>1 DEF DirectHolds
    <3> QED
      BY <1>2, <3>1, <3>4 DEF Firm
  <2> QED
    BY <2>1, <2>2
<1>5. CASE \/ Capture \/ BeginFlush \/ BeginWrite \/ SpoolRefused \/ DirectPutFails \/ ResultDiscarded
           \/ Exit \/ Kill \/ PowerCut \/ Behind
  BY <1>1, <1>5 DEF Capture, BeginFlush, BeginWrite, SpoolRefused, DirectPutFails, ResultDiscarded,
       Exit, Kill, PowerCut, Behind, SpoolOnly, bufVars, Buf!Receive, Buf!TakeBuffer, Buf!ReturnBuffer,
       Buf!ProcessEnds, Buf!ledgers
<1>6. CASE Shutdown \/ \E t \in Threads : WriterStep(t)
  BY <1>1, <1>6 DEF Shutdown, WriterStep, SpoolOnly, bufVars, Buf!CancelFlush
<1> QED
  BY <1>a, <1>3, <1>4, <1>5, <1>6, StepsBehind DEF Next, FlushStep, StopStep, Threads

\* A queued frame that no file had gets into one only with its batch.
LEMMA RenameIsOfBatch ==
  ASSUME Keeping, NEW t \in Threads, WriterStep(t)
  PROVE  /\ buffer # <<>> /\ Unfiled(Newest(buffer)) => Unfiled(Newest(buffer))'
         /\ "fsync" \notin Faults /\ batch # <<>> /\ ~(phase = "writing" /\ PastLast(writer[FlushThread]))'
              => ~(phase = "writing" /\ PastLast(writer[FlushThread]))
         /\ batch # <<>> /\ Unfiled(Newest(batch))
              /\ ~(phase = "writing" /\ PastLast(writer[FlushThread]))'
              => Unfiled(Newest(batch))'
<1> DEFINE w == writer[t]
           x == writer'[t]
<1>a. Shape /\ Queue!IInv /\ Orphaned /\ SpoolOK /\ CallKeeps
  BY DEF Keeping, Filing, Shape
<1>b. FlushThread \in Threads
  BY DEF FlushThread, Threads
<1>1. /\ UNCHANGED <<buffer, batch, life, phase>> /\ FlushThread' = FlushThread
      /\ Files!CallStep(w, x) /\ x.objs = w.objs
      /\ \A s \in Threads \ {t} : writer'[s] = writer[s]
      /\ \A o \in visible' \cup durable' :
           \/ o \in visible \cup durable
           \/ /\ w.i \in 1..Len(w.objs) /\ o = w.objs[w.i] /\ o \in Range(w.objs)
              /\ x.i = w.i + 1
  BY <1>a, RenameAdds DEF bufVars, FlushThread
<1>2. /\ UNION Range(w.objs) \subseteq Range(batch) \cup abandoned
      /\ ~(phase = "writing" /\ t = FlushThread) => UNION Range(w.objs) \subseteq abandoned
  BY <1>a, ObjectsOf
<1>3. ASSUME NEW f, Unfiled(f), f \notin UNION Range(w.objs) PROVE Unfiled(f)'
  BY <1>1, <1>3 DEF Unfiled
<1>4. buffer # <<>> => Newest(buffer) \notin UNION Range(w.objs) /\ Newest(buffer)' = Newest(buffer)
  BY <1>a, <1>1, <1>2, QueueSets DEF Newest
<1>5. batch # <<>> => /\ Newest(batch) \in Range(batch) /\ Newest(batch) \notin abandoned
                      /\ Newest(batch)' = Newest(batch)
  BY <1>a, <1>1, QueueSets DEF Newest
<1>6. CASE phase = "writing" /\ t = FlushThread
  <2>1. w.objs = DayRuns(batch) /\ batch # <<>>
    BY <1>a, <1>6 DEF Shape, Calls, Control
  <2>2. \A k \in 1..Len(w.objs) : Newest(batch) \in w.objs[k] => k = Len(w.objs)
    BY <1>a, <2>1, BatchRuns DEF Newest
  <2>3. w.i \in Nat \ {0} /\ Len(w.objs) \in Nat
    BY <1>a, SpoolSets
  <2>4. "fsync" \notin Faults /\ ~PastLast(x) => ~PastLast(w)
    <3>1. "fsync" \notin Faults /\ PastLast(w) => x.i = w.i
      <4>1. CASE Files!Works(w, x) \/ Files!Skips(w, x) \/ Files!Renames(w, x) \/ Files!Finishes(w, x)
                   \/ Files!Syncs(w, x)
        BY <2>3, <4>1 DEF Files!Works, Files!Skips, Files!Renames, Files!Finishes, Files!Syncs, PastLast
      <4>2. CASE Files!Refuses(w, x)
        BY <2>3, <4>2 DEF Files!Refuses, PastLast
      <4> QED
        BY <1>1, <4>1, <4>2 DEF Files!CallStep
    <3> QED
      BY <1>1, <3>1 DEF PastLast
  <2>5. ASSUME Unfiled(Newest(batch)), ~PastLast(x) PROVE Unfiled(Newest(batch))'
    <3> SUFFICES ASSUME NEW o \in visible' \cup durable', Newest(batch) \in o PROVE FALSE
      BY <1>5, <2>1 DEF Unfiled
    <3>1. w.i \in 1..Len(w.objs) /\ o = w.objs[w.i] /\ x.i = w.i + 1
      BY <1>1, <2>5 DEF Unfiled
    <3>2. w.i = Len(w.objs)
      BY <2>2, <3>1
    <3> QED
      BY <1>1, <2>3, <2>5, <3>1, <3>2 DEF PastLast
  <2>6. PastLast(writer[FlushThread])' <=> PastLast(x)
    BY <1>1, <1>6 DEF PastLast
  <2> QED
    BY <1>1, <1>3, <1>4, <1>6, <2>4, <2>5, <2>6
<1>7. CASE ~(phase = "writing" /\ t = FlushThread)
  <2>1. batch # <<>> => Newest(batch) \notin UNION Range(w.objs)
    BY <1>2, <1>5, <1>7
  <2>2. (phase = "writing" /\ PastLast(writer[FlushThread]))'
          <=> phase = "writing" /\ PastLast(writer[FlushThread])
    BY <1>b, <1>1, <1>7 DEF PastLast
  <2> QED
    BY <1>3, <1>4, <1>5, <2>1, <2>2
<1> QED
  BY <1>6, <1>7

LEMMA FreshNext == ASSUME Keeping, [Next]_vars, Trusted PROVE Fresh'
<1>a. Shape /\ Queue!IInv /\ SpoolOK /\ Control /\ Calls /\ CallKeeps /\ FilesAreOld
  BY DEF Keeping, Filing, Shape
<1>b. FlushThread \in Threads
  BY DEF FlushThread, Threads
<1> SUFFICES ASSUME "fsync" \notin Faults PROVE Fresh'
  BY DEF Fresh
<1> DEFINE Past == phase = "writing" /\ PastLast(writer[FlushThread])
<1>c. /\ buffer # <<>> => Unfiled(Newest(buffer))
      /\ batch # <<>> /\ ~Past => Unfiled(Newest(batch))
  BY DEF Keeping, Fresh
<1> DEFINE Goal == /\ buffer' # <<>> => Unfiled(Newest(buffer))'
                   /\ batch' # <<>> /\ ~Past' => Unfiled(Newest(batch))'
<1> SUFFICES Goal
  BY DEF Fresh
<1>1. CASE \E t \in Threads : WriterStep(t)
  <2> PICK t \in Threads : WriterStep(t)
    BY <1>1
  <2>1. UNCHANGED <<buffer, batch>>
    BY DEF WriterStep, SpoolOnly, bufVars
  <2> QED
    BY <1>c, <2>1, RenameIsOfBatch
<1>2. ASSUME visible' \cup durable' \subseteq visible \cup durable
      PROVE  Goal
  <2>0. \A f : Unfiled(f) => \A o \in visible' \cup durable' : f \notin o
    BY <1>2 DEF Unfiled
  <2>1. CASE UNCHANGED <<buffer, batch>> /\ (batch = <<>> \/ (Past => Past'))
    BY <1>c, <2>0, <2>1 DEF Unfiled, Newest
  <2>2. CASE buffer' = buffer /\ batch' = <<>>
    BY <1>c, <2>0, <2>2 DEF Unfiled, Newest
  <2>3. CASE buffer' = <<>> /\ batch' = <<>>
    BY <2>3
  <2>4. CASE Capture
    <3>1. Buf!Receive /\ UNCHANGED <<batch, diskVars, life, phase>>
      BY <2>4 DEF Capture, Buf!Receive
    <3>2. FlushThread' = FlushThread /\ (Past => Past')
      BY <3>1 DEF FlushThread, diskVars
    <3>3. buffer' # <<>> => Newest(buffer') = rx + 1
      BY <1>a, <3>1, NewestReceived
    <3>4. rx \in Nat
      BY <1>a, QueueSets
    <3>5. \A o \in visible \cup durable : rx + 1 \notin o
      BY <1>a, <3>4 DEF FilesAreOld
    <3>6. buffer' # <<>> => Unfiled(Newest(buffer))'
      BY <1>2, <3>3, <3>5 DEF Unfiled, Newest
    <3> QED
      BY <1>c, <2>0, <3>1, <3>2, <3>6 DEF Unfiled, Newest
  <2>5. CASE BeginFlush
    <3>1. batch' = buffer /\ buffer' = <<>> /\ phase' = "objects"
      BY <2>5 DEF BeginFlush, Buf!TakeBuffer
    <3> QED
      BY <1>c, <2>0, <3>1 DEF Unfiled, Newest
  <2>6. CASE BeginWrite
    <3>1. UNCHANGED <<buffer, batch>> /\ phase = "objects"
      BY <2>6 DEF BeginWrite, bufVars
    <3> QED
      BY <2>1, <3>1
  <2>7. CASE SpoolRefused
    <3>1. UNCHANGED <<buffer, batch>> /\ phase = "writing" /\ writer[FlushThread].pc = "false"
      BY <2>7 DEF SpoolRefused, bufVars, Disk!WriterAt
    <3>2. writer[FlushThread].i = 1 /\ writer[FlushThread].objs = DayRuns(batch) /\ batch # <<>>
      BY <1>a, <3>1 DEF CallKeeps, Done, Calls, Control
    <3>3. ~Past
      BY <1>a, <3>2, BatchRuns DEF PastLast
    <3> QED
      BY <2>1, <3>1, <3>3
  <2>8. CASE DirectPut
    <3>1. phase = "direct" /\ (UNCHANGED <<buffer, batch>> \/ (buffer' = buffer /\ batch' = <<>>))
      BY <2>8 DEF DirectPut, bufVars, Buf!PlaceBatch
    <3> QED
      BY <2>1, <2>2, <3>1
  <2>9. CASE DirectPutFails
    <3>1. phase = "direct" /\ Buf!ReturnBuffer /\ batch' = <<>> /\ batch # <<>>
      BY <1>a, <2>9 DEF DirectPutFails, Buf!ReturnBuffer, Control
    <3>2. buffer' # <<>> =>
            Newest(buffer') = IF buffer = <<>> THEN Newest(batch) ELSE Newest(buffer)
      BY <1>a, <3>1, NewestReturned
    <3> QED
      BY <1>c, <2>0, <3>1, <3>2 DEF Unfiled, Newest
  <2>10. CASE Spooled \/ Shutdown
    <3>1. batch' = <<>> /\ buffer' = buffer
      BY <2>10 DEF Spooled, Shutdown, Buf!PlaceBatch, Buf!CancelFlush, bufVars
    <3> QED
      BY <2>2, <3>1
  <2>11. CASE Exit \/ Kill \/ PowerCut
    BY <2>3, <2>11 DEF Exit, Kill, PowerCut, Buf!ProcessEnds
  <2>12. CASE ResultDiscarded
    <3>1. /\ UNCHANGED <<buffer, batch, life, phase>> /\ life # "running" /\ Disk!Collect("loop")
      BY <2>12 DEF ResultDiscarded, SpoolOnly, bufVars
    <3>2. FlushThread = "stop" /\ FlushThread' = "stop" /\ writer'["stop"] = writer["stop"]
      BY <1>a, <3>1, Collecting DEF FlushThread, Threads
    <3> QED
      BY <2>1, <3>1, <3>2
  <2>13. CASE Behind
    <3>1. Past => Past'
      BY <2>13 DEF Behind, FlushThread
    <3> QED
      BY <2>1, <2>13, <3>1 DEF Behind, bufVars
  <2> QED
    BY <1>a, <1>1, <2>4, <2>5, <2>6, <2>7, <2>8, <2>9, <2>10, <2>11, <2>12, <2>13, StepsBehind
       DEF Next, FlushStep, StopStep, Threads
<1> QED
  BY <1>a, <1>1, <1>2, FilesStep DEF Keeping, Filing

LEMMA KeepingHolds == Trusted => (Spec => []Keeping)
<1> SUFFICES ASSUME Trusted PROVE Spec => []Keeping
  OBVIOUS
<1>1. Keeping /\ [Next]_vars => Keeping'
  <2> SUFFICES ASSUME Keeping, [Next]_vars PROVE Keeping'
    OBVIOUS
  <2>1. Shape'
    BY ShapeNext DEF Keeping, Filing
  <2>2. DurableIsSafe'
    BY FilesStep DEF Keeping, Filing
  <2>3. FilesAreOld' /\ Orphaned' /\ CallKeeps' /\ Fresh' /\ DirectHolds' /\ PlacedIsFirm'
    BY OldNext, OrphanNext, CallNext, FreshNext, DirectNext, PlacedNext DEF Keeping
  <2> QED
    BY <2>1, <2>2, <2>3 DEF Keeping, Filing
<1> QED
  BY KeepingInit, <1>1, PTL DEF Spec

----------------------------------------------------------------------------
(* Evictions are counted *)

RowsOf == [o \in Object |-> Cardinality(o)]

LEMMA RowsAreCardinals == \A o \in Object : RowsOf[o] = Cardinality(o) /\ RowsOf[o] \in Nat
<1>1. \A o \in Object : Cardinality(o) \in Nat
  BY FiniteObjects, FS_CardinalityType
<1> QED
  BY <1>1 DEF RowsOf

\* What need not be in the spool any more.
Settled == s3 \cup counted

\* What a thread evicts has been in the spool, and at the unlink it has read
\* all the rows of the file or found it gone.
CountsRight(w) ==
  /\ w.files \cup w.victim \subseteq Safe /\ \A u, v \in w.victim : u = v
  /\ w.pc = "unlink" => \A v \in w.victim : w.lost >= RowsOf[v] \/ v \in Settled

Accounted ==
  /\ evicted \subseteq Settled
  /\ \A t \in Threads : CountsRight(writer[t])

LEMMA CountsStay ==
  ASSUME NEW t \in Threads, CountsRight(writer[t]), writer'[t] = writer[t],
         Safe \subseteq Safe', Settled \subseteq Settled'
  PROVE  CountsRight(writer[t])'
BY DEF CountsRight

\* A thread that is not about to unlink.
LEMMA CountsLater ==
  ASSUME NEW t \in Threads, writer'[t].pc # "unlink",
         writer'[t].files \cup writer'[t].victim \subseteq Safe, Safe \subseteq Safe',
         \A u, v \in writer'[t].victim : u = v
  PROVE  CountsRight(writer[t])'
BY DEF CountsRight

LEMMA WriterAccounts ==
  ASSUME SpoolOK, Accounted, "read" \notin Faults, NEW t \in Threads, Disk!WriterStep(t),
         Safe \subseteq Safe'
  PROVE  Accounted'
<1> DEFINE w == writer[t]
           x == writer'[t]
<1>a. /\ \A s \in Threads \ {t} : writer'[s] = writer[s]
      /\ s3' = s3
  BY Writing
<1>b. w \in Files!Writer /\ writer \in [Threads -> Files!Writer] /\ w.files \cup w.victim \subseteq Safe
  BY SpoolSets DEF Accounted, CountsRight
<1>c. ASSUME Settled \subseteq Settled', evicted' \subseteq Settled', CountsRight(writer[t])'
      PROVE  Accounted'
  <2>1. \A s \in Threads : CountsRight(writer[s])'
    <3> SUFFICES ASSUME NEW s \in Threads, s # t PROVE CountsRight(writer[s])'
      BY <1>c
    <3> QED
      BY <1>a, <1>c, CountsStay DEF Accounted
  <2> QED
    BY <1>c, <2>1 DEF Accounted
<1> DEFINE Same == UNCHANGED <<evicted, counted>>
<1>d. ASSUME Same, CountsRight(writer[t])'
      PROVE  Accounted'
  <2>1. Settled' = Settled
    BY <1>a, <1>d DEF Settled
  <2> QED
    BY <1>c, <1>d, <2>1 DEF Accounted
<1>e. Disk!FilesUnchanged => Same
  BY DEF Disk!FilesUnchanged, Disk!history
<1>f. \A u, v \in w.victim : u = v
  BY DEF Accounted, CountsRight
<1>1. CASE Disk!CountRows(t)
  <2>1. w.pc = "count" /\ Same /\ visible' = visible
    BY <1>1, <1>e DEF Disk!CountRows, Disk!WriterAt, Disk!FilesUnchanged, Disk!diskVars
  <2> PICK v \in w.victim :
         \E n \in {IF v \in visible THEN RowsOf[v] ELSE 0} \cup (IF "read" \in Faults THEN {0} ELSE {}) :
           writer' = [writer EXCEPT ![t].pc = "unlink", ![t].lost = n]
    BY <1>1, Zenon DEF Disk!CountRows, RowsOf
  <2> PICK n : /\ n = IF v \in visible THEN RowsOf[v] ELSE 0
               /\ writer' = [writer EXCEPT ![t].pc = "unlink", ![t].lost = n]
    OBVIOUS
  <2>2. /\ x.pc = "unlink" /\ x.victim = w.victim /\ x.files = w.files
        /\ x.lost = IF v \in visible THEN RowsOf[v] ELSE 0
    BY <1>b DEF Files!Writer
  <2>3. v \in Object /\ RowsOf[v] \in Nat
    BY <1>b, RowsAreCardinals DEF Files!Writer
  <2>4. v \notin visible => v \in Settled
    BY <1>b DEF Safe, Settled, Accounted
  <2>5. Settled' = Settled
    BY <1>a, <2>1 DEF Settled
  <2>6. \A o \in x.victim : x.lost >= RowsOf[o] \/ o \in Settled
    BY <1>f, <2>2, <2>3, <2>4
  <2>7. CountsRight(writer[t])'
    BY <1>b, <1>f, <2>2, <2>5, <2>6 DEF CountsRight
  <2> QED
    BY <1>d, <2>1, <2>7
<1>2. CASE Disk!UnlinkVictim(t)
  <2>1. PICK v \in w.victim :
          /\ evicted' = evicted \cup ({v} \cap visible)
          /\ counted' = counted \cup {o \in {v} \cap visible : w.lost >= RowsOf[o]}
          /\ writer' = [writer EXCEPT ![t].pc = "evict", ![t].usage = @ - RowsOf[v],
                                      ![t].victim = {}, ![t].lost = 0]
    BY <1>2, Zenon DEF Disk!UnlinkVictim, RowsOf
  <2>2. w.pc = "unlink"
    BY <1>2 DEF Disk!UnlinkVictim, Disk!WriterAt
  <2>3. w.lost >= RowsOf[v] \/ v \in Settled
    BY <2>2 DEF Accounted, CountsRight
  <2>4. v \in Object /\ RowsOf[v] = Cardinality(v)
    BY <1>b, RowsAreCardinals DEF Files!Writer
  <2>5. Settled \subseteq Settled'
    BY <1>a, <2>1 DEF Settled
  <2>6. v \in visible => v \in Settled'
    BY <2>1, <2>3, <2>4, <2>5 DEF Settled
  <2>7. evicted' \subseteq Settled'
    BY <2>1, <2>5, <2>6 DEF Accounted
  <2>8. x.pc = "evict" /\ x.files = w.files /\ x.victim = {}
    BY <1>b, <2>1 DEF Files!Writer
  <2>9. CountsRight(writer[t])'
    BY <1>b, <2>8, CountsLater
  <2> QED
    BY <1>c, <2>5, <2>7, <2>9
<1>3. CASE Disk!ListFiles(t)
  <2>1. x.pc = "usage" /\ x.files = visible /\ x.victim = w.victim
    BY <1>3, <1>b DEF Disk!ListFiles, Files!Writer
  <2>2. CountsRight(writer[t])'
    BY <1>b, <1>f, <2>1, CountsLater DEF Safe
  <2> QED
    BY <1>3, <1>d, <1>e, <2>2 DEF Disk!ListFiles
<1>4. CASE Disk!PickVictim(t)
  <2> PICK v \in Disk!Oldest(w.files) \cap visible :
         writer' = [writer EXCEPT ![t].pc = "count", ![t].files = @ \ {v}, ![t].victim = {v}]
    BY <1>4 DEF Disk!PickVictim
  <2>1. x.pc = "count" /\ x.files = w.files \ {v} /\ x.victim = {v}
    BY <1>b DEF Files!Writer
  <2>2. CountsRight(writer[t])'
    BY <1>b, <2>1, CountsLater DEF Safe
  <2> QED
    BY <1>4, <1>d, <1>e, <2>2 DEF Disk!PickVictim
<1>5. ASSUME Same, x.pc # "unlink", x.files \in {w.files, {}}, x.victim \in {w.victim, {}}
      PROVE  Accounted'
  <2>1. CountsRight(writer[t])'
    BY <1>5, <1>b, <1>f, CountsLater
  <2> QED
    BY <1>5, <1>d, <2>1
<1>6. CASE Disk!SkipExisting(t) \/ Disk!BeginObject(t) \/ Disk!ObjectsDone(t)
  <2>1. Same
    BY <1>6, <1>e DEF Disk!SkipExisting, Disk!BeginObject, Disk!ObjectsDone
  <2>2. CASE Disk!SkipExisting(t)
    <3>1. x.pc = "next" /\ x.files = w.files /\ x.victim = w.victim
      BY <1>b, <2>2 DEF Disk!SkipExisting, Disk!WriterAt, Files!Writer
    <3> QED
      BY <1>5, <2>1, <3>1
  <2>3. CASE Disk!BeginObject(t) \/ Disk!ObjectsDone(t)
    <3>1. PICK pc \in {"list", "sync", "true"} : writer' = [writer EXCEPT ![t].pc = pc]
      BY <2>3 DEF Disk!BeginObject, Disk!ObjectsDone, Disk!WriterGoes
    <3>2. x.pc = pc /\ x.files = w.files /\ x.victim = w.victim
      BY <1>b, <3>1 DEF Files!Writer
    <3> QED
      BY <1>5, <2>1, <3>2
  <2> QED
    BY <1>6, <2>2, <2>3
<1>7. CASE Disk!MeasureUsage(t)
  <2>1. x.pc = "evict" /\ x.files = w.files /\ x.victim = w.victim
    BY <1>7, <1>b DEF Disk!MeasureUsage, Files!Writer
  <2> QED
    BY <1>5, <1>7, <1>e, <2>1 DEF Disk!MeasureUsage
<1>8. CASE Disk!WriteTmp(t) \/ Disk!RenameTmp(t) \/ Disk!FsyncDir(t)
  <2>1. Same
    BY <1>8 DEF Disk!WriteTmp, Disk!RenameTmp, Disk!FsyncDir, Disk!history
  <2>2. x.pc # "unlink" /\ x.files = w.files /\ x.victim = w.victim
    BY <1>8, <1>b DEF Disk!WriteTmp, Disk!RenameTmp, Disk!FsyncDir, Disk!WriterGoes, Files!Writer
  <2> QED
    BY <1>5, <2>1, <2>2
<1>9. CASE Disk!WriteFails(t)
  <2>1. Same /\ x.pc = "false" /\ x.files = {} /\ x.victim = {}
    BY <1>9, <1>b DEF Disk!WriteFails, Disk!IdleWriter, Disk!history
  <2> QED
    BY <1>5, <2>1
<1>10. CASE Disk!VictimGone(t) \/ Disk!EvictionDone(t) \/ Disk!EvictionFails(t)
  <2>1. Disk!LeaveEviction(t)
    BY <1>10 DEF Disk!VictimGone, Disk!EvictionDone, Disk!EvictionFails
  <2>2. x.pc = "tmp" /\ x.files = {} /\ x.victim = {}
    BY <1>b, <2>1 DEF Disk!LeaveEviction, Files!Writer
  <2> QED
    BY <1>5, <1>e, <2>1, <2>2 DEF Disk!LeaveEviction
<1> QED
  BY <1>1, <1>2, <1>3, <1>4, <1>6, <1>7, <1>8, <1>9, <1>10 DEF Disk!WriterStep, Disk!WriterProgress

\* What is evicted or counted was in the spool.
LEMMA EvictedWasThere ==
  ASSUME NEW t \in Threads, Disk!WriterStep(t)
  PROVE  /\ evicted' \subseteq evicted \cup visible
         /\ counted \subseteq counted' /\ counted' \subseteq counted \cup visible
<1>1. CASE UNCHANGED <<evicted, counted>>
  BY <1>1
<1>2. CASE Disk!UnlinkVictim(t)
  BY <1>2 DEF Disk!UnlinkVictim
<1>3. CASE Disk!FilesUnchanged
  BY <1>1, <1>3 DEF Disk!FilesUnchanged, Disk!history
<1>4. CASE Disk!WriteTmp(t) \/ Disk!RenameTmp(t) \/ Disk!FsyncDir(t) \/ Disk!WriteFails(t)
  BY <1>1, <1>4 DEF Disk!WriteTmp, Disk!RenameTmp, Disk!FsyncDir, Disk!WriteFails, Disk!history
<1>5. CASE \/ Disk!SkipExisting(t) \/ Disk!BeginObject(t) \/ Disk!ListFiles(t) \/ Disk!MeasureUsage(t)
           \/ Disk!PickVictim(t) \/ Disk!CountRows(t) \/ Disk!ObjectsDone(t)
  BY <1>3, <1>5 DEF Disk!SkipExisting, Disk!BeginObject, Disk!ListFiles, Disk!MeasureUsage,
                    Disk!PickVictim, Disk!CountRows, Disk!ObjectsDone
<1>6. CASE Disk!VictimGone(t) \/ Disk!EvictionDone(t) \/ Disk!EvictionFails(t)
  BY <1>3, <1>6 DEF Disk!VictimGone, Disk!EvictionDone, Disk!EvictionFails, Disk!LeaveEviction
<1> QED
  BY <1>2, <1>4, <1>5, <1>6 DEF Disk!WriterStep, Disk!WriterProgress

LEMMA UploadsEvictNothing == ASSUME NEW others, Uploads(others) PROVE UNCHANGED <<evicted, counted>>
BY DEF Uploads, Disk!BeginPass, Disk!UploadStep, Disk!UploadProgress, Disk!ReadFile, Disk!SkipFile,
  Disk!PutOk, Disk!DeleteUploaded, Disk!EndPass, Disk!PutFails, Disk!DeleteFails, Disk!CancelUploads,
  Disk!LatePut, Disk!JournalCommit, Disk!StartProcess, Disk!UploadKeeps, Disk!history

LEMMA FilingNext == ASSUME Filing, [Next]_vars PROVE Filing'
<1>1. Shape'
  BY ShapeNext DEF Filing
<1>2. DurableIsSafe'
  BY FilesStep DEF Filing
<1> QED
  BY <1>1, <1>2, OldNext, OrphanNext DEF Filing

\* A thread that a step leaves where it is, or that begins or ends.
AtRest(t) ==
  \/ writer'[t] = writer[t] /\ Safe \subseteq Safe'
  \/ writer'[t].pc # "unlink" /\ writer'[t].files = {} /\ writer'[t].victim = {}

LEMMA OthersAccount ==
  ASSUME Accounted, evicted' = evicted, counted' = counted, s3 \subseteq s3',
         \A t \in Threads : AtRest(t)
  PROVE  Accounted'
<1>1. Settled \subseteq Settled' /\ evicted' \subseteq Settled'
  BY DEF Settled, Accounted
<1>2. ASSUME NEW t \in Threads PROVE CountsRight(writer[t])'
  <2>1. CASE writer'[t] = writer[t] /\ Safe \subseteq Safe'
    BY <1>1, <2>1, CountsStay DEF Accounted
  <2>2. CASE writer'[t].pc # "unlink" /\ writer'[t].files = {} /\ writer'[t].victim = {}
    BY <2>2 DEF CountsRight
  <2> QED
    BY <2>1, <2>2 DEF AtRest
<1> QED
  BY <1>1, <1>2 DEF Accounted

LEMMA CountedGrows ==
  ASSUME [Next]_vars PROVE counted \subseteq counted' /\ counted' \subseteq counted \cup visible
<1>1. CASE \E t \in Threads : WriterStep(t)
  BY <1>1, EvictedWasThere DEF WriterStep
<1>2. CASE counted' = counted
  BY <1>2
<1>3. CASE BeginPass \/ UploadStep \/ LatePut \/ JournalCommit \/ BeginLastPass \/ Start \/ Shutdown
  <2>1. \E others : Uploads(others)
    BY <1>3 DEF BeginPass, UploadStep, LatePut, JournalCommit, BeginLastPass, Start, Shutdown, Uploads
  <2> QED
    BY <1>2, <2>1, UploadsEvictNothing
<1>4. CASE Exit \/ Kill \/ PowerCut
  BY <1>2, <1>4 DEF Exit, Kill, PowerCut, Disk!PowerCut, Disk!ProcessEnds
<1>5. CASE BeginWrite \/ Spooled \/ SpoolRefused \/ ResultDiscarded
  BY <1>2, <1>5 DEF BeginWrite, Spooled, SpoolRefused, ResultDiscarded, Disk!Collect, Disk!Submit,
                    Disk!FilesUnchanged, Disk!history
<1>6. CASE DirectPut \/ DirectPutFails
  BY <1>2, <1>6 DEF DirectPut, DirectPutFails, Disk!DirectPutOk, Disk!DirectPutFails, Disk!history
<1>7. CASE Capture \/ BeginFlush \/ NothingToFlush \/ StopReturns \/ UNCHANGED vars
  BY <1>2, <1>7 DEF Capture, BeginFlush, NothingToFlush, StopReturns, vars, diskVars
<1> QED
  BY <1>1, <1>3, <1>4, <1>5, <1>6, <1>7 DEF Next, FlushStep, StopStep, Threads

LEMMA AccountedNext ==
  ASSUME Filing, Accounted, "read" \notin Faults, [Next]_vars PROVE Accounted'
<1>a. SpoolOK /\ Control /\ DurableIsSafe
  BY DEF Filing, Shape
<1>b. s3 \subseteq s3'
  BY <1>a, FilesStep DEF Filing
<1>1. CASE \E t \in Threads : WriterStep(t)
  <2> PICK t \in Threads : WriterStep(t)
    BY <1>1
  <2>1. Disk!WriterStep(t)
    BY DEF WriterStep
  <2>2. visible \subseteq visible' \cup evicted' /\ evicted \subseteq evicted' /\ s3' = s3
    BY <1>a, <2>1, Writing
  <2>3. Safe \subseteq Safe'
    BY <2>2 DEF Safe
  <2> QED
    BY <1>a, <2>1, <2>3, WriterAccounts
<1>2. CASE Exit \/ Kill \/ PowerCut
  <2>1. \E others : Disk!PowerCut(others) \/ Disk!ProcessEnds(others)
    BY <1>2 DEF Exit, Kill, PowerCut
  <2>2. /\ UNCHANGED <<evicted, counted>>
        /\ \A t \in Threads : writer'[t] = Disk!IdleWriter
    BY <2>1 DEF Disk!PowerCut, Disk!ProcessEnds, Disk!ThreadsDie, Threads
  <2>3. Disk!IdleWriter.pc # "unlink" /\ Disk!IdleWriter.files = {} /\ Disk!IdleWriter.victim = {}
    BY DEF Disk!IdleWriter
  <2> QED
    BY <1>b, <2>2, <2>3, OthersAccount DEF AtRest
<1>3. CASE BeginWrite \/ Spooled \/ SpoolRefused \/ ResultDiscarded
  <2>1. \/ \E t \in Threads : Disk!Collect(t)
        \/ \E t \in Threads : \E objs : Disk!Submit(t, objs)
    BY <1>3 DEF BeginWrite, Spooled, SpoolRefused, ResultDiscarded, Threads, FlushThread
  <2>2. UNCHANGED <<visible, evicted, counted, s3>>
    BY <2>1 DEF Disk!Collect, Disk!Submit, Disk!FilesUnchanged, Disk!diskVars, Disk!history
  <2>3. PICK t \in Threads : \E x :
          /\ writer' = [writer EXCEPT ![t] = x]
          /\ x.pc # "unlink" /\ x.files = {} /\ x.victim = {}
    <3>1. CASE \E t \in Threads : Disk!Collect(t)
      <4> PICK t \in Threads : Disk!Collect(t)
        BY <3>1
      <4> DEFINE x == Disk!IdleWriter
      <4>1. x.pc # "unlink" /\ x.files = {} /\ x.victim = {}
        BY DEF Disk!IdleWriter
      <4>2. writer' = [writer EXCEPT ![t] = x]
        BY DEF Disk!Collect
      <4> QED
        BY <4>1, <4>2
    <3>2. CASE \E t \in Threads : \E objs : Disk!Submit(t, objs)
      <4> PICK t \in Threads : \E objs : Disk!Submit(t, objs)
        BY <3>2
      <4> PICK objs : Disk!Submit(t, objs)
        OBVIOUS
      <4> DEFINE x == [Disk!IdleWriter EXCEPT !.pc = "next", !.objs = objs]
      <4>1. x.pc = "next" /\ x.files = {} /\ x.victim = {}
        BY DEF Disk!IdleWriter
      <4>2. writer' = [writer EXCEPT ![t] = x]
        BY DEF Disk!Submit
      <4> QED
        BY <4>1, <4>2
    <3> QED
      BY <2>1, <3>1, <3>2
  <2>a. PICK x :
          /\ writer' = [writer EXCEPT ![t] = x]
          /\ x.pc # "unlink" /\ x.files = {} /\ x.victim = {}
    BY <2>3
  <2>4. \A s \in Threads : writer'[s] = writer[s] \/ writer'[s] = x
    BY <1>a, <2>a, SpoolSets
  <2>5. Safe' = Safe
    BY <2>2 DEF Safe
  <2>6. \A s \in Threads : AtRest(s)
    BY <2>a, <2>4, <2>5 DEF AtRest
  <2>7. evicted' = evicted /\ counted' = counted
    BY <2>2
  <2> QED
    BY <1>b, <2>6, <2>7, OthersAccount
<1>4. ASSUME UNCHANGED <<writer, evicted, counted>>, Safe \subseteq Safe' PROVE Accounted'
  <2>1. \A t \in Threads : AtRest(t)
    BY <1>4 DEF AtRest
  <2>2. evicted' = evicted /\ counted' = counted
    BY <1>4
  <2> QED
    BY <1>b, <2>1, <2>2, OthersAccount
<1>5. CASE BeginPass \/ UploadStep \/ LatePut \/ JournalCommit \/ BeginLastPass \/ Start \/ Shutdown
  <2>1. PICK others \in SUBSET Object : Uploads(others)
    <3>1. DirectInFlight \in SUBSET Object /\ {} \in SUBSET Object
      BY <1>a, DirectHead DEF DirectInFlight
    <3> QED
      BY <1>5, <3>1 DEF BeginPass, UploadStep, LatePut, JournalCommit, BeginLastPass, Start, Shutdown, Uploads
  <2>2. /\ writer' = writer /\ evicted' = evicted /\ visible \subseteq visible' \cup s3 /\ s3 \subseteq s3'
    BY <1>a, <2>1, Uploading
  <2>3. Safe \subseteq Safe'
    BY <2>2 DEF Safe
  <2> QED
    BY <1>4, <2>1, <2>2, <2>3, UploadsEvictNothing
<1>6. CASE DirectPut \/ DirectPutFails
  <2>1. UNCHANGED <<writer, evicted, counted, visible>>
    BY <1>6 DEF DirectPut, DirectPutFails, Disk!DirectPutOk, Disk!DirectPutFails, Disk!diskVars, Disk!history
  <2> QED
    BY <1>4, <1>b, <2>1 DEF Safe
<1>7. CASE Capture \/ BeginFlush \/ NothingToFlush \/ StopReturns \/ UNCHANGED vars
  <2>1. UNCHANGED diskVars
    BY <1>7 DEF Capture, BeginFlush, NothingToFlush, StopReturns, vars
  <2> QED
    BY <1>4, <2>1 DEF diskVars, Safe
<1> QED
  BY <1>1, <1>2, <1>3, <1>5, <1>6, <1>7 DEF Next, FlushStep, StopStep, Threads

\* Every row that an eviction takes away is in self.dropped or in S3, whichever
\* thread, upload or retry met the file between its count and its unlink.
Repaid == Evicted \subseteq InS3 \cup Counted

LEMMA EvictionsAreSettled == "read" \notin Faults => (Spec => []Repaid)
<1> SUFFICES ASSUME "read" \notin Faults PROVE Spec => []Repaid
  OBVIOUS
<1>1. Init => Filing /\ Accounted
  <2> SUFFICES ASSUME Init PROVE Filing /\ Accounted
    OBVIOUS
  <2>1. Keeping
    BY KeepingInit
  <2>2. evicted = {} /\ \A t \in Threads : writer[t] = Disk!IdleWriter
    BY DEF Init, Threads
  <2>3. Disk!IdleWriter.pc # "unlink" /\ Disk!IdleWriter.files = {} /\ Disk!IdleWriter.victim = {}
    BY DEF Disk!IdleWriter
  <2> QED
    BY <2>1, <2>2, <2>3 DEF Keeping, Accounted, CountsRight
<1>2. Filing /\ Accounted /\ [Next]_vars => (Filing /\ Accounted)'
  BY FilingNext, AccountedNext
<1>3. Accounted => Repaid
  BY DEF Repaid, Accounted, Settled, Evicted, InS3, Counted
<1> QED
  BY <1>1, <1>2, <1>3, PTL DEF Spec

(* What a flush has reported as placed is in the spool or in S3, or an     *)
(* eviction added its rows to self.dropped: of a power cut and an fsync    *)
(* that fails, the machine has at most one, and a file can be read for as  *)
(* long as it is there.                                                    *)
THEOREM LoggerLosesNothingSilently ==
  ASSUME "power" \notin Faults \/ "fsync" \notin Faults, "read" \notin Faults
  PROVE  Spec => []NoSilentLoss
<1>1. Keeping /\ Repaid => NoSilentLoss
  <2> SUFFICES ASSUME Keeping, Repaid PROVE NoSilentLoss
    OBVIOUS
  <2>1. Firm \subseteq Safe /\ placed \subseteq UNION Firm
    BY DEF Firm, Safe, Keeping, Filing, DurableIsSafe, PlacedIsFirm
  <2>2. placed \subseteq UNION Safe
    BY <2>1
  <2>3. UNION Safe \subseteq OnDisk \cup InS3 \cup Evicted
    BY DEF Safe, OnDisk, InS3, Evicted
  <2> QED
    BY <2>2, <2>3 DEF NoSilentLoss, Repaid
<1>2. Trusted
  BY DEF Trusted
<1> QED
  BY <1>1, <1>2, KeepingHolds, EvictionsAreSettled, PTL

(* And where fsync tells the truth, a power cut at any moment finds it     *)
(* committed, stored or counted: a retry skips what an earlier attempt     *)
(* renamed and never synced, and commits it all the same.                  *)
THEOREM PlacedOutlivesPowerCut ==
  ASSUME "fsync" \notin Faults, "read" \notin Faults
  PROVE  Spec => []PlacedSurvivesPowerCut
<1>1. Keeping /\ Repaid => PlacedSurvivesPowerCut
  <2> SUFFICES ASSUME Keeping, Repaid PROVE PlacedSurvivesPowerCut
    OBVIOUS
  <2>1. placed \subseteq UNION (durable \cup s3 \cup evicted)
    BY DEF Firm, Keeping, PlacedIsFirm
  <2>2. UNION (durable \cup s3 \cup evicted) \subseteq (UNION durable) \cup InS3 \cup Evicted
    BY DEF InS3, Evicted
  <2> QED
    BY <2>1, <2>2 DEF PlacedSurvivesPowerCut, Repaid
<1>2. Trusted
  BY DEF Trusted
<1> QED
  BY <1>1, <1>2, KeepingHolds, EvictionsAreSettled, PTL

----------------------------------------------------------------------------
(* The shutdown *)

\* After a shutdown has begun nothing arrives behind the batch that is flushed.
NothingBehind == life # "running" /\ batch # <<>> => buffer = <<>>

LEMMA NothingBehindNext == ASSUME Shape, [Next]_vars, NothingBehind PROVE NothingBehind'
<1>a. Control
  BY DEF Shape
<1>1. CASE life' = "running" \/ batch' = <<>>
  BY <1>1 DEF NothingBehind
<1>2. CASE UNCHANGED <<buffer, batch>> /\ life # "running"
  BY <1>2 DEF NothingBehind
<1>3. CASE buffer' = <<>>
  BY <1>3 DEF NothingBehind
<1>4. CASE life' = life /\ UNCHANGED bufVars
  BY <1>1, <1>2, <1>4 DEF bufVars
<1>5. CASE Capture \/ BeginFlush \/ Spooled \/ DirectPutFails \/ Shutdown \/ Exit \/ Kill \/ PowerCut
  BY <1>1, <1>3, <1>5 DEF Capture, BeginFlush, Spooled, DirectPutFails, Shutdown, Exit, Kill, PowerCut,
       Buf!TakeBuffer, Buf!PlaceBatch, Buf!ReturnBuffer, Buf!CancelFlush, Buf!ProcessEnds, bufVars
<1>6. CASE BeginWrite \/ SpoolRefused \/ ResultDiscarded \/ \E t \in Threads : WriterStep(t)
  BY <1>4, <1>6 DEF BeginWrite, SpoolRefused, ResultDiscarded, WriterStep, SpoolOnly
<1>7. CASE DirectPut
  BY <1>1, <1>4, <1>7 DEF DirectPut, Buf!PlaceBatch
<1>8. CASE Behind
  BY <1>1, <1>2, <1>8 DEF Behind, bufVars
<1> QED
  BY <1>5, <1>6, <1>7, <1>8, StepsBehind DEF Next, FlushStep, StopStep, Threads

(* stop() goes on to its upload pass with an empty buffer, or because both *)
(* sinks refused what was in it.                                           *)
THEOREM ShutdownEmptiesBuffer == Spec => ShutdownSavesBuffer
<1>1. ASSUME Shape, NothingBehind, [Next]_vars, life = "flushing", life' = "draining", ~DirectPutFails
      PROVE  buffer' = <<>>
  <2>1. Control
    BY <1>1 DEF Shape
  <2>2. CASE NothingToFlush
    BY <2>2 DEF NothingToFlush, bufVars
  <2>3. CASE Spooled
    BY <1>1, <2>3 DEF Spooled, Buf!PlaceBatch, NothingBehind
  <2>4. CASE DirectPut
    BY <1>1, <2>4 DEF DirectPut, Buf!PlaceBatch, NothingBehind
  <2>5. CASE \/ Capture \/ BeginFlush \/ BeginWrite \/ SpoolRefused \/ Shutdown \/ ResultDiscarded
             \/ BeginLastPass \/ StopReturns \/ Exit \/ Kill \/ PowerCut \/ Start \/ UNCHANGED vars
    BY <1>1, <2>5 DEF Capture, BeginFlush, BeginWrite, SpoolRefused, Shutdown, ResultDiscarded,
         BeginLastPass, StopReturns, Exit, Kill, PowerCut, Start, SpoolOnly, vars
  <2>6. CASE BeginPass \/ UploadStep \/ LatePut \/ JournalCommit \/ \E t \in Threads : WriterStep(t)
    BY <1>1, <2>6 DEF BeginPass, UploadStep, LatePut, JournalCommit, WriterStep, SpoolOnly
  <2> QED
    BY <1>1, <2>2, <2>3, <2>4, <2>5, <2>6 DEF Next, FlushStep, StopStep, Threads
<1>2. Init => NothingBehind
  BY DEF Init, NothingBehind
<1>3. Spec => []NothingBehind
  BY <1>2, NothingBehindNext, ShapeHolds, PTL DEF Spec
<1>4. Shape /\ NothingBehind /\ [Next]_vars =>
        [life = "flushing" /\ life' = "draining" => buffer' = <<>> \/ DirectPutFails]_vars
  BY <1>1
<1> QED
  BY <1>3, <1>4, ShapeHolds, PTL DEF Spec, ShutdownSavesBuffer

----------------------------------------------------------------------------
(* What objects move where *)

\* The objects that threads write, and those that are on their way to S3.
Written == UNION {Range(writer[t].objs) : t \in Threads}
Sent == Disk!InFlight \cup late

\* A power cut puts the directory back.
Undone == "power" \in Faults /\ visible' = durable

LEMMA Sending ==
  ASSUME SpoolOK, NEW others, Uploads(others)
  PROVE  s3' \subseteq s3 \cup Sent /\ Sent' \subseteq Sent \cup visible \cup others
<1>1. up \in Files!Uploader
  BY DEF SpoolOK, Files!Typed, Files!TypeOK
<1>2. CASE Disk!BeginPass \/ Disk!JournalCommit \/ Disk!StartProcess
  BY <1>2 DEF Disk!BeginPass, Disk!JournalCommit, Disk!StartProcess, Disk!UploadKeeps,
              Disk!IdleUploader, Disk!InFlight, Sent
<1>3. CASE Disk!CancelUploads(others) \/ Disk!LatePut
  BY <1>3 DEF Disk!CancelUploads, Disk!LatePut, Disk!IdleUploader, Disk!InFlight, Sent
<1>4. CASE Disk!ReadFile \/ Disk!SkipFile \/ Disk!EndPass
  BY <1>1, <1>4 DEF Disk!ReadFile, Disk!SkipFile, Disk!EndPass, Disk!UploadKeeps, Disk!IdleUploader,
                    Disk!InFlight, Files!Uploader, Sent
<1>5. CASE Disk!PutOk \/ Disk!PutFails
  <2>1. Disk!InFlight = up.obj /\ late' = late /\ s3' \subseteq s3 \cup up.obj
    BY <1>5 DEF Disk!PutOk, Disk!PutFails, Disk!InFlight
  <2>2. Disk!InFlight' = {}
    BY <1>1, <1>5 DEF Disk!PutOk, Disk!PutFails, Disk!InFlight, Disk!IdleUploader, Files!Uploader
  <2> QED
    BY <2>1, <2>2 DEF Sent
<1>6. CASE Disk!DeleteUploaded \/ Disk!DeleteFails
  <2>1. late' = late /\ s3' = s3
    BY <1>6 DEF Disk!DeleteUploaded, Disk!DeleteFails, Disk!UploadKeeps
  <2>2. Disk!InFlight' = {}
    BY <1>1, <1>6 DEF Disk!DeleteUploaded, Disk!DeleteFails, Disk!InFlight, Files!Uploader
  <2> QED
    BY <2>1, <2>2 DEF Sent
<1> QED
  BY <1>2, <1>3, <1>4, <1>5, <1>6 DEF Uploads, Disk!UploadStep, Disk!UploadProgress

\* The spool, step by step: where its objects come from and where they go.
Carried ==
  /\ Written' \subseteq Written
       \/ (phase = "objects" /\ Written' \subseteq Written \cup Range(DayRuns(batch)))
  /\ Sent' \subseteq Sent \cup visible \cup Range(direct)
  /\ s3 \subseteq s3' /\ s3' \subseteq s3 \cup Sent \cup Range(direct)
  /\ evicted \subseteq evicted' /\ evicted' \subseteq evicted \cup visible
  /\ visible' \subseteq visible \cup Written \/ Undone
  /\ visible \subseteq visible' \cup s3 \cup evicted' \/ Undone

LEMMA EveryStepCarries == ASSUME Shape, [Next]_vars PROVE Carried
<1>a. SpoolOK /\ Control /\ Calls
  BY DEF Shape
<1>b. FlushThread \in Threads /\ "loop" \in Threads
  BY DEF FlushThread, Threads
<1>c. DirectInFlight \in SUBSET Object /\ DirectInFlight \subseteq Range(direct)
  BY <1>a, DirectHead DEF DirectInFlight
<1>d. Range(<<>>) = {}
  BY DEF Range
<1>e. (\A t \in Threads : writer'[t].objs = writer[t].objs \/ writer'[t].objs = <<>>)
        => Written' \subseteq Written
  BY <1>d DEF Written
<1>1. CASE \E t \in Threads : WriterStep(t)
  <2> PICK t \in Threads : WriterStep(t)
    BY <1>1
  <2>1. Disk!WriterStep(t)
    BY DEF WriterStep
  <2>2. /\ Files!CallStep(writer[t], writer'[t]) /\ writer'[t].objs = writer[t].objs
        /\ \A s \in Threads \ {t} : writer'[s] = writer[s]
        /\ visible \subseteq visible' \cup evicted' /\ evicted \subseteq evicted'
        /\ UNCHANGED <<s3, up, late>>
    BY <1>a, <2>1, Writing
  <2>3. Written' \subseteq Written
    BY <1>e, <2>2
  <2>4. visible' \subseteq visible \cup Written
    <3>1. DOMAIN writer[t].objs = 1..Len(writer[t].objs)
      BY <1>a, SpoolSets, LenProperties
    <3>2. visible' \subseteq visible \cup Range(writer[t].objs)
      BY <2>2, <3>1 DEF Files!CallStep, Files!Renames, Range
    <3> QED
      BY <3>2 DEF Written
  <2>5. Sent' = Sent
    BY <2>2 DEF Sent, Disk!InFlight
  <2> QED
    BY <2>1, <2>2, <2>3, <2>4, <2>5, EvictedWasThere DEF Carried
<1>2. ASSUME NEW others \in SUBSET Object, others \subseteq Range(direct), Uploads(others)
      PROVE  Carried
  <2>1. /\ writer' = writer /\ evicted' = evicted
        /\ visible' \subseteq visible /\ visible \subseteq visible' \cup s3 /\ s3 \subseteq s3'
    BY <1>a, <1>2, Uploading
  <2>2. s3' \subseteq s3 \cup Sent /\ Sent' \subseteq Sent \cup visible \cup others
    BY <1>a, <1>2, Sending
  <2>3. Written' \subseteq Written
    BY <1>e, <2>1
  <2>4. Sent' \subseteq Sent \cup visible \cup Range(direct)
    BY <1>2, <2>2
  <2> QED
    BY <2>1, <2>2, <2>3, <2>4 DEF Carried
<1>3. CASE \/ BeginPass \/ UploadStep \/ LatePut \/ JournalCommit \/ BeginLastPass \/ Start
  <2>1. Uploads({})
    BY <1>3 DEF BeginPass, UploadStep, LatePut, JournalCommit, BeginLastPass, Start, Uploads
  <2>2. {} \in SUBSET Object /\ {} \subseteq Range(direct)
    OBVIOUS
  <2> QED
    BY <1>2, <2>1, <2>2
<1>4. CASE Shutdown
  BY <1>2, <1>4, <1>c DEF Shutdown, Uploads
<1>5. CASE Exit \/ Kill \/ PowerCut
  <2>1. PICK others \in SUBSET Object :
          others \subseteq Range(direct) /\ (Disk!PowerCut(others) \/ Disk!ProcessEnds(others))
    BY <1>5, <1>c DEF Exit, Kill, PowerCut
  <2>2. /\ \A t \in Threads : writer'[t].objs = <<>>
        /\ evicted' = evicted /\ s3 \subseteq s3'
        /\ visible' = visible \/ Undone
    BY <1>a, <2>1, Ending DEF Undone
  <2>3. s3' \subseteq s3 \cup Sent \cup others /\ Sent' = {}
    BY <2>1 DEF Disk!PowerCut, Disk!ProcessEnds, Disk!ThreadsDie, Disk!InFlight, Disk!IdleUploader, Sent
  <2> QED
    BY <1>e, <2>1, <2>2, <2>3 DEF Carried
<1>6. ASSUME UNCHANGED <<visible, evicted, up, late>>, s3 \subseteq s3', s3' \subseteq s3 \cup Range(direct),
             \/ Written' \subseteq Written
             \/ phase = "objects" /\ Written' \subseteq Written \cup Range(DayRuns(batch))
      PROVE  Carried
  BY <1>6 DEF Carried, Sent, Disk!InFlight
<1>7. CASE Spooled \/ SpoolRefused \/ ResultDiscarded
  <2>1. PICK t \in Threads : Disk!Collect(t)
    BY <1>7, <1>b DEF Spooled, SpoolRefused, ResultDiscarded
  <2>2. /\ writer'[t].objs = <<>> /\ \A s \in Threads \ {t} : writer'[s] = writer[s]
        /\ UNCHANGED <<visible, s3, up, late, evicted>>
    BY <1>a, <2>1, Collecting
  <2> QED
    BY <1>e, <1>6, <2>2
<1>8. CASE BeginWrite
  <2>1. phase = "objects" /\ Disk!Submit(FlushThread, DayRuns(batch)) /\ batch # <<>>
    BY <1>a, <1>8 DEF BeginWrite, Control
  <2>2. DayRuns(batch) \in Seq(Object)
    BY <2>1, BatchRuns DEF Shape
  <2>3. /\ writer'[FlushThread].objs = DayRuns(batch)
        /\ \A s \in Threads \ {FlushThread} : writer'[s] = writer[s]
        /\ UNCHANGED <<visible, s3, up, late, evicted>>
    BY <1>a, <1>b, <2>1, <2>2, Submitting
  <2>4. Written' \subseteq Written \cup Range(DayRuns(batch))
    BY <2>3 DEF Written
  <2> QED
    BY <1>6, <2>1, <2>3, <2>4
<1>9. CASE DirectPut \/ DirectPutFails
  <2>1. /\ phase = "direct"
        /\ Disk!DirectPutOk(Head(direct)) \/ Disk!DirectPutFails(Head(direct))
    BY <1>9 DEF DirectPut, DirectPutFails
  <2>2. Head(direct) \in Object /\ Head(direct) \in Range(direct)
    BY <1>a, <2>1, DirectHead
  <2>3. /\ UNCHANGED <<visible, writer, up, late, evicted>>
        /\ s3 \subseteq s3' /\ s3' \subseteq s3 \cup {Head(direct)}
    BY <1>a, <2>1, <2>2, PuttingDirectly
  <2> QED
    BY <1>e, <1>6, <2>2, <2>3
<1>10. CASE Capture \/ BeginFlush \/ NothingToFlush \/ StopReturns \/ UNCHANGED vars
  <2>1. UNCHANGED diskVars
    BY <1>10 DEF Capture, BeginFlush, NothingToFlush, StopReturns, vars
  <2> QED
    BY <1>e, <1>6, <2>1 DEF diskVars
<1> QED
  BY <1>1, <1>3, <1>4, <1>5, <1>7, <1>8, <1>9, <1>10 DEF Next, FlushStep, StopStep, Threads

----------------------------------------------------------------------------
(* Frames in the queue *)

LEMMA TrimSplits ==
  ASSUME NEW S, NEW q \in Seq(S), NEW bytes, Buf!Trim(q, bytes)
  PROVE  /\ Range(buffer') \subseteq Range(q) /\ Range(q) \subseteq Range(buffer') \cup trimmed'
         /\ trimmed \subseteq trimmed' /\ trimmed' \subseteq trimmed \cup Range(q)
<1>1. PICK k \in 0..Len(q) : /\ buffer' = SubSeq(q, k + 1, Len(q))
                             /\ trimmed' = trimmed \cup Buf!Range(SubSeq(q, 1, k))
  BY DEF Buf!Trim
<1>2. Len(q) \in Nat /\ k \in Nat /\ k <= Len(q) /\ DOMAIN q = 1..Len(q)
  BY LenProperties
<1> DEFINE l == Len(q)
           front == [i \in 1..k |-> q[i]]
           back == [i \in 1..(l - k) |-> q[k + i]]
<1>3. SubSeq(q, 1, k) = front /\ SubSeq(q, k + 1, l) = back
  BY <1>2, Z3
<1>4. Range(front) = {q[i] : i \in 1..k} /\ Range(back) = {q[k + i] : i \in 1..(l - k)}
  BY DEF Range
<1>5. \A i \in 1..(l - k) : k + i \in 1..l
  BY <1>2
<1>6. \A i \in 1..k : i \in 1..l
  BY <1>2
<1>7. \A i \in 1..l : i \in 1..k \/ (i - k \in 1..(l - k) /\ k + (i - k) = i)
  BY <1>2
<1>8. Range(q) = {q[i] : i \in 1..l}
  BY <1>2 DEF Range
<1>9. Range(front) \subseteq Range(q) /\ Range(back) \subseteq Range(q)
  BY <1>4, <1>5, <1>6, <1>8
<1>10. Range(q) \subseteq Range(front) \cup Range(back)
  <2> SUFFICES ASSUME NEW i \in 1..l PROVE q[i] \in Range(front) \cup Range(back)
    BY <1>8
  <2> QED
    BY <1>4, <1>7
<1>11. buffer' = back /\ trimmed' = trimmed \cup Range(front)
  BY <1>1, <1>3 DEF Buf!Range, Range
<1> HIDE DEF front, back
<1> QED
  BY <1>9, <1>10, <1>11

\* The frames that the buffer and the flush hold.
Queued == Range(buffer) \cup Range(batch)

LEMMA QueueMoves ==
  ASSUME Queue!IInv, [Next]_vars, ~Capture
  PROVE  /\ rx' = rx /\ Queued' \subseteq Queued
         /\ trimmed \subseteq trimmed' /\ trimmed' \subseteq trimmed \cup Queued
<1>a. Range(<<>>) = {}
  BY DEF Range
<1>1. CASE UNCHANGED bufVars
  BY <1>1 DEF bufVars, Queued
<1>2. CASE Buf!TakeBuffer \/ Buf!PlaceBatch \/ Buf!CancelFlush \/ Buf!ProcessEnds
  BY <1>a, <1>2 DEF Buf!TakeBuffer, Buf!PlaceBatch, Buf!CancelFlush, Buf!ProcessEnds, Buf!ledgers, Queued
<1>3. CASE Buf!ReturnBuffer
  <2>1. buffer \in Seq(1..rx) /\ batch \in Seq(1..rx)
    BY QueueSets
  <2>2. batch \o buffer \in Seq(1..rx) /\ Range(batch \o buffer) = Queued
    <3>1. Range(batch \o buffer) = Range(batch) \cup Range(buffer)
      BY <2>1, RangeConcatenation
    <3> QED
      BY <2>1, <3>1 DEF Queued
  <2>3. /\ Range(buffer') \subseteq Queued
        /\ trimmed \subseteq trimmed' /\ trimmed' \subseteq trimmed \cup Queued
    BY <1>3, <2>2, TrimSplits DEF Buf!ReturnBuffer
  <2> QED
    BY <1>3, <1>a, <2>3 DEF Buf!ReturnBuffer, Queued
<1>4. CASE FlushStep
  BY <1>1, <1>2, <1>3, <1>4 DEF FlushStep, BeginFlush, BeginWrite, NothingToFlush, Spooled, SpoolRefused,
                                DirectPut, DirectPutFails
<1>5. CASE StopStep
  BY <1>1, <1>2, <1>5 DEF StopStep, ResultDiscarded, BeginLastPass, StopReturns, Exit, SpoolOnly
<1>6. CASE Kill \/ PowerCut \/ Shutdown \/ Start
  BY <1>1, <1>2, <1>6 DEF Kill, PowerCut, Shutdown, Start
<1>7. CASE BeginPass \/ UploadStep \/ LatePut \/ JournalCommit \/ \E t \in Threads : WriterStep(t)
  BY <1>1, <1>7 DEF BeginPass, UploadStep, LatePut, JournalCommit, WriterStep, SpoolOnly
<1> QED
  BY <1>1, <1>4, <1>5, <1>6, <1>7 DEF Next, Threads, vars

LEMMA CaptureMoves ==
  ASSUME Queue!IInv, Capture
  PROVE  /\ rx \in Nat /\ rx < MaxFrames /\ rx' = rx + 1 /\ batch' = batch
         /\ Range(buffer') \subseteq Range(buffer) \cup {rx + 1}
         /\ Range(buffer) \cup {rx + 1} \subseteq Range(buffer') \cup trimmed'
         /\ trimmed \subseteq trimmed' /\ trimmed' \subseteq trimmed \cup Range(buffer) \cup {rx + 1}
<1>1. rx \in Nat /\ buffer \in Seq(1..rx)
  BY QueueSets
<1>2. buffer \in Seq(Nat) /\ rx + 1 \in Nat
  <2>1. 1..rx \subseteq Nat
    BY <1>1
  <2> QED
    BY <1>1, <2>1
<1> DEFINE q == Append(buffer, rx + 1)
<1>3. q \in Seq(Nat) /\ Range(q) = Range(buffer) \cup {rx + 1}
  <2>1. Range(q) = Range(buffer) \cup {rx + 1}
    BY <1>2, AppendProperties, LenProperties DEF Range
  <2> QED
    BY <1>2, <2>1
<1>4. Buf!Trim(q, bufferBytes + 1)
  <2>1. rx + 1 \in Frame
    BY <1>1, LoggerAssumption DEF Capture, Buf!Receive, Frame
  <2> QED
    BY <2>1 DEF Capture, Buf!Receive
<1> HIDE DEF q
<1>5. /\ Range(buffer') \subseteq Range(q) /\ Range(q) \subseteq Range(buffer') \cup trimmed'
      /\ trimmed \subseteq trimmed' /\ trimmed' \subseteq trimmed \cup Range(q)
  BY <1>3, <1>4, TrimSplits
<1> QED
  BY <1>1, <1>3, <1>5 DEF Capture, Buf!Receive

----------------------------------------------------------------------------
(* The invariant *)

HeldIsOld == \A o \in s3 \cup Sent : o \subseteq 1..rx

DirectIsBatch == UNION Range(direct) \subseteq Range(batch)

Custodial == Filing /\ HeldIsOld /\ DirectIsBatch

LEMMA CustodialInit == Init => Custodial
<1> SUFFICES ASSUME Init PROVE Custodial
  OBVIOUS
<1>1. Shape
  BY ShapeInit
<1>2. /\ visible = {} /\ durable = {} /\ life = "running" /\ direct = <<>> /\ s3 = {}
      /\ Sent = {}
  BY DEF Init, Sent, Disk!InFlight, Disk!IdleUploader
<1> QED
  BY <1>1, <1>2 DEF Custodial, Filing, FilesAreOld, DurableIsSafe, Orphaned, HeldIsOld, DirectIsBatch,
                    Range

LEMMA HeldNext == ASSUME Custodial, [Next]_vars PROVE HeldIsOld'
<1>a. Shape /\ Queue!IInv /\ FilesAreOld /\ HeldIsOld /\ DirectIsBatch
  BY DEF Custodial, Filing, Shape
<1>1. rx \in Nat /\ rx' \in Nat /\ rx <= rx' /\ Range(batch) \subseteq 1..rx
  BY <1>a, QueueSets, QueueGrows
<1>2. \A o \in s3' \cup Sent' : o \in s3 \cup Sent \cup visible \cup Range(direct)
  BY <1>a, EveryStepCarries DEF Carried
<1>3. \A o \in Range(direct) : o \subseteq 1..rx
  BY <1>a, <1>1 DEF DirectIsBatch
<1>4. \A o \in s3' \cup Sent' : o \subseteq 1..rx
  BY <1>a, <1>2, <1>3 DEF HeldIsOld, FilesAreOld
<1>5. 1..rx \subseteq 1..rx'
  BY <1>1
<1> QED
  BY <1>4, <1>5 DEF HeldIsOld

LEMMA DirectIsBatchNext == ASSUME Custodial, [Next]_vars PROVE DirectIsBatch'
<1>a. Shape /\ Queue!IInv /\ Control /\ Calls /\ DirectIsBatch
  BY DEF Custodial, Filing, Shape
<1>b. Range(<<>>) = {}
  BY DEF Range
<1>1. CASE UNCHANGED <<batch, direct>>
  BY <1>a, <1>1 DEF DirectIsBatch
<1>2. CASE direct' = <<>>
  BY <1>b, <1>2 DEF DirectIsBatch
<1>3. CASE BeginFlush
  BY <1>a, <1>2, <1>3 DEF BeginFlush, Control
<1>4. CASE SpoolRefused
  <2>1. direct' = DayRuns(batch) /\ batch' = batch /\ batch # <<>>
    BY <1>a, <1>4 DEF SpoolRefused, bufVars, Calls, Control
  <2>2. UNION Range(direct') = Range(batch')
    BY <1>a, <2>1, BatchRuns
  <2> QED
    BY <2>2 DEF DirectIsBatch
<1>5. CASE DirectPut
  <2>1. CASE Tail(direct) = <<>>
    BY <1>2, <1>5, <2>1 DEF DirectPut, FlushReturns
  <2>2. CASE Tail(direct) # <<>>
    <3>1. direct' = Tail(direct) /\ batch' = batch /\ phase = "direct"
      BY <1>5, <2>2 DEF DirectPut, bufVars
    <3>2. Range(direct') \subseteq Range(direct)
      BY <1>a, <3>1, DirectHead
    <3> QED
      BY <1>a, <3>1, <3>2 DEF DirectIsBatch
  <2> QED
    BY <2>1, <2>2
<1>6. CASE Spooled \/ DirectPutFails \/ Shutdown \/ Kill \/ PowerCut
  BY <1>2, <1>6 DEF Spooled, DirectPutFails, Shutdown, Kill, PowerCut, FlushReturns
<1>7. CASE Exit
  BY <1>2, <1>a, <1>7 DEF Exit, Control
<1>8. CASE Capture \/ BeginWrite \/ ResultDiscarded \/ Behind \/ \E t \in Threads : WriterStep(t)
  BY <1>1, <1>8 DEF Capture, BeginWrite, Buf!Receive, ResultDiscarded, Behind, WriterStep, SpoolOnly, bufVars
<1> QED
  BY <1>a, <1>3, <1>4, <1>5, <1>6, <1>7, <1>8, StepsBehind DEF Next, FlushStep, StopStep, Threads

LEMMA CustodialHolds == Spec => []Custodial
<1>1. Custodial /\ [Next]_vars => Custodial'
  BY FilingNext, HeldNext, DirectIsBatchNext DEF Custodial
<1> QED
  BY CustodialInit, <1>1, PTL DEF Spec

----------------------------------------------------------------------------
(* Frames *)

Dropped == trimmed \cup Counted

\* Where a frame is, one place at a time.
Located ==
  \A f \in Frame :
    /\ f \in InS3 => Whereabouts(f) = "s3"
    /\ f \in OnDisk \ InS3 => Whereabouts(f) = "disk"
    /\ f \in InMemory \ (InS3 \cup OnDisk) => Whereabouts(f) = "ram"
    /\ f \in Dropped \ (InS3 \cup OnDisk \cup InMemory) => Whereabouts(f) = "dropped"
    /\ f \notin InS3 \cup OnDisk \cup InMemory \cup Dropped => Whereabouts(f) = "dead"

LEMMA EveryFrameIsLocated == Located
BY DEF Located, Whereabouts, Dropped

\* What memory holds, by who holds it.
MemoryHolds == InMemory = Queued \cup (UNION Written) \cup (UNION Sent)

LEMMA MemoryIs == MemoryHolds
<1>1. (UNION {UNION Range(writer[t].objs) : t \in {"loop", "stop"}}) = UNION Written
  BY DEF Written, Threads
<1>2. (UNION Disk!InFlight) \cup (UNION late) = UNION Sent
  BY DEF Sent
<1> QED
  BY <1>1, <1>2 DEF InMemory, Queued, MemoryHolds

\* Every step but a capture, on the four places.
FramesMove ==
  /\ InS3 \subseteq InS3' /\ InS3' \subseteq InS3 \cup InMemory
  /\ OnDisk' \subseteq OnDisk \cup InMemory \/ (Undone /\ OnDisk' \subseteq OnDisk \cup InS3 \cup Dropped)
  /\ OnDisk \subseteq OnDisk' \cup InS3' \cup Dropped' \/ Undone
  /\ InMemory' \subseteq InMemory \cup OnDisk
  /\ Dropped \subseteq Dropped' /\ Dropped' \subseteq Dropped \cup InMemory \cup OnDisk

LEMMA EveryStepMoves ==
  ASSUME Custodial, [Next]_vars, ~Capture,
         Repaid, Repaid'
  PROVE  rx' = rx /\ FramesMove
<1>a. Shape /\ Queue!IInv /\ Control /\ DirectIsBatch /\ DurableIsSafe
  BY DEF Custodial, Filing, Shape
<1>b. Carried
  BY <1>a, EveryStepCarries
<1>c. /\ rx' = rx /\ Queued' \subseteq Queued
      /\ trimmed \subseteq trimmed' /\ trimmed' \subseteq trimmed \cup Queued
  BY <1>a, QueueMoves
<1>d. InMemory = Queued \cup (UNION Written) \cup (UNION Sent)
  BY MemoryIs DEF MemoryHolds
<1>e. InMemory' = Queued' \cup (UNION Written') \cup (UNION Sent')
  <2>1. MemoryHolds'
    BY MemoryIs, PTL
  <2> QED
    BY <2>1 DEF MemoryHolds
<1>f. UNION Range(direct) \subseteq Queued
  BY <1>a DEF DirectIsBatch, Queued
<1>g. UNION Written' \subseteq (UNION Written) \cup Queued
  <2>1. CASE Written' \subseteq Written
    BY <2>1
  <2>2. CASE phase = "objects" /\ Written' \subseteq Written \cup Range(DayRuns(batch))
    <3>1. UNION Range(DayRuns(batch)) = Range(batch)
      BY <1>a, <2>2, BatchRuns DEF Control
    <3> QED
      BY <2>2, <3>1 DEF Queued
  <2> QED
    BY <1>b, <2>1, <2>2 DEF Carried
<1>h. UNION Sent' \subseteq (UNION Sent) \cup OnDisk \cup Queued
  BY <1>b, <1>f DEF Carried, OnDisk
<1>1. InS3 \subseteq InS3' /\ InS3' \subseteq InS3 \cup InMemory
  BY <1>b, <1>d, <1>f DEF Carried, InS3
<1>2. InMemory' \subseteq InMemory \cup OnDisk
  BY <1>c, <1>d, <1>e, <1>g, <1>h
<1>3. OnDisk' \subseteq OnDisk \cup InMemory \/ (Undone /\ OnDisk' \subseteq OnDisk \cup InS3 \cup Dropped)
  <2>1. CASE visible' \subseteq visible \cup Written
    BY <1>d, <2>1 DEF OnDisk
  <2>2. CASE Undone
    <3>1. OnDisk' \subseteq OnDisk \cup InS3 \cup Evicted
      BY <1>a, <2>2 DEF Undone, OnDisk, InS3, Evicted, DurableIsSafe, Safe
    <3> QED
      BY <2>2, <3>1 DEF Dropped, Repaid
  <2> QED
    BY <1>b, <2>1, <2>2 DEF Carried
<1>4. OnDisk \subseteq OnDisk' \cup InS3' \cup Dropped' \/ Undone
  <2>1. CASE visible \subseteq visible' \cup s3 \cup evicted'
    <3>1. visible \subseteq visible' \cup s3' \cup evicted'
      BY <1>b, <2>1 DEF Carried
    <3>2. OnDisk \subseteq OnDisk' \cup InS3' \cup Evicted'
      BY <3>1 DEF OnDisk, InS3, Evicted
    <3> QED
      BY <3>2 DEF Dropped, Repaid
  <2> QED
    BY <1>b, <2>1 DEF Carried
<1>5. Counted \subseteq Counted' /\ Counted' \subseteq Counted \cup OnDisk
  BY CountedGrows DEF Counted, OnDisk
<1>6. Dropped \subseteq Dropped' /\ Dropped' \subseteq Dropped \cup InMemory \cup OnDisk
  BY <1>c, <1>d, <1>5 DEF Dropped
<1> QED
  BY <1>c, <1>1, <1>2, <1>3, <1>4, <1>6 DEF FramesMove

\* Whether a frame that was at a may be at b after any step but a capture.
Allowed(a, b) ==
  \/ a = b
  \/ <<a, b>> \in Promise!HandOver \cup Promise!Losses
  \/ Undone /\ <<a, b>> \in {<<"disk", "dead">>, <<"dropped", "disk">>}

LEMMA LocatedMoves ==
  ASSUME Located, Located', FramesMove, NEW f \in Frame
  PROVE  Allowed(Whereabouts(f), Whereabouts(f)')
<1> DEFINE a == Whereabouts(f)
           b == Whereabouts(f)'
<1>a. /\ f \in InS3 => a = "s3"
      /\ f \in OnDisk \ InS3 => a = "disk"
      /\ f \in InMemory \ (InS3 \cup OnDisk) => a = "ram"
      /\ f \in Dropped \ (InS3 \cup OnDisk \cup InMemory) => a = "dropped"
      /\ f \notin InS3 \cup OnDisk \cup InMemory \cup Dropped => a = "dead"
  BY DEF Located
<1>b. /\ f \in InS3' => b = "s3"
      /\ f \in OnDisk' \ InS3' => b = "disk"
      /\ f \in InMemory' \ (InS3' \cup OnDisk') => b = "ram"
      /\ f \in Dropped' \ (InS3' \cup OnDisk' \cup InMemory') => b = "dropped"
      /\ f \notin InS3' \cup OnDisk' \cup InMemory' \cup Dropped' => b = "dead"
  BY DEF Located
<1>c. /\ f \in InS3 => f \in InS3'
      /\ f \in InS3' => f \in InS3 \/ f \in InMemory
      /\ f \in OnDisk' => f \in OnDisk \/ f \in InMemory \/ (Undone /\ (f \in InS3 \/ f \in Dropped))
      /\ f \in OnDisk => f \in OnDisk' \/ f \in InS3' \/ f \in Dropped' \/ Undone
      /\ f \in InMemory' => f \in InMemory \/ f \in OnDisk
      /\ f \in Dropped => f \in Dropped'
      /\ f \in Dropped' => f \in Dropped \/ f \in InMemory \/ f \in OnDisk
  BY DEF FramesMove
<1> SUFFICES Allowed(a, b)
  OBVIOUS
<1> HIDE DEF a, b
<1>m. /\ Allowed("ram", "ram") /\ Allowed("ram", "disk") /\ Allowed("ram", "s3")
      /\ Allowed("ram", "dropped") /\ Allowed("ram", "dead")
      /\ Allowed("disk", "disk") /\ Allowed("disk", "s3") /\ Allowed("disk", "ram")
      /\ Allowed("disk", "dropped") /\ (Undone => Allowed("disk", "dead"))
      /\ Allowed("s3", "s3") /\ Allowed("dropped", "dropped") /\ Allowed("dead", "dead")
      /\ (Undone => Allowed("dropped", "disk"))
  BY DEF Allowed, Promise!HandOver, Promise!Losses
<1>1. CASE f \in InS3
  BY <1>1, <1>a, <1>b, <1>c, <1>m
<1>2. CASE f \in OnDisk \ InS3
  BY <1>2, <1>a, <1>b, <1>c, <1>m
<1>3. CASE f \in InMemory \ (InS3 \cup OnDisk)
  BY <1>3, <1>a, <1>b, <1>c, <1>m
<1>4. CASE f \in Dropped \ (InS3 \cup OnDisk \cup InMemory)
  BY <1>4, <1>a, <1>b, <1>c, <1>m
<1>5. CASE f \notin InS3 \cup OnDisk \cup InMemory \cup Dropped
  BY <1>5, <1>a, <1>b, <1>c, <1>m
<1> QED
  BY <1>1, <1>2, <1>3, <1>4, <1>5

\* What Custody sees of a frame.
Seen(f) == IF f > rx THEN "bus" ELSE Whereabouts(f)

LEMMA SeenIsAPlace == \A f \in Frame : Seen(f) \in Promise!Place
BY DEF Seen, Whereabouts, Promise!Place

SeenPlaces == \A f \in Frame : Seen(f) \in Promise!Place

SeenMap == [f \in Frame |-> Seen(f)]

LEMMA OtherStepsKeepCustody ==
  ASSUME Custodial, [Next]_vars, ~Capture, Located, Located', SeenPlaces',
         Repaid, Repaid'
  PROVE  Promise!Next
<1>1. rx' = rx /\ FramesMove
  BY EveryStepMoves
<1>2. SeenMap' \in [Frame -> Promise!Place]
  BY DEF SeenPlaces, SeenMap
<1>3. \A f \in Frame : SeenMap[f] = Seen(f) /\ SeenMap'[f] = Seen(f)'
  BY DEF SeenMap
<1>4. \A f \in Frame : Allowed(SeenMap[f], SeenMap'[f])
  <2> SUFFICES ASSUME NEW f \in Frame PROVE Allowed(Seen(f), Seen(f)')
    BY <1>3
  <2>1. CASE f > rx
    BY <1>1, <2>1 DEF Seen, Allowed
  <2>2. CASE ~(f > rx)
    <3>1. Allowed(Whereabouts(f), Whereabouts(f)')
      BY <1>1, LocatedMoves
    <3> QED
      BY <1>1, <2>2, <3>1 DEF Seen
  <2> QED
    BY <2>1, <2>2
<1>5. CASE Undone
  <2>1. "power" \in Faults
    BY <1>5 DEF Undone
  <2>2. \A f \in Frame : \/ SeenMap'[f] = SeenMap[f]
                         \/ <<SeenMap[f], SeenMap'[f]>> \in Promise!HandOver \cup Promise!Losses
                              \cup {<<"disk", "dead">>, <<"dropped", "disk">>}
    BY <1>4 DEF Allowed
  <2>3. Promise!PowerCut
    BY <1>2, <2>1, <2>2 DEF Promise!PowerCut, Promise!Moves, SeenMap, Seen
  <2> QED
    BY <2>3 DEF Promise!Next
<1>6. CASE ~Undone
  <2>1. \A f \in Frame : \/ SeenMap'[f] = SeenMap[f]
                         \/ <<SeenMap[f], SeenMap'[f]>> \in Promise!HandOver \cup Promise!Losses
    BY <1>4, <1>6 DEF Allowed
  <2>2. Promise!Move
    BY <1>2, <2>1 DEF Promise!Move, Promise!Moves, SeenMap, Seen
  <2> QED
    BY <2>2 DEF Promise!Next
<1> QED
  BY <1>5, <1>6

LEMMA CaptureKeepsCustody ==
  ASSUME Custodial, Capture, Located, Located', SeenPlaces', MemoryHolds, MemoryHolds'
  PROVE  Promise!Capture
<1>a. Queue!IInv /\ FilesAreOld /\ HeldIsOld
  BY DEF Custodial, Filing, Shape
<1>b. /\ rx \in Nat /\ rx < MaxFrames /\ rx' = rx + 1 /\ batch' = batch
      /\ Range(buffer') \subseteq Range(buffer) \cup {rx + 1}
      /\ Range(buffer) \cup {rx + 1} \subseteq Range(buffer') \cup trimmed'
      /\ trimmed \subseteq trimmed' /\ trimmed' \subseteq trimmed \cup Range(buffer) \cup {rx + 1}
  BY <1>a, CaptureMoves
<1>c. UNCHANGED diskVars
  BY DEF Capture
<1>d. /\ InS3' = InS3 /\ OnDisk' = OnDisk /\ Counted' = Counted
      /\ Written' = Written /\ Sent' = Sent
  BY <1>c DEF diskVars, InS3, OnDisk, Counted, Written, Sent, Disk!InFlight
<1>e. /\ InMemory = Queued \cup (UNION Written) \cup (UNION Sent)
      /\ InMemory' = Queued' \cup (UNION Written') \cup (UNION Sent')
  BY DEF MemoryHolds
<1>n. PICK new \in Frame : new = rx + 1
  BY <1>b, LoggerAssumption DEF Frame
<1>f. new \in Frame /\ new > rx /\ ~(new > rx')
  BY <1>b, <1>n
<1>g. new \notin InS3 /\ new \notin OnDisk
  <2>1. \A o \in visible \cup s3 : new \notin o
    <3>1. \A o \in visible \cup s3 : o \subseteq 1..rx
      BY <1>a DEF FilesAreOld, HeldIsOld
    <3>2. new \notin 1..rx
      BY <1>b, <1>n
    <3> QED
      BY <3>1, <3>2
  <2> QED
    BY <2>1 DEF InS3, OnDisk
<1>1. SeenMap' \in [Frame -> Promise!Place]
  BY DEF SeenPlaces, SeenMap
<1>2. \A f \in Frame : SeenMap[f] = Seen(f) /\ SeenMap'[f] = Seen(f)'
  BY DEF SeenMap
<1>3. SeenMap[new] = "bus" /\ SeenMap'[new] \in {"ram", "dropped"}
  <2>1. Seen(new) = "bus" /\ Seen(new)' = Whereabouts(new)'
    BY <1>b, <1>f DEF Seen
  <2>2. new \in InMemory' \/ new \in Dropped'
    BY <1>b, <1>e, <1>n DEF Queued, Dropped
  <2>3. Whereabouts(new)' \in {"ram", "dropped"}
    BY <1>d, <1>f, <1>g, <2>2 DEF Located
  <2> QED
    BY <1>2, <1>f, <2>1, <2>3
<1>4. ASSUME NEW f \in Frame \ {new}
      PROVE  SeenMap'[f] = SeenMap[f] \/ <<SeenMap[f], SeenMap'[f]>> \in {<<"ram", "dropped">>}
  <2>1. CASE f > rx
    <3>1. f > rx'
      BY <1>b, <1>n, <2>1 DEF Frame
    <3>2. Seen(f) = "bus" /\ Seen(f)' = "bus"
      BY <2>1, <3>1 DEF Seen
    <3> QED
      BY <1>2, <3>2
  <2>2. CASE ~(f > rx)
    <3>1. Seen(f) = Whereabouts(f) /\ Seen(f)' = Whereabouts(f)'
      <4>1. ~(f > rx')
        BY <1>b, <2>2 DEF Frame
      <4> QED
        BY <2>2, <4>1 DEF Seen
    <3>2. /\ f \in InMemory' => f \in InMemory
          /\ f \in InMemory => f \in InMemory' \/ f \in Dropped'
          /\ f \in Dropped => f \in Dropped'
          /\ f \in Dropped' => f \in Dropped \/ f \in InMemory
          /\ f \in InS3' <=> f \in InS3
          /\ f \in OnDisk' <=> f \in OnDisk
      BY <1>b, <1>d, <1>e, <1>n DEF Queued, Dropped
    <3> DEFINE a == Whereabouts(f)
               b == Whereabouts(f)'
    <3>3. /\ f \in InS3 => a = "s3"
          /\ f \in OnDisk \ InS3 => a = "disk"
          /\ f \in InMemory \ (InS3 \cup OnDisk) => a = "ram"
          /\ f \in Dropped \ (InS3 \cup OnDisk \cup InMemory) => a = "dropped"
          /\ f \notin InS3 \cup OnDisk \cup InMemory \cup Dropped => a = "dead"
      BY DEF Located
    <3>4. /\ f \in InS3' => b = "s3"
          /\ f \in OnDisk' \ InS3' => b = "disk"
          /\ f \in InMemory' \ (InS3' \cup OnDisk') => b = "ram"
          /\ f \in Dropped' \ (InS3' \cup OnDisk' \cup InMemory') => b = "dropped"
          /\ f \notin InS3' \cup OnDisk' \cup InMemory' \cup Dropped' => b = "dead"
      BY DEF Located
    <3> HIDE DEF a, b
    <3>5. b = a \/ (a = "ram" /\ b = "dropped")
      BY <3>2, <3>3, <3>4
    <3> QED
      BY <1>2, <3>1, <3>5 DEF a, b
  <2> QED
    BY <2>1, <2>2
<1>5. Promise!Moves(Frame \ {new}, {<<"ram", "dropped">>})
  BY <1>4 DEF Promise!Moves, SeenMap, Seen
<1> QED
  BY <1>1, <1>3, <1>5, <1>f DEF Promise!Capture, SeenMap, Seen

LEMMA CustodyInit == Init => Promise!Init
<1> SUFFICES ASSUME Init PROVE Promise!Init
  OBVIOUS
<1>1. rx = 0
  BY DEF Init, Buf!Init
<1>2. \A f \in Frame : f > rx
  BY <1>1 DEF Frame
<1> QED
  BY <1>2 DEF Promise!Init

\* The logger implements Custody: whatever the interleaving of capture, flush, worker threads, upload pass,
\* shutdown, kill, power cut and restart, a frame in S3 stays there, a frame that is on its way is lost only
\* with its row in self.dropped or with the memory that held it, and a frame in the spool dies uncounted only
\* by a power cut.  A spool file can be read for as long as it is there: an eviction counts none of the rows
\* of one that cannot.
THEOREM LoggerKeepsCustody ==
  ASSUME "read" \notin Faults PROVE Spec => CustodySpec
<1>1. Custodial /\ [Next]_vars /\ Repaid /\ Repaid' /\ Located /\ Located' /\ SeenPlaces'
        /\ MemoryHolds /\ MemoryHolds' => Promise!Next
  BY OtherStepsKeepCustody, CaptureKeepsCustody DEF Promise!Next
<1>2. [](Located /\ SeenPlaces /\ MemoryHolds)
  <2>1. Located /\ SeenPlaces /\ MemoryHolds
    BY EveryFrameIsLocated, SeenIsAPlace, MemoryIs DEF SeenPlaces
  <2> QED
    BY <2>1, PTL
<1> QED
  BY CustodyInit, CustodialHolds, EvictionsAreSettled, <1>1, <1>2, PTL DEF Spec, CustodySpec, Promise!Spec

----------------------------------------------------------------------------
(* One object per frame *)

\* All frames of one day, so that a batch is one object.
OneDay == \A f, g \in Frame : Day(f) = Day(g)

LEMMA OneRun ==
  ASSUME OneDay, Queue!IInv, batch # <<>>
  PROVE  Len(DayRuns(batch)) = 1 /\ Range(DayRuns(batch)) = {Range(batch)}
<1>1. /\ rx \in Nat /\ rx <= MaxFrames /\ batch \in Seq(1..rx)
  BY QueueSets DEF Queue!IInv, Queue!TypeOK
<1>2. Len(batch) \in Nat \ {0} /\ \A i \in 1..Len(batch) : batch[i] \in Frame
  <2>1. 1..rx \subseteq Frame
    BY <1>1, LoggerAssumption DEF Frame
  <2> QED
    BY <1>1, <2>1
<1>3. RunStarts(batch) = {1}
  <2>1. \A i \in 1..Len(batch) : i # 1 => Day(batch[i]) = Day(batch[i - 1])
    <3> SUFFICES ASSUME NEW i \in 1..Len(batch), i # 1 PROVE Day(batch[i]) = Day(batch[i - 1])
      OBVIOUS
    <3>1. i - 1 \in 1..Len(batch)
      BY <1>2
    <3> QED
      BY <1>2, <3>1 DEF OneDay
  <2> QED
    BY <1>2, <2>1 DEF RunStarts
<1>4. Cardinality(RunStarts(batch)) = 1
  BY <1>3, FS_Singleton
<1>5. /\ DayRuns(batch) \in Seq(Object) /\ UNION Range(DayRuns(batch)) = Range(batch)
  BY BatchRuns
<1>6. DOMAIN DayRuns(batch) = 1..1
  BY <1>4 DEF DayRuns
<1>7. Len(DayRuns(batch)) = 1
  BY <1>5, <1>6, LenProperties
<1>8. Range(DayRuns(batch)) = {DayRuns(batch)[1]}
  BY <1>6 DEF Range
<1> QED
  BY <1>5, <1>7, <1>8

\* What is in the spool, in S3 or on its way there.
Shelf == visible \cup durable \cup s3 \cup Sent

Whole == Shelf \cup Range(direct) \cup Written

\* The batch in hand is on the shelf.
Shelved == phase = "writing" /\ PastLast(writer[FlushThread])

Apart == \A o, p \in Whole : o = p \/ o \cap p = {}
Ahead == \A o \in Shelf : o \cap Range(buffer) = {}
InHand == \A o \in Shelf : o \cap Range(batch) # {} => Shelved
DirectIsOne == direct # <<>> => Len(direct) = 1 /\ Range(direct) = {Range(batch)}

Single == Apart /\ Ahead /\ InHand /\ DirectIsOne

LEMMA SingleInit == Init => Single
<1> SUFFICES ASSUME Init PROVE Single
  OBVIOUS
<1>1. /\ visible = {} /\ durable = {} /\ direct = <<>> /\ s3 = {} /\ Sent = {}
      /\ \A t \in Threads : writer[t].objs = <<>>
  BY DEF Init, Sent, Disk!InFlight, Disk!IdleUploader, Disk!IdleWriter, Threads
<1>2. Range(<<>>) = {}
  BY DEF Range
<1>3. Shelf = {} /\ Whole = {} /\ direct = <<>>
  BY <1>1, <1>2 DEF Shelf, Whole, Written
<1> QED
  BY <1>3 DEF Single, Apart, Ahead, InHand, DirectIsOne

\* The files are those of before, or what a thread was writing.
LEMMA FilesCome ==
  ASSUME Shape, DurableIsSafe, [Next]_vars
  PROVE  visible' \cup durable' \subseteq visible \cup durable \cup Written
<1>1. CASE visible' \cup durable' \subseteq visible \cup durable
  BY <1>1
<1>2. CASE \E t \in Threads : WriterStep(t)
  <2> PICK t \in Threads : WriterStep(t)
    BY <1>2
  <2>1. \A o \in visible' \cup durable' : o \in visible \cup durable \/ o \in Range(writer[t].objs)
    BY RenameAdds
  <2> QED
    BY <2>1 DEF Written
<1> QED
  BY <1>1, <1>2, FilesStep

LEMMA DirectComes ==
  ASSUME Shape, [Next]_vars
  PROVE  Range(direct') \subseteq Range(direct) \cup Written
<1>a. Control
  BY DEF Shape
<1>b. Range(<<>>) = {}
  BY DEF Range
<1>1. CASE direct' = direct \/ direct' = <<>>
  BY <1>b, <1>1
<1>2. CASE SpoolRefused
  <2>1. direct' = writer[FlushThread].objs /\ FlushThread \in Threads
    BY <1>2 DEF SpoolRefused, FlushThread, Threads
  <2> QED
    BY <2>1 DEF Written
<1>3. CASE DirectPut
  <2>1. phase = "direct" /\ (direct' = Tail(direct) \/ direct' = <<>>)
    BY <1>3 DEF DirectPut, FlushReturns
  <2> QED
    BY <1>a, <1>b, <2>1, DirectHead
<1>4. CASE \/ Spooled \/ DirectPutFails \/ NothingToFlush \/ Shutdown \/ Kill \/ PowerCut
           \/ Capture \/ BeginFlush \/ BeginWrite \/ ResultDiscarded \/ Exit \/ Behind
           \/ \E t \in Threads : WriterStep(t)
  BY <1>1, <1>4 DEF Spooled, DirectPutFails, NothingToFlush, FlushReturns, Shutdown, Kill, PowerCut,
                    Capture, BeginFlush, BeginWrite, ResultDiscarded, Exit, Behind, WriterStep, SpoolOnly
<1> QED
  BY <1>2, <1>3, <1>4, StepsBehind DEF Next, FlushStep, StopStep, Threads

\* The whole objects are the same, but for the one that a batch becomes.
LEMMA WholeStep ==
  ASSUME Shape, DurableIsSafe, [Next]_vars
  PROVE  Whole' \subseteq Whole \/ (phase = "objects" /\ Whole' \subseteq Whole \cup Range(DayRuns(batch)))
<1>1. Shelf' \subseteq Shelf \cup Written \cup Range(direct)
  BY FilesCome, EveryStepCarries DEF Carried, Shelf
<1>2. Range(direct') \subseteq Range(direct) \cup Written
  BY DirectComes
<1> QED
  BY <1>1, <1>2, EveryStepCarries DEF Carried, Whole

LEMMA ApartNext ==
  ASSUME OneDay, Custodial, Single, [Next]_vars
  PROVE  Apart'
<1>a. Shape /\ DurableIsSafe /\ Orphaned /\ Queue!IInv /\ Control /\ Apart /\ InHand
  BY DEF Custodial, Filing, Shape, Single
<1>1. CASE Whole' \subseteq Whole
  BY <1>a, <1>1 DEF Apart
<1>2. CASE phase = "objects" /\ Whole' \subseteq Whole \cup Range(DayRuns(batch))
  <2>1. batch # <<>> /\ direct = <<>>
    BY <1>a, <1>2 DEF Control
  <2>2. Whole' \subseteq Whole \cup {Range(batch)}
    BY <1>a, <1>2, <2>1, OneRun
  <2>3. \A o \in Written : o \cap Range(batch) = {}
    <3> SUFFICES ASSUME NEW t \in Threads, NEW o \in Range(writer[t].objs)
                 PROVE  o \cap Range(batch) = {}
      BY DEF Written
    <3>1. o \subseteq abandoned
      BY <1>a, <1>2, ObjectsOf
    <3> QED
      BY <1>a, <3>1, QueueSets
  <2>4. \A o \in Shelf : o \cap Range(batch) = {}
    BY <1>a, <1>2 DEF InHand, Shelved
  <2>5. Range(direct) = {}
    BY <2>1 DEF Range
  <2>6. \A o \in Whole : o \cap Range(batch) = {}
    BY <2>3, <2>4, <2>5 DEF Whole
  <2> QED
    BY <1>a, <2>2, <2>6 DEF Apart
<1> QED
  BY <1>a, <1>1, <1>2, WholeStep

LEMMA BatchLeftBehind ==
  ASSUME Single, Shelf' \subseteq Shelf, UNCHANGED <<buffer, batch>>, Shelved => Shelved'
  PROVE  Ahead' /\ InHand'
BY DEF Single, Ahead, InHand

\* What goes on the shelf was not in the queue, and the batch was not on it.
LEMMA QueueGivesUp ==
  ASSUME Single, batch' = <<>>,
         Range(buffer') \subseteq Range(buffer) \/ (~Shelved /\ Range(buffer') \subseteq Queued),
         \A o \in Shelf' : o \in Shelf \/ (o \cap Range(buffer') = {})
  PROVE  Ahead' /\ InHand'
<1>1. Range(batch') = {}
  BY DEF Range
<1>2. \A o \in Shelf : o \cap Range(buffer') = {}
  BY DEF Single, Ahead, InHand, Queued
<1> QED
  BY <1>1, <1>2 DEF Ahead, InHand

LEMMA ShelfOfUploads ==
  ASSUME Shape, NEW others \in SUBSET Object, Uploads(others)
  PROVE  Shelf' \subseteq Shelf \cup others
<1>a. SpoolOK
  BY DEF Shape
<1> QED
  BY <1>a, Uploading, Sending DEF Shelf

LEMMA ShelfOfSpoolStep ==
  ASSUME OneDay, Keeping, Custodial, Single, "fsync" \notin Faults, NEW t \in Threads, WriterStep(t)
  PROVE  Ahead' /\ InHand'
<1> DEFINE w == writer[t]
           x == writer'[t]
<1>a. Shape /\ Queue!IInv /\ Orphaned /\ SpoolOK /\ CallKeeps /\ Calls /\ Control
  BY DEF Keeping, Filing, Shape
<1>b. FlushThread \in Threads
  BY DEF FlushThread, Threads
<1>1. /\ UNCHANGED <<buffer, batch, life, phase, s3>> /\ FlushThread' = FlushThread
      /\ x.objs = w.objs
      /\ \A s \in Threads \ {t} : writer'[s] = writer[s]
      /\ \A o \in visible' \cup durable' :
           \/ o \in visible \cup durable
           \/ w.i \in 1..Len(w.objs) /\ o \in Range(w.objs) /\ x.i = w.i + 1
  BY <1>a, RenameAdds DEF bufVars, FlushThread
<1>2. Sent' = Sent
  <2>1. UNCHANGED <<up, late>>
    BY <1>a, Writing DEF WriterStep
  <2> QED
    BY <2>1 DEF Sent, Disk!InFlight
<1>3. ASSUME NEW o \in Shelf' \ Shelf
      PROVE  w.i \in 1..Len(w.objs) /\ o \in Range(w.objs) /\ x.i = w.i + 1
  BY <1>1, <1>2, <1>3 DEF Shelf
<1>4. /\ UNION Range(w.objs) \subseteq Range(batch) \cup abandoned
      /\ ~(phase = "writing" /\ t = FlushThread) => UNION Range(w.objs) \subseteq abandoned
  BY <1>a, ObjectsOf
<1>5. Ahead'
  <2>1. \A o \in Shelf' \ Shelf : o \cap Range(buffer) = {}
    BY <1>a, <1>3, <1>4, QueueSets
  <2> QED
    BY <1>1, <2>1 DEF Ahead, Single
<1>6. InHand'
  <2> SUFFICES ASSUME NEW o \in Shelf', o \cap Range(batch) # {} PROVE Shelved'
    BY <1>1 DEF InHand
  <2>1. batch # <<>>
    BY DEF Range
  <2>2. CASE o \in Shelf
    <3>1. Shelved
      BY <2>2 DEF Single, InHand
    <3> QED
      BY <1>1, <2>1, <3>1, RenameIsOfBatch DEF Shelved
  <2>3. CASE o \notin Shelf
    <3>1. w.i \in 1..Len(w.objs) /\ o \in Range(w.objs) /\ x.i = w.i + 1
      BY <1>3, <2>3
    <3>2. phase = "writing" /\ t = FlushThread
      BY <1>a, <1>4, <3>1, QueueSets
    <3>3. Len(w.objs) = 1
      BY <1>a, <2>1, <3>2, OneRun DEF Calls
    <3>4. PastLast(x)
      BY <1>1, <3>1, <3>3 DEF PastLast
    <3> QED
      BY <1>1, <3>2, <3>4 DEF Shelved, PastLast
  <2> QED
    BY <2>2, <2>3
<1> QED
  BY <1>5, <1>6

LEMMA LastPut ==
  ASSUME Control, DirectIsOne, phase = "direct"
  PROVE  Tail(direct) = <<>> /\ Head(direct) = Range(batch) /\ Head(direct) \in Object
<1>1. direct \in Seq(Object) /\ direct # <<>> /\ Len(direct) = 1 /\ Range(direct) = {Range(batch)}
  BY DEF Control, DirectIsOne
<1>2. Tail(direct) \in Seq(Object) /\ Len(Tail(direct)) = 0
  BY <1>1
<1>3. Tail(direct) = <<>>
  BY <1>2, EmptySeq
<1>4. Head(direct) \in Range(direct) /\ Head(direct) \in Object
  BY DirectHead, <1>1
<1> QED
  BY <1>1, <1>3, <1>4

LEMMA DirectIsOneNext ==
  ASSUME OneDay, Custodial, Single, [Next]_vars
  PROVE  DirectIsOne'
<1>a. Shape /\ Queue!IInv /\ Control /\ Calls /\ DirectIsOne
  BY DEF Custodial, Filing, Shape, Single
<1>1. CASE direct' = <<>>
  BY <1>1 DEF DirectIsOne
<1>2. CASE UNCHANGED <<batch, direct>>
  BY <1>a, <1>2 DEF DirectIsOne
<1>3. CASE BeginFlush
  BY <1>1, <1>3, <1>a DEF BeginFlush, Control
<1>4. CASE SpoolRefused
  <2>1. direct' = DayRuns(batch) /\ batch' = batch /\ batch # <<>>
    BY <1>a, <1>4 DEF SpoolRefused, bufVars, Calls, Control
  <2> QED
    BY <1>a, <2>1, OneRun DEF DirectIsOne
<1>5. CASE DirectPut
  <2>1. Tail(direct) = <<>>
    BY <1>a, <1>5, LastPut DEF DirectPut
  <2> QED
    BY <1>1, <1>5, <2>1 DEF DirectPut, FlushReturns
<1>6. CASE Spooled \/ DirectPutFails \/ Shutdown \/ Kill \/ PowerCut
  BY <1>1, <1>6 DEF Spooled, DirectPutFails, Shutdown, Kill, PowerCut, FlushReturns
<1>7. CASE Exit
  BY <1>1, <1>a, <1>7 DEF Exit, Control
<1>8. CASE Capture \/ BeginWrite \/ ResultDiscarded \/ Behind \/ \E t \in Threads : WriterStep(t)
  BY <1>2, <1>8 DEF Capture, BeginWrite, Buf!Receive, ResultDiscarded, Behind, WriterStep, SpoolOnly, bufVars
<1> QED
  BY <1>a, <1>3, <1>4, <1>5, <1>6, <1>7, <1>8, StepsBehind DEF Next, FlushStep, StopStep, Threads

LEMMA ShelfNext ==
  ASSUME OneDay, Keeping, Custodial, Single, "fsync" \notin Faults, "lostAnswer" \notin Faults, [Next]_vars
  PROVE  Ahead' /\ InHand'
<1>a. /\ Shape /\ Queue!IInv /\ SpoolOK /\ Control /\ Calls /\ CallKeeps
      /\ DirectIsOne /\ Ahead /\ InHand /\ FilesAreOld /\ HeldIsOld
  BY DEF Keeping, Custodial, Filing, Shape, Single
<1>b. FlushThread \in Threads
  BY DEF FlushThread, Threads
<1>c. Range(<<>>) = {}
  BY DEF Range
<1>d. Range(batch) \cap Range(buffer) = {}
  BY <1>a, QueueSets
<1>1. CASE Capture
  <2>1. UNCHANGED <<batch, diskVars, life, phase>>
    BY <1>1 DEF Capture, Buf!Receive
  <2>2. Shelf' = Shelf /\ (Shelved <=> Shelved')
    BY <2>1 DEF diskVars, Shelf, Sent, Disk!InFlight, Shelved, FlushThread
  <2>3. rx \in Nat /\ Range(buffer') \subseteq Range(buffer) \cup {rx + 1}
    BY <1>a, <1>1, CaptureMoves
  <2>4. \A o \in Shelf : rx + 1 \notin o
    <3>1. \A o \in Shelf : o \subseteq 1..rx
      BY <1>a DEF FilesAreOld, HeldIsOld, Shelf
    <3>2. rx + 1 \notin 1..rx
      BY <2>3
    <3> QED
      BY <3>1, <3>2
  <2> QED
    BY <1>a, <2>1, <2>2, <2>3, <2>4 DEF Ahead, InHand
<1>2. CASE BeginFlush
  <2>1. batch' = buffer /\ buffer' = <<>> /\ UNCHANGED diskVars
    BY <1>2 DEF BeginFlush, Buf!TakeBuffer
  <2>2. Shelf' = Shelf
    BY <2>1 DEF diskVars, Shelf, Sent, Disk!InFlight
  <2> QED
    BY <1>a, <1>c, <2>1, <2>2 DEF Ahead, InHand
<1>3. CASE BeginWrite
  <2>1. phase = "objects" /\ UNCHANGED <<buffer, batch>>
        /\ UNCHANGED <<visible, durable, s3, up, late>>
    BY <1>3 DEF BeginWrite, bufVars, Disk!Submit, Disk!FilesUnchanged, Disk!diskVars
  <2>2. Shelf' = Shelf /\ ~Shelved
    BY <2>1 DEF Shelf, Sent, Disk!InFlight, Shelved
  <2> QED
    BY <2>1, <2>2, BatchLeftBehind
<1>4. CASE Spooled \/ SpoolRefused \/ ResultDiscarded
  <2>1. UNCHANGED <<visible, durable, s3, up, late>>
    BY <1>4 DEF Spooled, SpoolRefused, ResultDiscarded, Disk!Collect, Disk!FilesUnchanged, Disk!diskVars
  <2>2. Shelf' = Shelf
    BY <2>1 DEF Shelf, Sent, Disk!InFlight
  <2>3. CASE Spooled
    <3>1. batch' = <<>> /\ buffer' = buffer
      BY <2>3 DEF Spooled, Buf!PlaceBatch
    <3> QED
      BY <2>2, <3>1, QueueGivesUp
  <2>4. CASE SpoolRefused
    <3>1. UNCHANGED <<buffer, batch>> /\ phase = "writing" /\ writer[FlushThread].pc = "false"
      BY <2>4 DEF SpoolRefused, bufVars, Disk!WriterAt
    <3>2. writer[FlushThread].i = 1 /\ writer[FlushThread].objs = DayRuns(batch) /\ batch # <<>>
      BY <1>a, <3>1 DEF CallKeeps, Done, Calls, Control
    <3>3. ~Shelved
      BY <1>a, <3>2, BatchRuns DEF PastLast, Shelved
    <3> QED
      BY <2>2, <3>1, <3>3, BatchLeftBehind
  <2>5. CASE ResultDiscarded
    <3>1. UNCHANGED <<buffer, batch, life, phase>> /\ life # "running" /\ Disk!Collect("loop")
      BY <2>5 DEF ResultDiscarded, SpoolOnly, bufVars
    <3>2. FlushThread = "stop" /\ FlushThread' = "stop" /\ writer'["stop"] = writer["stop"]
      BY <1>a, <3>1, Collecting DEF FlushThread, Threads
    <3> QED
      BY <2>2, <3>1, <3>2, BatchLeftBehind DEF Shelved, PastLast
  <2> QED
    BY <1>4, <2>3, <2>4, <2>5
<1>5. CASE DirectPut \/ DirectPutFails
  <2>1. /\ phase = "direct" /\ ~Shelved
        /\ Disk!DirectPutOk(Head(direct)) \/ Disk!DirectPutFails(Head(direct))
    BY <1>5 DEF DirectPut, DirectPutFails, Shelved
  <2>2. Tail(direct) = <<>> /\ Head(direct) = Range(batch) /\ Head(direct) \in Object
    BY <1>a, <2>1, LastPut
  <2>3. /\ UNCHANGED <<visible, durable, up, late>>
        /\ s3' \subseteq s3 \cup {Range(batch)}
        /\ Disk!DirectPutFails(Head(direct)) => s3' = s3
    BY <1>a, <2>1, <2>2, PuttingDirectly
  <2>4. CASE DirectPut
    <3>1. batch' = <<>> /\ buffer' = buffer
      BY <2>2, <2>4 DEF DirectPut, Buf!PlaceBatch
    <3>2. Shelf' \subseteq Shelf \cup {Range(batch)}
      BY <2>3 DEF Shelf, Sent, Disk!InFlight
    <3> QED
      BY <1>d, <3>1, <3>2, QueueGivesUp
  <2>5. CASE DirectPutFails
    <3>1. Shelf' = Shelf
      BY <2>3, <2>5 DEF DirectPutFails, Shelf, Sent, Disk!InFlight
    <3>2. batch' = <<>> /\ Range(buffer') \subseteq Queued
      <4>1. Buf!ReturnBuffer
        BY <2>5 DEF DirectPutFails
      <4>2. ~Capture
        BY <4>1, <2>1, <2>5, <1>a DEF Capture, DirectPutFails, Control, Buf!Receive, Buf!ReturnBuffer
      <4> QED
        BY <1>a, <4>1, <4>2, QueueMoves DEF Buf!ReturnBuffer, Queued
    <3> QED
      BY <2>1, <3>1, <3>2, QueueGivesUp
  <2> QED
    BY <1>5, <2>4, <2>5
<1>6. CASE Shutdown
  <2>1. DirectInFlight \in SUBSET Object /\ DirectInFlight \subseteq {Range(batch)}
    BY <1>a, LastPut, DirectHead DEF DirectInFlight
  <2>2. Uploads(DirectInFlight) /\ batch' = <<>> /\ buffer' = buffer
    BY <1>6 DEF Shutdown, Uploads, bufVars, Buf!CancelFlush
  <2>3. Shelf' \subseteq Shelf \cup {Range(batch)}
    BY <1>a, <2>1, <2>2, ShelfOfUploads
  <2> QED
    BY <1>d, <2>2, <2>3, QueueGivesUp
<1>7. CASE Exit \/ Kill \/ PowerCut
  <2>1. buffer' = <<>> /\ batch' = <<>>
    BY <1>7 DEF Exit, Kill, PowerCut, Buf!ProcessEnds
  <2> QED
    BY <1>c, <2>1 DEF Ahead, InHand
<1>8. CASE \/ BeginPass \/ UploadStep \/ LatePut \/ JournalCommit \/ BeginLastPass \/ Start
           \/ NothingToFlush \/ StopReturns \/ UNCHANGED vars
  <2>1. Behind
    BY <1>a, <1>8, StepsBehind
  <2>2. Shelf' \subseteq Shelf
    <3>1. CASE BeginPass \/ UploadStep \/ LatePut \/ JournalCommit \/ BeginLastPass \/ Start
      <4>1. Uploads({}) /\ {} \in SUBSET Object
        BY <3>1 DEF BeginPass, UploadStep, LatePut, JournalCommit, BeginLastPass, Start, Uploads
      <4> QED
        BY <1>a, <4>1, ShelfOfUploads
    <3>2. CASE NothingToFlush \/ StopReturns \/ UNCHANGED vars
      BY <3>2 DEF NothingToFlush, StopReturns, vars, diskVars, Shelf, Sent, Disk!InFlight
    <3> QED
      BY <1>8, <3>1, <3>2
  <2>3. UNCHANGED <<buffer, batch>> /\ (Shelved => Shelved')
    BY <2>1 DEF Behind, bufVars, Shelved, FlushThread
  <2> QED
    BY <2>2, <2>3, BatchLeftBehind
<1>9. CASE \E t \in Threads : WriterStep(t)
  BY <1>9, ShelfOfSpoolStep
<1> QED
  BY <1>1, <1>2, <1>3, <1>4, <1>5, <1>6, <1>7, <1>8, <1>9 DEF Next, FlushStep, StopStep, Threads

\* No frame is archived under two keys, if the batches are of one day, the directory fsync works and a PUT
\* that raises was not carried out: neither a file written again nor a batch that comes back, whatever the
\* spool and the bucket refuse and whenever the process stops, meets an object that has one of its frames.
THEOREM NoFrameIsStoredTwice ==
  ASSUME \A f, g \in Frame : Day(f) = Day(g), "fsync" \notin Faults, "lostAnswer" \notin Faults
  PROVE  Spec => []NoDuplicateRows
<1>a. OneDay /\ Trusted
  BY DEF OneDay, Trusted
<1>1. Keeping /\ Custodial /\ Single /\ [Next]_vars => Single'
  BY <1>a, ApartNext, ShelfNext, DirectIsOneNext DEF Single
<1>2. Single => NoDuplicateRows
  BY DEF Single, Apart, Whole, Shelf, NoDuplicateRows
<1> QED
  BY <1>a, <1>1, <1>2, SingleInit, KeepingHolds, CustodialHolds, PTL DEF Spec

=============================================================================
