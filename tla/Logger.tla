------------------------------- MODULE Logger -------------------------------
(***************************************************************************)
(* The logger process: the CAN reader, the flush loop and the upload loop  *)
(* on one event loop, the worker threads under them, the shutdown path of  *)
(* start(), stop() and _run(), and systemd starting the next process.      *)
(*                                                                         *)
(* The RAM buffer and the spool are the modules of those names; here they  *)
(* meet: _flush_buffer carries a batch from one to the other, and a signal *)
(* or a loop that dies cancels every task at whatever await it has reached.*)
(*                                                                         *)
(* An object is the set of frames in it: a batch is in order of arrival,   *)
(* so the set determines the bytes, and with them the file name and key.   *)
(***************************************************************************)
EXTENDS Integers, Sequences, FiniteSets, Functions

CONSTANTS
  MaxFrames,        \* bound: frames the bus delivers
  MaxBufferBytes,   \* MAX_BUFFER_BYTES
  MaxDiskBytes,     \* MAX_DISK_BYTES
  Stamp,            \* Stamp[f]: capture time, from a clock that may be stepped
  DayLength,        \* time units in a UTC day
  MaxEnds,          \* bound: process ends
  MaxEvictedRows,   \* bound: the flush loop stops when more rows were evicted
  Faults            \* as in Spool

Frame == 1..MaxFrames

ASSUME LoggerAssumption ==
  /\ MaxFrames \in Nat /\ MaxBufferBytes \in Nat /\ MaxDiskBytes \in Nat
  /\ Stamp \in [Frame -> Nat]
  /\ DayLength \in Nat \ {0}
  /\ MaxEnds \in Nat /\ MaxEvictedRows \in Nat

VARIABLES
  rx, buffer, bufferBytes, dropped, batch, placed, trimmed, abandoned, gone,
  visible, durable, tmps, s3, writer, up, late, evictedRows, evicted,
  counted, stored,
  life,     \* how far the process is on its way from start() to its end
  phase,    \* the await _flush_buffer has reached
  direct,   \* objects a direct upload has still to PUT
  ends      \* process ends so far

Lives == {"running",
          "flushing",    \* stop(): await self._flush_buffer()
          "draining",    \* stop(): its upload pass is about to start
          "uploading",   \* stop(): await self._upload_spool()
          "exiting",     \* stop() is done; the worker threads are joined
          "down"}
Phases == {"none",
           "objects",    \* await asyncio.to_thread(_objects, batch)
           "writing",    \* await asyncio.to_thread(self._write_spool, objects)
           "direct"}     \* await self._upload_objects(objects)

FirstFrame(o) == CHOOSE f \in o : \A g \in o : f <= g
Object == (SUBSET Frame) \ {{}}

Buf == INSTANCE RamBuffer WITH NBytes <- [f \in Frame |-> 1]

Disk == INSTANCE Spool WITH
  Rank <- [o \in Object |-> Stamp[FirstFrame(o)]],
  Size <- [o \in Object |-> Cardinality(o)],
  Rows <- [o \in Object |-> Cardinality(o)],
  Thread <- {"loop", "stop"},
  MaxObjects <- MaxFrames,
  alive <- life # "down"

ASSUME FaultsAssumption == Faults \subseteq Disk!FaultKinds

bufVars == <<rx, buffer, bufferBytes, dropped, batch, placed, trimmed, abandoned, gone>>
diskVars == <<visible, durable, tmps, s3, writer, up, late,
              evictedRows, evicted, counted, stored>>
vars == <<bufVars, diskVars, life, phase, direct, ends>>

Init ==
  /\ life = "running" /\ phase = "none" /\ direct = <<>> /\ ends = 0
  /\ Buf!Init
  /\ visible = {} /\ durable = {} /\ tmps = {} /\ s3 = {}
  /\ writer = [t \in {"loop", "stop"} |-> Disk!IdleWriter]
  /\ up = Disk!IdleUploader
  /\ late = {} /\ evictedRows = 0
  /\ evicted = {} /\ counted = {} /\ stored = {}

----------------------------------------------------------------------------
(* group_by_day: contiguous runs of frames of one day, in order.  A clock  *)
(* stepped back across midnight makes two runs of the same day.            *)

Day(f) == Stamp[f] \div DayLength

RunStarts(q) == {i \in 1..Len(q) : i = 1 \/ Day(q[i]) # Day(q[i - 1])}

\* The positions of q from i up to where the next run starts.
RunFrom(q, i) == {j \in i..Len(q) : \A k \in (i + 1)..j : k \notin RunStarts(q)}

\* The n-th run is the one with n run starts up to its own.
DayRuns(q) ==
  [n \in 1..Cardinality(RunStarts(q)) |->
     {q[j] : j \in UNION {RunFrom(q, i) : i \in
        {s \in RunStarts(q) : Cardinality({r \in RunStarts(q) : r <= s}) = n}}}]

----------------------------------------------------------------------------
(* The running process: one action per await to await of each task. *)

(* The CAN reader callback. *)
Capture ==
  /\ life = "running"
  /\ Buf!Receive
  /\ UNCHANGED <<diskVars, life, phase, direct, ends>>

\* The thread the current flush writes on.
FlushThread == IF life = "running" THEN "loop" ELSE "stop"

\* Mutant: the objects of the direct upload are not let go.
FlushReturnsHolding ==
  /\ phase' = "none" /\ direct' = direct
  /\ life' = IF life = "flushing" THEN "draining" ELSE life

\* _flush_buffer returns: to its loop, or to stop(), which goes on.
FlushReturns ==
  /\ phase' = "none" /\ direct' = <<>>
  /\ life' = IF life = "flushing" THEN "draining" ELSE life

(* _flush_buffer takes the batch. *)
BeginFlush ==
  /\ life \in {"running", "flushing"} /\ phase = "none"
  /\ life = "running" => evictedRows <= MaxEvictedRows
  /\ Buf!TakeBuffer
  /\ phase' = "objects"
  /\ UNCHANGED <<diskVars, life, direct, ends>>

\* Mutant: stop() goes straight to the upload pass.
StopSkipsFlush ==
  /\ life = "flushing" /\ phase = "none"
  /\ FlushReturns
  /\ UNCHANGED <<bufVars, diskVars, ends>>

(* `if not batch: return`, which in stop() leads on to the upload pass *)
NothingToFlush ==
  /\ life = "flushing" /\ phase = "none" /\ buffer = <<>>
  /\ FlushReturns
  /\ UNCHANGED <<bufVars, diskVars, ends>>

(* _objects is done; _write_spool is given to a thread. *)
BeginWrite ==
  /\ phase = "objects"
  /\ phase' = "writing"
  /\ UNCHANGED <<bufVars, life, direct, ends>>
  /\ Disk!Submit(FlushThread, DayRuns(batch))

\* Mutant: _write_spool's answer is ignored.
SpooledAnyway ==
  /\ phase = "writing" /\ writer[FlushThread].pc \in {"true", "false"}
  /\ FlushReturns
  /\ Buf!PlaceBatch
  /\ Disk!Collect(FlushThread)
  /\ UNCHANGED ends

(* _write_spool returned True. *)
Spooled ==
  /\ phase = "writing" /\ Disk!WriterAt(FlushThread, "true")
  /\ FlushReturns
  /\ Buf!PlaceBatch
  /\ Disk!Collect(FlushThread)
  /\ UNCHANGED ends

\* Mutant: no direct upload, the batch goes back to the buffer at once.
RefusedBackToBuffer ==
  /\ phase = "writing" /\ Disk!WriterAt(FlushThread, "false")
  /\ FlushReturns
  /\ Buf!ReturnBuffer
  /\ Disk!Collect(FlushThread)
  /\ UNCHANGED ends

(* _write_spool returned False: try S3 directly. *)
SpoolRefused ==
  /\ phase = "writing" /\ Disk!WriterAt(FlushThread, "false")
  /\ direct' = writer[FlushThread].objs
  /\ phase' = "direct"
  /\ UNCHANGED <<bufVars, life, ends>>
  /\ Disk!Collect(FlushThread)

(* _upload_objects: one PUT of several, or the last. *)
DirectPut ==
  /\ phase = "direct"
  /\ IF Tail(direct) # <<>>
       THEN /\ direct' = Tail(direct)
            /\ UNCHANGED <<bufVars, life, phase>>
       ELSE /\ FlushReturns
            /\ Buf!PlaceBatch
  /\ Disk!DirectPutOk(Head(direct))
  /\ UNCHANGED ends

(* Both sinks failed: _return_buffer. *)
DirectPutFails ==
  /\ phase = "direct"
  /\ FlushReturns
  /\ Buf!ReturnBuffer
  /\ Disk!DirectPutFails(Head(direct))
  /\ UNCHANGED ends

(* The threads and the upload pass, whose steps change the spool only. *)
SpoolOnly == UNCHANGED <<bufVars, life, phase, direct, ends>>
WriterStep(t) == SpoolOnly /\ Disk!WriterStep(t)
WriterProgress(t) == SpoolOnly /\ Disk!WriterProgress(t)
UploadStep == SpoolOnly /\ Disk!UploadStep
UploadProgress == SpoolOnly /\ Disk!UploadProgress
LatePut == SpoolOnly /\ Disk!LatePut
JournalCommit == SpoolOnly /\ Disk!JournalCommit

(* _upload_loop starts a pass. *)
BeginPass == life = "running" /\ SpoolOnly /\ Disk!BeginPass

----------------------------------------------------------------------------
(* The end of a process. *)

\* The object whose direct PUT is on a thread.
DirectInFlight == IF phase = "direct" THEN {Head(direct)} ELSE {}

(* A signal, or one of the loops ends: start() and _run() cancel every     *)
(* task at the await it is in, and stop() begins.                          *)
Shutdown ==
  /\ life = "running" /\ life' = "flushing"
  /\ IF batch = <<>> THEN UNCHANGED bufVars ELSE Buf!CancelFlush
  /\ Disk!CancelUploads(DirectInFlight)
  /\ phase' = "none" /\ direct' = <<>>
  /\ UNCHANGED ends

(* The loop's thread ends after its flush was cancelled: nobody asks. *)
ResultDiscarded == life # "running" /\ SpoolOnly /\ Disk!Collect("loop")

(* stop(): one best-effort upload pass, *)
BeginLastPass ==
  /\ life = "draining" /\ life' = "uploading"
  /\ Disk!BeginPass
  /\ UNCHANGED <<bufVars, phase, direct, ends>>

\* Mutant: stop() stays until the spool is empty.
StopWaitsForSpool ==
  /\ life = "uploading" /\ up.pc = "idle" /\ visible = {}
  /\ life' = "exiting"
  /\ UNCHANGED <<bufVars, diskVars, phase, direct, ends>>

(* and the audit entry, *)
StopReturns ==
  /\ life = "uploading" /\ up.pc = "idle"
  /\ life' = "exiting"
  /\ UNCHANGED <<bufVars, diskVars, phase, direct, ends>>

(* after which asyncio.run joins the worker threads and the process ends. *)
Exit ==
  /\ life = "exiting" /\ life' = "down"
  /\ \A t \in {"loop", "stop"} : Disk!WriterAt(t, "idle")
  /\ late = {}
  /\ Buf!ProcessEnds
  /\ Disk!ProcessEnds({})
  /\ ends' = ends + 1
  /\ UNCHANGED <<phase, direct>>

(* SIGKILL or out of memory, *)
Kill ==
  /\ "kill" \in Faults /\ ends < MaxEnds
  /\ life' = "down" /\ phase' = "none" /\ direct' = <<>>
  /\ ends' = ends + 1
  /\ Buf!ProcessEnds
  /\ Disk!ProcessEnds(DirectInFlight)

(* or the boat's supply. *)
PowerCut ==
  /\ ends < MaxEnds
  /\ life' = "down" /\ phase' = "none" /\ direct' = <<>>
  /\ ends' = ends + 1
  /\ Buf!ProcessEnds
  /\ Disk!PowerCut(DirectInFlight)

(* Restart=always *)
Start ==
  /\ life = "down" /\ life' = "running"
  /\ Disk!StartProcess
  /\ UNCHANGED <<bufVars, phase, direct, ends>>

FlushStep ==
  \/ BeginFlush \/ BeginWrite \/ NothingToFlush
  \/ Spooled \/ SpoolRefused \/ DirectPut \/ DirectPutFails

StopStep == ResultDiscarded \/ BeginLastPass \/ StopReturns \/ Exit

Next ==
  \/ Capture
  \/ FlushStep
  \/ \E t \in {"loop", "stop"} : WriterStep(t)
  \/ BeginPass
  \/ UploadStep
  \/ LatePut
  \/ ends < MaxEnds /\ Shutdown
  \/ StopStep
  \/ Kill
  \/ PowerCut
  \/ JournalCommit
  \/ Start

Spec == Init /\ [][Next]_vars

(* Every task and thread is scheduled, tasks loop for as long as the       *)
(* process runs, and systemd starts it again.  The network comes back: the *)
(* PUT of an object that is tried for ever gets through.                   *)
Fairness ==
  /\ WF_vars(FlushStep)
  /\ \A t \in {"loop", "stop"} : WF_vars(WriterProgress(t))
  /\ WF_vars(BeginPass) /\ WF_vars(UploadProgress) /\ WF_vars(LatePut)
  /\ WF_vars(StopStep) /\ WF_vars(Start)
  /\ \A o \in Object :
       /\ SF_vars(SpoolOnly /\ up.obj = {o} /\ Disk!PutOk)
       /\ SF_vars(direct # <<>> /\ Head(direct) = o /\ DirectPut)

FairSpec == Spec /\ Fairness

----------------------------------------------------------------------------
(* Properties *)

OnDisk == UNION visible
InS3 == UNION s3
Evicted == UNION evicted
Counted == UNION counted

(* The shape of the state, and the agreement between a flush's await and   *)
(* what it holds.                                                          *)
TypeOK ==
  /\ Buf!TypeOK
  /\ Disk!TypeOK
  /\ life \in Lives /\ phase \in Phases /\ direct \in Seq(Object) /\ ends \in 0..MaxEnds
  /\ phase = "none" <=> batch = <<>>
  /\ phase = "direct" <=> direct # <<>>

(* What a flush has reported as placed is in the spool or in S3, or an     *)
(* eviction added at least its rows to self.dropped, though they were      *)
(* counted some steps before the file went and the uploader may delete it, *)
(* or a retry create it again, in between: "the stats line never           *)
(* under-reports how much was actually lost".                              *)
NoSilentLoss == placed \subseteq OnDisk \cup InS3 \cup Counted

(* And it is still so when the power is cut at this moment. *)
PlacedSurvivesPowerCut == placed \subseteq (UNION durable) \cup InS3 \cup Counted

(* stop() leaves its flush with an empty buffer, or after both the spool   *)
(* and S3 refused what was in it.                                          *)
ShutdownSavesBuffer ==
  [][life = "flushing" /\ life' = "draining" => buffer' = <<>> \/ DirectPutFails]_vars

(* What a flush had taken when the shutdown began is not lost either.      *)
ShutdownSavesBatch ==
  life = "down" => abandoned \subseteq OnDisk \cup InS3 \cup Evicted

(* No frame is archived under two keys. *)
NoDuplicateRows == \A o, p \in s3 : o # p => o \cap p = {}

\* The frames that a thread, a coroutine or a request still holds in memory.
InMemory ==
  Range(buffer) \cup Range(batch)
    \cup (UNION {UNION Range(writer[t].objs) : t \in {"loop", "stop"}})
    \cup (UNION Disk!InFlight) \cup (UNION late)

\* The safest place that f is in.
Whereabouts(f) ==
  IF f \in InS3 THEN "s3"
  ELSE IF f \in OnDisk THEN "disk"
  ELSE IF f \in InMemory THEN "ram"
  ELSE IF f \in trimmed \cup Counted THEN "dropped"
  ELSE "dead"

Promise == INSTANCE Custody WITH
  where <- [f \in Frame |-> IF f > rx THEN "bus" ELSE Whereabouts(f)],
  PowerCuts <- "power" \in Faults

(* The logger implements Custody: S3 is final, and while the power is on a *)
(* frame leaves the spool only for S3 or by an eviction that added its     *)
(* rows to self.dropped; an uncounted one would be dead straight from the  *)
(* disk.                                                                   *)
CustodySpec == Promise!Spec

(* A stop ends: neither the flush, the upload pass nor the threads of      *)
(* cancelled tasks keep the process from exiting.                          *)
StopCompletes == life = "flushing" ~> life = "down"

(* A frame in the spool gets to S3 or is evicted, restarts included. *)
SpoolDrains == \A f \in Frame : f \in OnDisk ~> f \in InS3 \cup Evicted

(* A frame does not stay in RAM for ever. *)
FramesLeaveRam ==
  \A f \in Frame : f \in Range(buffer) ~> f \notin Range(buffer) \cup Range(batch)
=============================================================================
