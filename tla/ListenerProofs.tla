--------------------------- MODULE ListenerProofs ---------------------------
(***************************************************************************)
(* The listener in front of the RAM buffer changes it as RamBuffer's       *)
(* specification allows: a read appends one frame, a flush step comes only *)
(* between two reads, a restart empties both.  RamBuffer's theorems hold   *)
(* behind a CAN socket that breaks and comes back.                         *)
(***************************************************************************)
EXTENDS Capture, RamBufferProofs

(* The detailed specification implements the abstract one, step by step: a step of        *)
(* _can_listener, of _drain, of the kernel or of a flush is a step of the RAM buffer, or  *)
(* leaves it alone (logger.py, _drain: _append is called for data frames only).           *)
THEOREM CaptureKeepsBuffer == CaptureSpec => Spec
<1>1. CaptureInit => Init
  BY DEF CaptureInit
<1>2. [CaptureNext]_captureVars => [Next]_vars
  <2> SUFFICES ASSUME [CaptureNext]_captureVars PROVE [Next]_vars
    OBVIOUS
  <2>1. CASE OpenSocket \/ Readable \/ Drained \/ ReadError \/ CloseSocket
    BY <2>1 DEF OpenSocket, Readable, Drained, ReadError, CloseSocket
  <2>2. CASE ReadFrame
    BY <2>2 DEF ReadFrame, Next
  <2>3. CASE FlushStep
    BY <2>3 DEF FlushStep, Next
  <2>4. CASE Restart
    BY <2>4 DEF Restart, Next
  <2>5. ASSUME NEW kind, FrameArrives(kind) PROVE [Next]_vars
    BY <2>5 DEF FrameArrives
  <2>6. ASSUME NEW to, LinkChanges(to) PROVE [Next]_vars
    BY <2>6 DEF LinkChanges
  <2>7. CASE UNCHANGED captureVars
    BY <2>7 DEF captureVars
  <2> QED BY <2>1, <2>2, <2>3, <2>4, <2>5, <2>6, <2>7 DEF CaptureNext, ListenerStep
<1> QED BY <1>1, <1>2, PTL DEF CaptureSpec, Spec

(* Whatever the interface does, every frame read from the socket is in exactly one place, *)
(* the byte counter is exact, batch and buffer are in capture order and memory is bounded *)
(* (logger.py, _append, _trim, _take_buffer, _return_buffer).                             *)
THEOREM ListenerLosesNoFrame ==
  CaptureSpec => [](TypeOK /\ Conservation /\ BytesExact /\ CaptureOrder /\ MemoryBound)
BY CaptureKeepsBuffer, TypeCorrect, EveryFrameIsSomewhereOnce, ByteCounterIsExact,
   QueueKeepsCaptureOrder, MemoryIsBounded, PTL

(* ... and a frame is dropped only by a trim that counts it, the oldest first, and only   *)
(* if it would not have fitted (logger.py, _trim).                                        *)
THEOREM ListenerDropsOnlyByTrim == CaptureSpec => DropsAreCounted /\ TrimDropsOldestOnly
BY CaptureKeepsBuffer, EveryDropIsCounted, TrimIsMinimal, PTL
=============================================================================
