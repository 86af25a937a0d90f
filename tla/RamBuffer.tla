----------------------------- MODULE RamBuffer ------------------------------
(***************************************************************************)
(* The logger's RAM buffer (logger.py, class N2KLogger): the deque `buffer`*)
(* with its byte counter, and the batch a flush has taken out of it.       *)
(*                                                                         *)
(* Everything here runs on one event loop, so each method is one atomic    *)
(* action; what interleaves is _append, called by the CAN reader callback  *)
(* while a flush awaits, with the flush's take and return.                 *)
(*                                                                         *)
(* A frame is its number in order of arrival.  It carries its size, the    *)
(* only thing about it that the buffer looks at.                           *)
(***************************************************************************)
EXTENDS Integers, Sequences, FiniteSets, Functions, Totals

CONSTANTS
  MaxFrames,        \* bound: frames the bus delivers in a behaviour
  NBytes,           \* NBytes[f] is f.nbytes, the length of the ndjson line
  MaxBufferBytes    \* MAX_BUFFER_BYTES

Frame == 1..MaxFrames

ASSUME BufferAssumption ==
  /\ MaxFrames \in Nat
  /\ NBytes \in [Frame -> Nat \ {0}]
  /\ MaxBufferBytes \in Nat

VARIABLES
  rx,           \* frames received so far; 1..rx have arrived
  buffer,       \* self.buffer, oldest first
  bufferBytes,  \* self.buffer_bytes
  dropped,      \* what _trim added to self.dropped in this process
  batch,        \* the frames _flush_buffer holds between take and return
  placed,       \* history: frames whose flush reported success
  trimmed,      \* history: frames _trim dropped
  abandoned,    \* history: frames of a batch whose flush was cancelled
  gone          \* history: frames still in RAM when the process ended

bufVars == <<rx, buffer, bufferBytes, dropped, batch>>
ledgers == <<placed, trimmed, abandoned, gone>>
vars == <<bufVars, ledgers>>

Init ==
  /\ rx = 0 /\ buffer = <<>> /\ bufferBytes = 0 /\ dropped = 0
  /\ batch = <<>>
  /\ placed = {} /\ trimmed = {} /\ abandoned = {} /\ gone = {}

----------------------------------------------------------------------------
(* _trim: the loop `while self.buffer and self.buffer_bytes > MAX': popleft. *)

\* Mutant: each popped frame's bytes are subtracted twice.
BytesAfterTwice(q, bytes, k) == bytes - 2 * Total(Range(SubSeq(q, 1, k)), NBytes)

\* buffer_bytes after the loop has popped the first k frames of q.
BytesAfter(q, bytes, k) == bytes - Total(Range(SubSeq(q, 1, k)), NBytes)

\* Mutant: one pop too many, `>=` for `>`.
StopsAfterTooMany(q, bytes, k) ==
  /\ k = Len(q) \/ BytesAfter(q, bytes, k) < MaxBufferBytes
  /\ \A j \in 0..(k - 1) : BytesAfter(q, bytes, j) >= MaxBufferBytes

\* Mutant: `if` for `while`, one pop at most.
StopsAfterOne(q, bytes, k) ==
  k = IF bytes > MaxBufferBytes /\ q # <<>> THEN 1 ELSE 0

\* The loop stops after exactly k pops.
StopsAfter(q, bytes, k) ==
  /\ k = Len(q) \/ BytesAfter(q, bytes, k) <= MaxBufferBytes
  /\ \A j \in 0..(k - 1) : BytesAfter(q, bytes, j) > MaxBufferBytes

\* Mutant: the loss is counted once per trim, not once per frame.
TrimCountingOnce(q, bytes) ==
  \E k \in 0..Len(q) :
    /\ StopsAfter(q, bytes, k)
    /\ buffer' = SubSeq(q, k + 1, Len(q))
    /\ bufferBytes' = BytesAfter(q, bytes, k)
    /\ dropped' = dropped + (IF k > 0 THEN 1 ELSE 0)
    /\ trimmed' = trimmed \cup Range(SubSeq(q, 1, k))

\* _trim run on a buffer q whose counter says bytes.
Trim(q, bytes) ==
  \E k \in 0..Len(q) :
    /\ StopsAfter(q, bytes, k)
    /\ buffer' = SubSeq(q, k + 1, Len(q))
    /\ bufferBytes' = BytesAfter(q, bytes, k)
    /\ dropped' = dropped + k
    /\ trimmed' = trimmed \cup Range(SubSeq(q, 1, k))

----------------------------------------------------------------------------
(* _drain's last two lines: _append(frame), which trims, and rx += 1.  *)
Receive ==
  /\ rx < MaxFrames
  /\ rx' = rx + 1
  /\ Trim(Append(buffer, rx + 1), bufferBytes + NBytes[rx + 1])
  /\ UNCHANGED <<batch, placed, abandoned, gone>>

\* Mutant: the frames are copied out and the buffer is not cleared.
TakeSnapshot ==
  /\ batch = <<>> /\ buffer # <<>>
  /\ batch' = buffer
  /\ UNCHANGED <<rx, buffer, bufferBytes, dropped, ledgers>>

\* Mutant: the byte counter is not reset with the buffer.
TakeWithoutReset ==
  /\ batch = <<>> /\ buffer # <<>>
  /\ batch' = buffer
  /\ buffer' = <<>>
  /\ UNCHANGED <<rx, bufferBytes, dropped, ledgers>>

(* _take_buffer; _flush_buffer returns at once when the batch is empty. *)
TakeBuffer ==
  /\ batch = <<>> /\ buffer # <<>>
  /\ batch' = buffer
  /\ buffer' = <<>>
  /\ bufferBytes' = 0
  /\ UNCHANGED <<rx, dropped, ledgers>>

(* _flush_buffer returns after the spool or S3 accepted the whole batch. *)
PlaceBatch ==
  /\ batch # <<>>
  /\ placed' = placed \cup Range(batch)
  /\ batch' = <<>>
  /\ UNCHANGED <<rx, buffer, bufferBytes, dropped, trimmed, abandoned, gone>>

\* Mutant: the batch goes back behind the newer frames.
ReturnAtBack ==
  /\ batch # <<>>
  /\ Trim(buffer \o batch, bufferBytes + Total(Range(batch), NBytes))
  /\ batch' = <<>>
  /\ UNCHANGED <<rx, placed, abandoned, gone>>

(* _return_buffer, then its _trim: both sinks refused the batch. *)
ReturnBuffer ==
  /\ batch # <<>>
  /\ Trim(batch \o buffer, bufferBytes + Total(Range(batch), NBytes))
  /\ batch' = <<>>
  /\ UNCHANGED <<rx, placed, abandoned, gone>>

(* CancelledError at one of _flush_buffer's awaits: the local `batch' dies *)
(* with the coroutine, nothing puts it back.                               *)
CancelFlush ==
  /\ batch # <<>>
  /\ abandoned' = abandoned \cup Range(batch)
  /\ batch' = <<>>
  /\ UNCHANGED <<rx, buffer, bufferBytes, dropped, placed, trimmed, gone>>

(* The process ends and the next one's __init__ starts from nothing. *)
ProcessEnds ==
  /\ gone' = gone \cup Range(buffer) \cup Range(batch)
  /\ buffer' = <<>> /\ bufferBytes' = 0 /\ dropped' = 0 /\ batch' = <<>>
  /\ UNCHANGED <<rx, placed, trimmed, abandoned>>

Next ==
  \/ Receive
  \/ TakeBuffer
  \/ PlaceBatch
  \/ ReturnBuffer
  \/ CancelFlush
  \/ ProcessEnds

Spec == Init /\ [][Next]_vars

----------------------------------------------------------------------------
(* Properties *)

(* The shape of the state: nothing in the buffer or the ledgers is a frame *)
(* that has not arrived, and the two counters never go negative, which     *)
(* _trim's and _return_buffer's bookkeeping must ensure between them.      *)
TypeOK ==
  /\ rx \in 0..MaxFrames
  /\ buffer \in Seq(1..rx)
  /\ batch \in Seq(1..rx)
  /\ bufferBytes \in Nat
  /\ dropped \in Nat
  /\ placed \subseteq 1..rx
  /\ trimmed \subseteq 1..rx
  /\ abandoned \subseteq 1..rx
  /\ gone \subseteq 1..rx

\* The six places a received frame can be.
Holders == <<Range(buffer), Range(batch), placed, trimmed, abandoned, gone>>

(* Every received frame is in exactly one place: an overlapping append,    *)
(* take, return and eviction neither loses a frame without counting it nor *)
(* leaves one both written and still queued (the earlier form, which       *)
(* snapshotted the buffer and dropped the N oldest afterwards, did both).  *)
Conservation ==
  /\ 1..rx = UNION {Holders[i] : i \in 1..6}
  /\ \A i, j \in 1..6 : i # j => Holders[i] \cap Holders[j] = {}

(* The running counter that _append, _trim, _take_buffer and               *)
(* _return_buffer each adjust is the size of what is really in the buffer. *)
BytesExact == bufferBytes = Total(Range(buffer), NBytes)

(* The batch being written and the buffer behind it are together in order  *)
(* of arrival, so a returned batch goes back in front of what arrived      *)
(* meanwhile and _objects sees frames as they were captured.               *)
CaptureOrder ==
  LET queue == batch \o buffer
  IN  \A i, j \in DOMAIN queue : i < j => queue[i] < queue[j]

(* What the process holds is bounded: the buffer by the cap and the batch  *)
(* in flight by the cap once more, through any number of failed flushes.   *)
MemoryBound ==
  /\ bufferBytes <= MaxBufferBytes
  /\ Total(Range(batch), NBytes) <= MaxBufferBytes

(* self.dropped grows by exactly the number of frames a trim loses. *)
DropsAreCounted ==
  [][dropped' - dropped = Cardinality(trimmed' \ trimmed) \/ ProcessEnds]_vars

(* A trim drops only frames older than every frame it keeps, never one     *)
(* that a flush is writing, and never one it could have kept: the last one *)
(* dropped would not have fitted.                                          *)
TrimDropsOldestOnly ==
  [][LET lost == trimmed' \ trimmed
     IN  /\ \A f \in lost : f \notin Range(batch') /\ \A g \in Range(buffer') : f < g
         /\ lost # {} =>
              \E f \in lost :
                /\ \A g \in lost : g <= f
                /\ Total(Range(buffer') \cup {f}, NBytes) > MaxBufferBytes]_vars
=============================================================================
