------------------------------ MODULE Capture -------------------------------
(***************************************************************************)
(* The CAN listener in front of the RAM buffer (logger.py: _can_listener,  *)
(* _drain): it opens the socket, drains it whenever it is readable, and on *)
(* a read error closes it and starts over.  _drain is a callback of the    *)
(* event loop, so no flush gets its turn before the socket is empty.       *)
(*                                                                         *)
(* Of a frame in the socket's queue only its kind matters: "data", or      *)
(* "other" (short, error or remote), which _drain skips.                   *)
(***************************************************************************)
EXTENDS RamBuffer, FiniteSetsExt

CONSTANTS
  ReconnectDelay, ReconnectMax,   \* CAN_RECONNECT_DELAY, CAN_RECONNECT_MAX
  RcvBuf,                         \* frames the socket's queue holds
  MaxLinkChanges                  \* bound

ASSUME CaptureAssumption ==
  /\ ReconnectDelay \in Nat \ {0} /\ ReconnectMax \in Nat /\ RcvBuf \in Nat

VARIABLES
  link,      \* the interface: "up", "down" or "absent"
  changes,   \* how often it has changed
  sock,      \* "closed", "open", or "broken": open with an error to report
  queue,     \* frames received by the socket
  draining,  \* _drain is running
  dead,      \* the asyncio.Event
  delay      \* _can_listener's delay

listener == <<sock, queue, draining, dead, delay>>
captureVars == <<vars, link, changes, listener>>

NoListener ==
  sock = "closed" /\ queue = <<>> /\ draining = FALSE /\ dead = FALSE /\ delay = ReconnectDelay

CaptureInit == Init /\ link = "up" /\ changes = 0 /\ NoListener

(* The sleep is over: the loop's next socket(), bind().  A missing interface *)
(* makes it raise and the next sleep longer; one that is down does not, but  *)
(* the first read will fail.                                                 *)
OpenSocket ==
  /\ sock = "closed" /\ ~draining
  /\ IF link = "absent"
     THEN delay' = Min({delay * 2, ReconnectMax}) /\ UNCHANGED sock
     ELSE delay' = ReconnectDelay /\ sock' = IF link = "up" THEN "open" ELSE "broken"
  /\ dead' = FALSE
  /\ UNCHANGED <<vars, link, changes, queue, draining>>

(* The fd is readable: the event loop calls _drain.                       *)
Readable ==
  /\ sock # "closed" /\ ~draining /\ ~dead
  /\ queue # <<>> \/ sock = "broken"
  /\ draining' = TRUE
  /\ UNCHANGED <<vars, link, changes, sock, queue, dead, delay>>

(* recvmsg returns a frame: _append, or `continue'.                       *)
ReadFrame ==
  /\ draining /\ sock = "open" /\ queue # <<>>
  /\ IF Head(queue) = "data" THEN Receive ELSE UNCHANGED vars
  /\ queue' = Tail(queue)
  /\ UNCHANGED <<link, changes, sock, draining, dead, delay>>

(* BlockingIOError: the socket is drained.                                *)
Drained ==
  /\ draining /\ sock = "open" /\ queue = <<>>
  /\ draining' = FALSE
  /\ UNCHANGED <<vars, link, changes, sock, queue, dead, delay>>

\* Mutant: taken for BlockingIOError, which is an OSError too.
ReadErrorAsDrained ==
  /\ draining /\ sock = "broken"
  /\ draining' = FALSE
  /\ UNCHANGED <<vars, link, changes, sock, queue, dead, delay>>

(* OSError: dead.set().                                                   *)
ReadError ==
  /\ draining /\ sock = "broken"
  /\ draining' = FALSE /\ dead' = TRUE
  /\ UNCHANGED <<vars, link, changes, sock, queue, delay>>

(* dead.wait() returns: remove_reader, close, sleep.                      *)
CloseSocket ==
  /\ dead /\ sock # "closed" /\ ~draining
  /\ sock' = "closed" /\ queue' = <<>>
  /\ UNCHANGED <<vars, link, changes, draining, dead, delay>>

(* The kernel: a frame goes into the queue, or is lost where it is full.  *)
FrameArrives(kind) ==
  /\ link = "up" /\ sock = "open" /\ Len(queue) < RcvBuf
  /\ kind = "data" => rx + Len(SelectSeq(queue, LAMBDA k : k = "data")) < MaxFrames
  /\ queue' = Append(queue, kind)
  /\ UNCHANGED <<vars, link, changes, sock, draining, dead, delay>>

(* The interface goes, comes back, is unplugged.                          *)
LinkChanges(to) ==
  /\ to # link /\ changes < MaxLinkChanges
  /\ link' = to /\ changes' = changes + 1
  /\ sock' = IF sock = "open" THEN "broken" ELSE sock
  /\ UNCHANGED <<vars, queue, draining, dead, delay>>

\* The event loop's other tasks, which a _drain keeps waiting.
FlushStep ==
  /\ ~draining
  /\ TakeBuffer \/ PlaceBatch \/ ReturnBuffer \/ CancelFlush
  /\ UNCHANGED <<link, changes, listener>>

Restart ==
  /\ ProcessEnds
  /\ sock' = "closed" /\ queue' = <<>> /\ draining' = FALSE /\ dead' = FALSE
  /\ delay' = ReconnectDelay
  /\ UNCHANGED <<link, changes>>

ListenerStep == OpenSocket \/ Readable \/ ReadFrame \/ Drained \/ ReadError \/ CloseSocket

CaptureNext ==
  \/ ListenerStep \/ FlushStep \/ Restart
  \/ \E kind \in {"data", "other"} : FrameArrives(kind)
  \/ \E to \in {"up", "down", "absent"} : LinkChanges(to)

\* The event loop runs its callbacks and sleeps end.
CaptureSpec == CaptureInit /\ [][CaptureNext]_captureVars /\ WF_captureVars(ListenerStep)

----------------------------------------------------------------------------
\* "Interface bounced, cable reseated": once the interface is up for good, the
\* listener is again and again reading it, whatever it was doing when it went.
ListenerRecovers == <>[](link = "up") => []<>(sock = "open")
=============================================================================
