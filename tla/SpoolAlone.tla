----------------------------- MODULE SpoolAlone -----------------------------
(***************************************************************************)
(* The spool under a caller that keeps _flush_buffer's side of the bargain *)
(* and no more: it hands each object to one thread at a time, hands it     *)
(* over again only if _write_spool answered False, and forgets it when the *)
(* process ends.                                                           *)
(***************************************************************************)
EXTENDS Spool

CONSTANT
  MaxEvictedRows    \* bound: no flush starts with more rows counted as evicted

ASSUME AloneAssumption == MaxEvictedRows \in Nat

VARIABLE
  caller    \* caller[o]: what the caller knows of o

allVars == <<vars, caller>>

CallerStates == {"held",      \* not written yet, or refused
                 "writing",   \* handed to a thread
                 "placed",    \* _write_spool returned True
                 "dead"}      \* the process ended first

Tell(objs, state) ==
  caller' = [o \in Object |-> IF o \in Range(objs) THEN state ELSE caller[o]]

InitAlone == Init /\ caller = [o \in Object |-> "held"]

Flush(t) ==
  /\ alive
  /\ evictedRows <= MaxEvictedRows
  /\ \E objs \in Batches :
       /\ \A i \in DOMAIN objs : caller[objs[i]] = "held"
       /\ \A i, j \in DOMAIN objs : i # j => objs[i] # objs[j]
       /\ Submit(t, objs)
       /\ Tell(objs, "writing")

Answer(t) ==
  /\ Collect(t)
  /\ Tell(writer[t].objs, IF WriterAt(t, "true") THEN "placed" ELSE "held")

EndOfProcess ==
  /\ PowerCut({}) \/ ("kill" \in Faults /\ ProcessEnds({}))
  /\ caller' = [o \in Object |-> IF caller[o] = "writing" THEN "dead" ELSE caller[o]]

Threads == \E t \in Thread : Flush(t) \/ Answer(t)

Quiet ==
  \/ \E t \in Thread : WriterStep(t)
  \/ alive /\ BeginPass
  \/ UploadStep
  \/ "cancel" \in Faults /\ alive /\ CancelUploads({})
  \/ LatePut
  \/ JournalCommit
  \/ StartProcess

Next == Threads \/ EndOfProcess \/ (Quiet /\ UNCHANGED caller)

Spec == InitAlone /\ [][Next]_allVars

----------------------------------------------------------------------------
(* Properties *)

(* What _flush_buffer counts as spooled survives a power cut, until it is  *)
(* in S3 or evicted: True means the rename has been committed.             *)
PlacedIsDurable ==
  \A o \in Object : caller[o] = "placed" => o \in durable \cup s3 \cup evicted
=============================================================================
