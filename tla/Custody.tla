------------------------------- MODULE Custody ------------------------------
(***************************************************************************)
(* What the logger promises about a frame, with nothing of how: a frame is *)
(* captured into RAM, moves to the spool and from there to S3, or straight *)
(* to S3, and once in S3 it is never less than in S3.  It is lost in one   *)
(* of two ways only: dropped, by a trim or an eviction that counted it, or *)
(* dead with the task or process that held it in RAM.  A frame in the      *)
(* spool can be dropped, but dies only if the power is cut: an eviction    *)
(* that does not count it has no place here.                               *)
(***************************************************************************)
EXTENDS Integers

CONSTANTS
  Frame,
  PowerCuts     \* whether the power may be cut

VARIABLE where  \* where[f]: the safest place that f is in

Place == {"bus", "ram", "disk", "s3", "dropped", "dead"}

Init == where = [f \in Frame |-> "bus"]

\* Every frame of S stays where it is or makes one of the moves.
Moves(S, moves) ==
  \A f \in S : where'[f] = where[f] \/ <<where[f], where'[f]>> \in moves

(* One frame arrives; it or older ones in RAM may have to give way. *)
Capture ==
  /\ where' \in [Frame -> Place]
  /\ \E f \in Frame :
       /\ where[f] = "bus" /\ where'[f] \in {"ram", "dropped"}
       /\ Moves(Frame \ {f}, {<<"ram", "dropped">>})

HandOver == {<<"ram", "disk">>, <<"ram", "s3">>, <<"disk", "s3">>}

\* An evicted file's rows are lost, unless a flush or a PUT still holds them.
Losses == {<<"disk", "dropped">>, <<"disk", "ram">>,
           <<"ram", "dropped">>, <<"ram", "dead">>}

(* Frames are written, uploaded, evicted, or die with what held them. *)
Move ==
  /\ where' \in [Frame -> Place]
  /\ Moves(Frame, HandOver \cup Losses)

(* The disk is what was last committed: files not yet durable are gone,    *)
(* and files whose removal was not durable are back.                       *)
PowerCut ==
  /\ PowerCuts
  /\ where' \in [Frame -> Place]
  /\ Moves(Frame, HandOver \cup Losses \cup {<<"disk", "dead">>, <<"dropped", "disk">>})

Next == Capture \/ Move \/ PowerCut

Spec == Init /\ [][Next]_where
=============================================================================
