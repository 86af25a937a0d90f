----------------------------- MODULE MCUpdatePg -----------------------------
(***************************************************************************)
(* Two processes, cron's and an operator's, over two objects that meet in  *)
(* bucket 1.  Readings are numbered by object.                             *)
(***************************************************************************)
EXTENDS UpdatePg, TLC

MCModes == [r \in Run |-> IF r = "cron" THEN {"normal"} ELSE {"rebuild", "dry"}]

First == (<<1, 1>> :> 11) @@ (<<1, 2>> :> 12)

\* The second object completes a message the first began: one more reading.
MCIngested ==
  [x \in Object \X SUBSET Message |->
     IF x[1] = 1 THEN [rows |-> First, held |-> {"m"}]
     ELSE [rows |-> (<<1, 1>> :> 21) @@ IF "m" \in x[2] THEN <<2, 1>> :> 22 ELSE <<>>,
           held |-> {}]]

\* The second object has field 2 again, but only after the shared bucket.
MCErasing ==
  [x \in Object \X SUBSET Message |->
     [rows |-> IF x[1] = 1 THEN First ELSE (<<1, 1>> :> 21) @@ (<<2, 2>> :> 22),
      held |-> {}]]
=============================================================================
