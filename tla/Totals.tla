------------------------------- MODULE Totals -------------------------------
(***************************************************************************)
(* Byte totals, used by the RAM buffer's byte counter (sum of f.nbytes)    *)
(* and by the spool's disk usage (sum of st_size).                         *)
(*                                                                         *)
(* A total is stated as the cardinality of a set of unit pieces, one pair  *)
(* <<x, i>> per byte of x, and not as a fold: TLC evaluates both, but only *)
(* the cardinality form can be reasoned about without induction.           *)
(***************************************************************************)
EXTENDS Integers, FiniteSets

Pieces(S, weight) == UNION {{x} \X (1..weight[x]) : x \in S}

Total(S, weight) == Cardinality(Pieces(S, weight))
=============================================================================
