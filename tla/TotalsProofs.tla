---------------------------- MODULE TotalsProofs ----------------------------
(***************************************************************************)
(* What several proofs use of numbers: a set of naturals has a least       *)
(* element, and Total is additive over disjoint finite sets.               *)
(***************************************************************************)
EXTENDS Totals, FiniteSetTheorems, WellFoundedInduction, TLAPS

\* A well-founded order instead of an induction.
Less == {p \in Nat \X Nat : p[1] < p[2]}

LEMMA LessIsWellFounded == IsWellFoundedOn(Less, Nat)
BY NatLessThanWellFounded, Zenon DEF OpToRel, Less

LEMMA LeastOf ==
  ASSUME NEW S, S \subseteq Nat, S # {}
  PROVE  \E x \in S : \A y \in S : x <= y
<1>1. PICK x \in S : \A y \in S : ~(<<y, x>> \in Less)
  BY LessIsWellFounded, WFMin
<1>2. \A y \in S : ~(y < x)
  BY <1>1 DEF Less
<1>3. \A y \in S : x \in Nat /\ y \in Nat
  OBVIOUS
<1> QED
  BY <1>2, <1>3

(* The pieces of one element x are as many as its weight. *)
LEMMA PiecesOfOne ==
  ASSUME NEW x, NEW w, w[x] \in Nat
  PROVE  /\ IsFiniteSet({x} \X (1..w[x]))
         /\ Cardinality({x} \X (1..w[x])) = w[x]
<1>1. IsFiniteSet({x}) /\ Cardinality({x}) = 1
  BY FS_Singleton
<1>2. IsFiniteSet(1..w[x]) /\ Cardinality(1..w[x]) = w[x]
  BY FS_Interval
<1>3. IsFiniteSet({x} \X (1..w[x]))
      /\ Cardinality({x} \X (1..w[x])) = Cardinality({x}) * Cardinality(1..w[x])
  BY <1>1, <1>2, FS_Product
<1> QED BY <1>1, <1>2, <1>3

LEMMA PiecesFinite ==
  ASSUME NEW S, IsFiniteSet(S), NEW w, \A x \in S : w[x] \in Nat
  PROVE  IsFiniteSet(Pieces(S, w))
<1> DEFINE Of(x) == {x} \X (1..w[x])
           All == {Of(x) : x \in S}
           f == [x \in S |-> Of(x)]
<1>0. f \in Surjection(S, All)
  BY DEF Surjection
<1>1. IsFiniteSet(All)
  <2> HIDE DEF All, f
  <2> QED BY <1>0, FS_Surjection
<1>2. \A T \in All : IsFiniteSet(T)
  BY PiecesOfOne
<1>3. IsFiniteSet(UNION All)
  BY <1>1, <1>2, FS_UNION
<1> QED BY <1>3 DEF Pieces

(* A total is a natural number. *)
LEMMA TotalType ==
  ASSUME NEW S, IsFiniteSet(S), NEW w, \A x \in S : w[x] \in Nat
  PROVE  Total(S, w) \in Nat
BY PiecesFinite, FS_CardinalityType DEF Total

LEMMA TotalEmpty ==
  ASSUME NEW w PROVE Total({}, w) = 0
<1>1. Pieces({}, w) = {}
  BY DEF Pieces
<1> QED BY <1>1, FS_EmptySet DEF Total

LEMMA TotalOne ==
  ASSUME NEW x, NEW w, w[x] \in Nat
  PROVE  Total({x}, w) = w[x]
<1>1. Pieces({x}, w) = {x} \X (1..w[x])
  BY DEF Pieces
<1> QED BY <1>1, PiecesOfOne DEF Total

(* Disjoint sets: the total of the union is the sum of the totals. *)
LEMMA TotalUnion ==
  ASSUME NEW S, IsFiniteSet(S), NEW T, IsFiniteSet(T), S \cap T = {},
         NEW w, \A x \in S \cup T : w[x] \in Nat
  PROVE  Total(S \cup T, w) = Total(S, w) + Total(T, w)
<1>1. IsFiniteSet(Pieces(S, w)) /\ IsFiniteSet(Pieces(T, w))
  BY PiecesFinite
<1>2. Pieces(S \cup T, w) = Pieces(S, w) \cup Pieces(T, w)
  BY DEF Pieces
<1>3. Pieces(S, w) \cap Pieces(T, w) = {}
  BY DEF Pieces
<1>4. Cardinality(Pieces(S, w) \cap Pieces(T, w)) = 0
  BY <1>3, FS_EmptySet
<1>5. Cardinality(Pieces(S, w)) \in Nat /\ Cardinality(Pieces(T, w)) \in Nat
  BY <1>1, FS_CardinalityType
<1>6. Cardinality(Pieces(S, w) \cup Pieces(T, w)) =
        Cardinality(Pieces(S, w)) + Cardinality(Pieces(T, w))
          - Cardinality(Pieces(S, w) \cap Pieces(T, w))
  BY <1>1, FS_Union
<1>7. /\ Total(S \cup T, w) = Cardinality(Pieces(S, w) \cup Pieces(T, w))
      /\ Total(S, w) = Cardinality(Pieces(S, w))
      /\ Total(T, w) = Cardinality(Pieces(T, w))
  BY <1>2 DEF Total
<1> QED BY <1>4, <1>5, <1>6, <1>7

(* A part of a set does not total more than the set. *)
LEMMA TotalSubset ==
  ASSUME NEW S, IsFiniteSet(S), NEW T, T \subseteq S,
         NEW w, \A x \in S : w[x] \in Nat
  PROVE  Total(T, w) <= Total(S, w)
<1>1. Pieces(T, w) \subseteq Pieces(S, w)
  BY DEF Pieces
<1>2. IsFiniteSet(Pieces(S, w))
  BY PiecesFinite
<1> QED BY <1>1, <1>2, FS_Subset DEF Total
=============================================================================
