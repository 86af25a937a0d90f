-------------------------- MODULE RamBufferProofs ---------------------------
(***************************************************************************)
(* RamBuffer's invariants, for every number of frames, all frame sizes and *)
(* every cap.  Their conjunction is inductive as it stands: the byte       *)
(* counter is exact only because no frame is in the buffer twice, which    *)
(* follows from the order, and the memory bound only because the counter   *)
(* is exact.                                                               *)
(***************************************************************************)
EXTENDS RamBuffer, TotalsProofs, SequenceTheorems

----------------------------------------------------------------------------
(* Positions: after a prefix of length a, and after the first k of l. *)

LEMMA ShiftBack ==
  ASSUME NEW i \in Nat, NEW j \in Nat, NEW a \in Nat, NEW b \in Nat,
         i < j, i > a, j <= a + b
  PROVE  /\ i - a \in 1..b /\ j - a \in 1..b /\ i - a < j - a
         /\ (i - a) + a = i /\ (j - a) + a = j
OBVIOUS

LEMMA AfterPrefix ==
  ASSUME NEW l \in Nat, NEW k \in 0..l
  PROVE  /\ k \in Nat /\ k <= l /\ k + 1 \in Int /\ l \in Int
         /\ l - (k + 1) + 1 = l - k
         /\ k + 1 <= l \/ l - k = 0
         /\ \A i \in (k + 1)..l : i \in 1..l
         /\ \A i \in 1..(l - k) : k + i \in 1..l /\ k < k + i /\ (k + 1) + i - 1 = k + i
         /\ \A i \in 1..l : i > k => i - k \in 1..(l - k) /\ k + (i - k) = i
OBVIOUS

----------------------------------------------------------------------------
(* Sequences of frames in order of arrival *)

Increasing(s) == \A i, j \in DOMAIN s : i < j => s[i] < s[j]

AllBefore(S, T) == \A f \in S, g \in T : f < g

LEMMA IncreasingConcat ==
  ASSUME NEW n \in Nat, NEW s \in Seq(1..n), NEW t \in Seq(1..n)
  PROVE  Increasing(s \o t)
           <=> Increasing(s) /\ Increasing(t) /\ AllBefore(Range(s), Range(t))
<1> DEFINE st == s \o t
<1>1. /\ st \in Seq(1..n) /\ Len(st) = Len(s) + Len(t)
      /\ \A i \in 1 .. Len(s) + Len(t) :
           st[i] = IF i <= Len(s) THEN s[i] ELSE t[i - Len(s)]
  BY ConcatProperties
<1>2. Len(s) \in Nat /\ Len(t) \in Nat
  BY LenProperties
<1>3. DOMAIN st = 1..(Len(s) + Len(t)) /\ DOMAIN s = 1..Len(s) /\ DOMAIN t = 1..Len(t)
  BY <1>1, LenProperties
<1> HIDE DEF st
<1>4. \A i \in 1..Len(s) : i \in DOMAIN st /\ st[i] = s[i]
  BY <1>1, <1>2, <1>3
<1>5. \A i \in 1..Len(t) : i + Len(s) \in DOMAIN st /\ st[i + Len(s)] = t[i]
  <2> SUFFICES ASSUME NEW i \in 1..Len(t)
               PROVE  i + Len(s) \in DOMAIN st /\ st[i + Len(s)] = t[i]
    OBVIOUS
  <2>1. i + Len(s) \in 1..(Len(s) + Len(t)) /\ ~(i + Len(s) <= Len(s))
        /\ (i + Len(s)) - Len(s) = i
    BY <1>2
  <2> QED BY <1>1, <1>3, <2>1
<1>6. ASSUME Increasing(st)
      PROVE  Increasing(s) /\ Increasing(t) /\ AllBefore(Range(s), Range(t))
  <2>1. \A i, j \in DOMAIN s : i < j => s[i] < s[j]
    BY <1>3, <1>4, <1>6 DEF Increasing
  <2>2. ASSUME NEW i \in 1..Len(t), NEW j \in 1..Len(t), i < j
        PROVE  t[i] < t[j]
    <3>1. i + Len(s) < j + Len(s)
      BY <1>2, <2>2
    <3>2. st[i + Len(s)] < st[j + Len(s)]
      BY <1>5, <1>6, <3>1 DEF Increasing
    <3> QED BY <1>5, <3>2
  <2>3. ASSUME NEW i \in 1..Len(s), NEW j \in 1..Len(t)
        PROVE  s[i] < t[j]
    <3>1. i < j + Len(s)
      BY <1>2
    <3>2. st[i] < st[j + Len(s)]
      BY <1>4, <1>5, <1>6, <3>1 DEF Increasing
    <3> QED BY <1>4, <1>5, <3>2
  <2>4. Increasing(t)
    BY <1>3, <2>2 DEF Increasing
  <2>5. AllBefore(Range(s), Range(t))
    BY <1>3, <2>3 DEF AllBefore, Range
  <2> QED BY <2>1, <2>4, <2>5 DEF Increasing
<1>7. ASSUME Increasing(s), Increasing(t), AllBefore(Range(s), Range(t)),
             NEW i \in DOMAIN st, NEW j \in DOMAIN st, i < j
      PROVE  st[i] < st[j]
  <2>1. i \in Nat /\ j \in Nat /\ i >= 1 /\ j <= Len(s) + Len(t)
    BY <1>2, <1>3
  <2>2. CASE j <= Len(s)
    <3>1. i \in 1..Len(s) /\ j \in 1..Len(s)
      BY <1>2, <1>7, <2>1, <2>2
    <3> QED BY <1>3, <1>4, <1>7, <3>1 DEF Increasing
  <2>3. CASE i <= Len(s) /\ j > Len(s)
    <3>1. i \in 1..Len(s) /\ j - Len(s) \in 1..Len(t) /\ (j - Len(s)) + Len(s) = j
      BY <1>2, <2>1, <2>3
    <3>2. s[i] \in Range(s) /\ t[j - Len(s)] \in Range(t)
      BY <1>3, <3>1 DEF Range
    <3> QED BY <1>4, <1>5, <1>7, <3>1, <3>2 DEF AllBefore
  <2>4. CASE i > Len(s)
    <3>1. /\ i - Len(s) \in 1..Len(t) /\ j - Len(s) \in 1..Len(t)
          /\ i - Len(s) < j - Len(s)
          /\ (i - Len(s)) + Len(s) = i /\ (j - Len(s)) + Len(s) = j
      <4>1. i < j /\ i > Len(s)
        BY <1>7, <2>4
      <4> QED BY <1>2, <2>1, <4>1, ShiftBack
    <3>2. t[i - Len(s)] < t[j - Len(s)]
      BY <1>3, <1>7, <3>1 DEF Increasing
    <3> QED BY <1>5, <3>1, <3>2
  <2> QED BY <1>2, <2>1, <2>2, <2>3, <2>4
<1>8. Increasing(s) /\ Increasing(t) /\ AllBefore(Range(s), Range(t)) => Increasing(st)
  BY <1>7 DEF Increasing
<1> QED BY <1>6, <1>8 DEF st

(* Cutting an increasing sequence after k elements. *)
LEMMA Cut ==
  ASSUME NEW n \in Nat, NEW q \in Seq(1..n), Increasing(q), NEW k \in 0..Len(q)
  PROVE  LET front == SubSeq(q, 1, k)
             back == SubSeq(q, k + 1, Len(q))
         IN  /\ front \in Seq(1..n) /\ back \in Seq(1..n)
             /\ Len(front) = k
             /\ Increasing(front) /\ Increasing(back)
             /\ Range(q) = Range(front) \cup Range(back)
             /\ AllBefore(Range(front), Range(back))
<1> DEFINE front == SubSeq(q, 1, k)
           back == SubSeq(q, k + 1, Len(q))
<1>1. Len(q) \in Nat /\ DOMAIN q = 1..Len(q) /\ \A i \in 1..Len(q) : q[i] \in 1..n
  BY LenProperties
<1>2. /\ front \in Seq(1..n) /\ Len(front) = k
      /\ \A i \in 1..k : front[i] = q[i]
  BY <1>1, SubSeqProperties
<1>3. /\ back \in Seq(1..n) /\ Len(back) = Len(q) - k
      /\ \A i \in 1..(Len(q) - k) : back[i] = q[k + i]
  <2>1. /\ k \in Nat /\ k <= Len(q) /\ k + 1 \in Int /\ Len(q) \in Int
        /\ Len(q) - (k + 1) + 1 = Len(q) - k
        /\ k + 1 <= Len(q) \/ Len(q) - k = 0
    BY <1>1, AfterPrefix
  <2>2. \A i \in (k + 1)..Len(q) : q[i] \in 1..n
    BY <1>1, AfterPrefix
  <2> DEFINE m == k + 1
             e == Len(q)
  <2>4. SubSeq(q, m, e) = back
    OBVIOUS
  <2>5. m \in Int /\ e \in Int /\ \A i \in m..e : q[i] \in 1..n
    BY <2>1, <2>2
  <2>6. /\ SubSeq(q, m, e) \in Seq(1..n)
        /\ Len(SubSeq(q, m, e)) = IF m <= e THEN e - m + 1 ELSE 0
        /\ \A i \in 1..(e - m + 1) : SubSeq(q, m, e)[i] = q[m + i - 1]
    <3> HIDE DEF m, e
    <3> QED BY <2>5, SubSeqProperties
  <2>7. back \in Seq(1..n) /\ Len(back) = Len(q) - k
    <3> HIDE DEF back
    <3> QED BY <1>1, <2>1, <2>4, <2>6
  <2>8. \A i \in 1..(Len(q) - k) : back[i] = q[(k + 1) + i - 1]
    <3> HIDE DEF back
    <3> QED BY <2>1, <2>4, <2>6
  <2>3. ASSUME NEW i \in 1..(Len(q) - k)
        PROVE  back[i] = q[k + i]
    <3>1. (k + 1) + i - 1 = k + i
      BY <1>1, AfterPrefix
    <3> HIDE DEF back
    <3> QED BY <2>8, <3>1
  <2> HIDE DEF back
  <2> QED BY <2>3, <2>7
<1>4. DOMAIN front = 1..k /\ DOMAIN back = 1..(Len(q) - k)
  BY <1>2, <1>3, LenProperties
<1> HIDE DEF front, back
<1>5. ASSUME NEW i \in DOMAIN front
      PROVE  i \in DOMAIN q /\ front[i] = q[i] /\ i <= k
  BY <1>1, <1>2, <1>4
<1>6. ASSUME NEW i \in DOMAIN back
      PROVE  k + i \in DOMAIN q /\ back[i] = q[k + i] /\ k < k + i
  <2>1. i \in 1..(Len(q) - k)
    BY <1>4
  <2>2. k + i \in 1..Len(q) /\ k < k + i
    BY <1>1, <2>1, AfterPrefix
  <2> QED BY <1>1, <1>3, <2>1, <2>2
<1>7. Increasing(front)
  <2> SUFFICES ASSUME NEW i \in DOMAIN front, NEW j \in DOMAIN front, i < j
               PROVE  front[i] < front[j]
    BY DEF Increasing
  <2> QED BY <1>5 DEF Increasing
<1>8. Increasing(back)
  <2> SUFFICES ASSUME NEW i \in DOMAIN back, NEW j \in DOMAIN back, i < j
               PROVE  back[i] < back[j]
    BY DEF Increasing
  <2>1. k + i < k + j
    BY <1>4, <1>1
  <2>2. q[k + i] < q[k + j]
    BY <1>6, <2>1 DEF Increasing
  <2> QED BY <1>6, <2>2
<1>9. AllBefore(Range(front), Range(back))
  <2> SUFFICES ASSUME NEW i \in DOMAIN front, NEW j \in DOMAIN back
               PROVE  front[i] < back[j]
    BY DEF AllBefore, Range
  <2>1. i < k + j
    BY <1>4, <1>1
  <2>2. q[i] < q[k + j]
    BY <1>5, <1>6, <2>1 DEF Increasing
  <2> QED BY <1>5, <1>6, <2>2
<1>10. Range(q) \subseteq Range(front) \cup Range(back)
  <2> SUFFICES ASSUME NEW i \in 1..Len(q)
               PROVE  q[i] \in Range(front) \cup Range(back)
    BY <1>1 DEF Range
  <2>1. CASE i <= k
    <3>1. i \in DOMAIN front
      BY <1>1, <1>4, <2>1
    <3> QED BY <1>5, <3>1 DEF Range
  <2>2. CASE i > k
    <3>1. i - k \in DOMAIN back /\ k + (i - k) = i
      BY <1>1, <1>4, <2>2
    <3>2. back[i - k] = q[i]
      BY <1>6, <3>1
    <3> QED BY <3>1, <3>2 DEF Range
  <2> QED BY <1>1, <2>1, <2>2
<1>11. Range(front) \subseteq Range(q)
  BY <1>5 DEF Range
<1>12. Range(back) \subseteq Range(q)
  BY <1>6 DEF Range
<1>13. Range(q) = Range(front) \cup Range(back)
  BY <1>10, <1>11, <1>12
<1> QED BY <1>2, <1>3, <1>7, <1>8, <1>9, <1>13 DEF front, back

(* An increasing sequence has as many elements as positions. *)
LEMMA IncreasingRange ==
  ASSUME NEW n \in Nat, NEW s \in Seq(1..n), Increasing(s)
  PROVE  IsFiniteSet(Range(s)) /\ Cardinality(Range(s)) = Len(s)
<1>1. Len(s) \in Nat /\ DOMAIN s = 1..Len(s) /\ s \in [1..Len(s) -> 1..n]
  BY LenProperties
<1>2. s \in Bijection(1..Len(s), Range(s))
  <2>1. s \in [1..Len(s) -> Range(s)]
    BY <1>1 DEF Range
  <2>2. ASSUME NEW i \in 1..Len(s), NEW j \in 1..Len(s), s[i] = s[j]
        PROVE  i = j
    <3>1. s[i] \in Nat /\ s[j] \in Nat
      BY <1>1
    <3>2. ~(i < j) /\ ~(j < i)
      BY <1>1, <2>2, <3>1 DEF Increasing
    <3> QED BY <1>1, <3>2
  <2> QED BY <1>1, <2>1, <2>2 DEF Bijection, Injection, Surjection, IsInjective, Range
<1>3. ExistsBijection(1..Len(s), Range(s))
  BY <1>2 DEF ExistsBijection
<1>4. IsFiniteSet(1..Len(s)) /\ Cardinality(1..Len(s)) = Len(s)
  <2>1. 1 \in Int /\ Len(s) \in Int /\ (IF 1 > Len(s) THEN 0 ELSE Len(s) - 1 + 1) = Len(s)
    BY <1>1
  <2> QED BY <2>1, FS_Interval
<1> QED BY <1>3, <1>4, FS_Bijection

----------------------------------------------------------------------------
(* The frames of an increasing queue, as a set *)

LEMMA RangeType ==
  ASSUME NEW n \in Nat, n <= MaxFrames, NEW s \in Seq(1..n)
  PROVE  /\ IsFiniteSet(Range(s)) /\ Range(s) \subseteq 1..n
         /\ \A f \in Range(s) : NBytes[f] \in Nat
         /\ Total(Range(s), NBytes) \in Nat
<1>1. Range(s) \subseteq 1..n
  BY RangeOfSeq
<1>2. IsFiniteSet(1..n)
  BY FS_Interval
<1>3. IsFiniteSet(Range(s))
  BY <1>1, <1>2, FS_Subset
<1>4. \A f \in Range(s) : NBytes[f] \in Nat
  BY <1>1, BufferAssumption DEF Frame
<1> QED BY <1>1, <1>3, <1>4, TotalType

(* What _trim does to a queue q in order of arrival whose size the counter *)
(* knows: it leaves a suffix that fits, and counts the rest.               *)
LEMMA TrimLeavesSuffix ==
  ASSUME NEW n \in Nat, n <= MaxFrames, NEW q \in Seq(1..n), Increasing(q),
         NEW bytes, bytes = Total(Range(q), NBytes),
         dropped \in Nat, Trim(q, bytes)
  PROVE  /\ buffer' \in Seq(1..n) /\ Increasing(buffer')
         /\ Range(buffer') \subseteq Range(q)
         /\ bufferBytes' = Total(Range(buffer'), NBytes)
         /\ bufferBytes' \in Nat /\ bufferBytes' <= MaxBufferBytes
         /\ trimmed' = trimmed \cup (Range(q) \ Range(buffer'))
         /\ dropped' \in Nat
         /\ dropped' = dropped + Cardinality(Range(q) \ Range(buffer'))
         /\ AllBefore(Range(q) \ Range(buffer'), Range(buffer'))
<1>0. Len(q) \in Nat
  BY LenProperties
<1>1. PICK k \in 0..Len(q) :
        /\ StopsAfter(q, bytes, k)
        /\ buffer' = SubSeq(q, k + 1, Len(q))
        /\ bufferBytes' = BytesAfter(q, bytes, k)
        /\ dropped' = dropped + k
        /\ trimmed' = trimmed \cup Range(SubSeq(q, 1, k))
  BY DEF Trim
<1> DEFINE front == SubSeq(q, 1, k)
<1>2. /\ front \in Seq(1..n) /\ buffer' \in Seq(1..n) /\ Len(front) = k
      /\ Increasing(front) /\ Increasing(buffer')
      /\ Range(q) = Range(front) \cup Range(buffer')
      /\ AllBefore(Range(front), Range(buffer'))
  BY <1>1, Cut
<1>3. /\ bufferBytes' = bytes - Total(Range(front), NBytes)
      /\ k = Len(q) \/ bufferBytes' <= MaxBufferBytes
      /\ trimmed' = trimmed \cup Range(front)
  BY <1>1 DEF StopsAfter, BytesAfter
<1>4. buffer' = <<>> \/ k # Len(q)
  BY <1>0, <1>1, SubSeqEmpty
<1> HIDE DEF front
<1>5. Range(front) \cap Range(buffer') = {}
  <2> SUFFICES ASSUME NEW f \in Range(front), f \in Range(buffer') PROVE FALSE
    OBVIOUS
  <2>1. f < f /\ f \in 1..n
    BY <1>2, RangeOfSeq DEF AllBefore
  <2> QED BY <2>1
<1>6. Range(front) = Range(q) \ Range(buffer')
  BY <1>2, <1>5
<1>7. /\ IsFiniteSet(Range(front)) /\ IsFiniteSet(Range(buffer'))
      /\ \A f \in Range(front) \cup Range(buffer') : NBytes[f] \in Nat
      /\ Total(Range(front), NBytes) \in Nat /\ Total(Range(buffer'), NBytes) \in Nat
  BY <1>2, RangeType
<1>8. bytes = Total(Range(front), NBytes) + Total(Range(buffer'), NBytes)
  <2>1. Total(Range(front) \cup Range(buffer'), NBytes)
          = Total(Range(front), NBytes) + Total(Range(buffer'), NBytes)
    <3> DEFINE A == Range(front)
               B == Range(buffer')
    <3>1. IsFiniteSet(A) /\ IsFiniteSet(B) /\ A \cap B = {}
          /\ \A x \in A \cup B : NBytes[x] \in Nat
      BY <1>5, <1>7
    <3> HIDE DEF A, B
    <3>2. Total(A \cup B, NBytes) = Total(A, NBytes) + Total(B, NBytes)
      BY <3>1, TotalUnion
    <3> QED BY <3>2 DEF A, B
  <2> QED BY <1>2, <2>1, Zenon
<1>9. bufferBytes' = Total(Range(buffer'), NBytes)
  BY <1>3, <1>7, <1>8
<1>10. bufferBytes' <= MaxBufferBytes
  <2>1. CASE k # Len(q)
    BY <1>3, <2>1
  <2>2. CASE buffer' = <<>>
    <3>1. Range(buffer') = {}
      BY <2>2 DEF Range
    <3> QED BY <1>9, <3>1, TotalEmpty, BufferAssumption
  <2> QED BY <1>4, <2>1, <2>2
<1>11. Cardinality(Range(q) \ Range(buffer')) = k
  BY <1>2, <1>6, IncreasingRange
<1>12. dropped' = dropped + k /\ dropped' \in Nat
  BY <1>0, <1>1
<1> QED BY <1>2, <1>3, <1>6, <1>7, <1>9, <1>10, <1>11, <1>12

----------------------------------------------------------------------------
(* The inductive invariant *)

(* Conservation, spelled out: six sets, pairwise disjoint, that make up    *)
(* what has arrived.                                                       *)
SixWay(all, a, b, c, d, e, f) ==
  /\ all = a \cup b \cup c \cup d \cup e \cup f
  /\ a \cap b = {} /\ a \cap c = {} /\ a \cap d = {} /\ a \cap e = {} /\ a \cap f = {}
  /\ b \cap c = {} /\ b \cap d = {} /\ b \cap e = {} /\ b \cap f = {}
  /\ c \cap d = {} /\ c \cap e = {} /\ c \cap f = {}
  /\ d \cap e = {} /\ d \cap f = {}
  /\ e \cap f = {}

Partition ==
  SixWay(1..rx, Range(buffer), Range(batch), placed, trimmed, abandoned, gone)

Ordered ==
  Increasing(batch) /\ Increasing(buffer) /\ AllBefore(Range(batch), Range(buffer))

IInv == TypeOK /\ Partition /\ Ordered /\ BytesExact /\ MemoryBound

LEMMA PartitionIsConservation == Partition => Conservation
<1> SUFFICES ASSUME Partition PROVE Conservation
  OBVIOUS
<1>1. \A i \in 1..6 : i \in {1, 2, 3, 4, 5, 6}
  OBVIOUS
<1>2. /\ Holders[1] = Range(buffer) /\ Holders[2] = Range(batch) /\ Holders[3] = placed
      /\ Holders[4] = trimmed /\ Holders[5] = abandoned /\ Holders[6] = gone
  BY DEF Holders
<1>3. UNION {Holders[i] : i \in 1..6}
        = Range(buffer) \cup Range(batch) \cup placed \cup trimmed \cup abandoned \cup gone
  <2> DEFINE U == UNION {Holders[i] : i \in 1..6}
             V == Range(buffer) \cup Range(batch) \cup placed \cup trimmed
                    \cup abandoned \cup gone
  <2>1. \A i \in 1..6 : Holders[i] \subseteq V
    BY <1>1, <1>2
  <2>2. \A i \in 1..6 : Holders[i] \subseteq U
    OBVIOUS
  <2>3. 1 \in 1..6 /\ 2 \in 1..6 /\ 3 \in 1..6 /\ 4 \in 1..6 /\ 5 \in 1..6 /\ 6 \in 1..6
    OBVIOUS
  <2>4. V \subseteq U
    <3> HIDE DEF U
    <3> QED BY <1>2, <2>2, <2>3
  <2>5. U \subseteq V
    BY <2>1
  <2> QED BY <2>4, <2>5
<1>4. ASSUME NEW i \in 1..6, NEW j \in 1..6, i # j
      PROVE  Holders[i] \cap Holders[j] = {}
  BY <1>1, <1>2, <1>4 DEF Partition, SixWay
<1> QED BY <1>3, <1>4 DEF Conservation, Partition, SixWay

LEMMA OrderedIsCaptureOrder == TypeOK /\ Ordered => CaptureOrder
<1> SUFFICES ASSUME TypeOK, Ordered PROVE CaptureOrder
  OBVIOUS
<1>1. rx \in Nat /\ batch \in Seq(1..rx) /\ buffer \in Seq(1..rx)
  BY BufferAssumption DEF TypeOK
<1>2. Increasing(batch \o buffer)
  BY <1>1, IncreasingConcat DEF Ordered
<1> QED BY <1>2 DEF CaptureOrder, Increasing

LEMMA InitEstablishes == Init => IInv
<1> SUFFICES ASSUME Init PROVE IInv
  OBVIOUS
<1>1. /\ rx = 0 /\ buffer = <<>> /\ bufferBytes = 0 /\ dropped = 0 /\ batch = <<>>
      /\ placed = {} /\ trimmed = {} /\ abandoned = {} /\ gone = {}
  BY DEF Init
<1>2. <<>> \in Seq(1..0) /\ Range(<<>>) = {} /\ 1..0 = {}
  BY DEF Range
<1>3. TypeOK
  BY <1>1, <1>2, BufferAssumption DEF TypeOK
<1>4. Partition
  BY <1>1, <1>2 DEF Partition, SixWay
<1>5. Ordered
  BY <1>1, <1>2 DEF Ordered, Increasing, AllBefore
<1>6. BytesExact /\ MemoryBound
  BY <1>1, <1>2, TotalEmpty, BufferAssumption DEF BytesExact, MemoryBound
<1> QED BY <1>3, <1>4, <1>5, <1>6 DEF IInv

(* A frame that arrives goes to the end of the queue. *)
LEMMA AppendLatest ==
  ASSUME NEW n \in Nat, n + 1 <= MaxFrames, NEW s \in Seq(1..n), Increasing(s)
  PROVE  LET q == Append(s, n + 1)
         IN  /\ q \in Seq(1..(n + 1)) /\ Increasing(q)
             /\ Range(q) = Range(s) \cup {n + 1} /\ n + 1 \notin Range(s)
             /\ Total(Range(q), NBytes) = Total(Range(s), NBytes) + NBytes[n + 1]
<1> DEFINE m == n + 1
           one == <<m>>
           q == Append(s, m)
<1>1. /\ m \in Nat /\ n <= m /\ m \in 1..m /\ 1..n \subseteq 1..m
      /\ \A f \in 1..n : f < m /\ f # m
  OBVIOUS
<1>2. s \in Seq(1..m) /\ one \in Seq(1..m)
  <2>1. s \in Seq(1..m)
    <3> HIDE DEF m
    <3> QED BY <1>1, SeqMonotonic
  <2>2. one \in Seq(1..m)
    <3> HIDE DEF m
    <3> QED BY <1>1
  <2> QED BY <2>1, <2>2
<1>3. q = s \o one
  <2> HIDE DEF m
  <2> QED BY <1>1, <1>2, AppendIsConcat
<1>4. Range(one) = {m} /\ Increasing(one)
  <2> HIDE DEF m
  <2>1. DOMAIN one = {1} /\ one[1] = m
    OBVIOUS
  <2> HIDE DEF one
  <2> QED BY <2>1 DEF Range, Increasing
<1>5. Range(s) \subseteq 1..n /\ IsFiniteSet(Range(s)) /\ \A f \in Range(s) : NBytes[f] \in Nat
  <2>1. n <= MaxFrames
    BY BufferAssumption
  <2> QED BY <2>1, RangeType
<1>6. AllBefore(Range(s), Range(one))
  BY <1>1, <1>4, <1>5 DEF AllBefore
<1> HIDE DEF m, one, q
<1>7. q \in Seq(1..m) /\ Increasing(q) /\ Range(q) = Range(s) \cup {m}
  <2>1. q \in Seq(1..m)
    BY <1>2, <1>3, ConcatProperties
  <2>2. Range(q) = Range(s) \cup Range(one)
    BY <1>2, <1>3, RangeConcatenation
  <2>3. Increasing(q)
    BY <1>1, <1>2, <1>3, <1>4, <1>6, IncreasingConcat
  <2> QED BY <1>4, <2>1, <2>2, <2>3
<1>8. m \notin Range(s)
  BY <1>1, <1>5
<1>9. NBytes[m] \in Nat
  BY <1>1, BufferAssumption DEF Frame, m
<1>10. IsFiniteSet({m}) /\ Total({m}, NBytes) = NBytes[m]
  BY <1>9, TotalOne, FS_Singleton
<1>11. Total(Range(q), NBytes) = Total(Range(s), NBytes) + NBytes[m]
  <2> DEFINE A == Range(s)
  <2>1. IsFiniteSet(A) /\ A \cap {m} = {} /\ \A x \in A \cup {m} : NBytes[x] \in Nat
    BY <1>5, <1>8, <1>9
  <2> HIDE DEF A
  <2>2. Total(A \cup {m}, NBytes) = Total(A, NBytes) + Total({m}, NBytes)
    BY <1>10, <2>1, TotalUnion
  <2> QED BY <1>7, <1>10, <2>2 DEF A
<1> QED BY <1>7, <1>8, <1>11 DEF q, m

(* A batch put back in front of the buffer. *)
LEMMA PutBack ==
  ASSUME IInv
  PROVE  LET q == batch \o buffer
         IN  /\ q \in Seq(1..rx) /\ Increasing(q)
             /\ Range(q) = Range(batch) \cup Range(buffer)
             /\ bufferBytes + Total(Range(batch), NBytes) = Total(Range(q), NBytes)
<1>1. rx \in Nat /\ rx <= MaxFrames /\ batch \in Seq(1..rx) /\ buffer \in Seq(1..rx)
  BY BufferAssumption DEF IInv, TypeOK
<1>2. batch \o buffer \in Seq(1..rx)
      /\ Range(batch \o buffer) = Range(batch) \cup Range(buffer)
  BY <1>1, ConcatProperties, RangeConcatenation
<1>3. Increasing(batch \o buffer)
  BY <1>1, IncreasingConcat DEF IInv, Ordered
<1>4. Total(Range(batch) \cup Range(buffer), NBytes)
        = Total(Range(batch), NBytes) + Total(Range(buffer), NBytes)
  <2> DEFINE A == Range(batch)
             B == Range(buffer)
  <2>1. IsFiniteSet(A) /\ IsFiniteSet(B) /\ A \cap B = {}
        /\ \A x \in A \cup B : NBytes[x] \in Nat
    BY <1>1, RangeType DEF IInv, Partition, SixWay
  <2> HIDE DEF A, B
  <2>2. Total(A \cup B, NBytes) = Total(A, NBytes) + Total(B, NBytes)
    BY <2>1, TotalUnion
  <2> QED BY <2>2 DEF A, B
<1>5. bufferBytes = Total(Range(buffer), NBytes) /\ bufferBytes \in Nat
      /\ Total(Range(batch), NBytes) \in Nat
  BY <1>1, RangeType DEF IInv, BytesExact, TypeOK
<1>6. bufferBytes + Total(Range(batch), NBytes) = Total(Range(batch \o buffer), NBytes)
  BY <1>2, <1>4, <1>5
<1> QED BY <1>2, <1>3, <1>6

LEMMA EmptyBatch ==
  /\ \A S : <<>> \in Seq(S)
  /\ Range(<<>>) = {} /\ Increasing(<<>>) /\ Total(Range(<<>>), NBytes) = 0
  /\ \A S : AllBefore(Range(<<>>), S) /\ AllBefore(S, Range(<<>>))
<1>1. Range(<<>>) = {}
  BY DEF Range
<1>2. \A S : <<>> \in Seq(S)
  BY EmptySeq
<1>3. Increasing(<<>>)
  BY DEF Increasing
<1>4. \A S : AllBefore({}, S) /\ AllBefore(S, {})
  BY DEF AllBefore
<1>5. Total({}, NBytes) = 0
  BY TotalEmpty
<1> QED BY <1>1, <1>2, <1>3, <1>4, <1>5

----------------------------------------------------------------------------
(* One lemma per action *)

LEMMA ReceivePreserves == IInv /\ Receive => IInv'
<1> SUFFICES ASSUME IInv, Receive PROVE IInv'
  OBVIOUS
<1> DEFINE n == rx + 1
           q == Append(buffer, n)
<1>0. /\ batch \in Seq(1..rx) /\ buffer \in Seq(1..rx) /\ dropped \in Nat
      /\ placed \subseteq 1..rx /\ trimmed \subseteq 1..rx
      /\ abandoned \subseteq 1..rx /\ gone \subseteq 1..rx
  BY DEF IInv, TypeOK
<1>1. /\ rx \in Nat /\ n \in Nat /\ n <= MaxFrames /\ rx' = n /\ n \in 0..MaxFrames
      /\ 1..rx \subseteq 1..n /\ 1..n = 1..rx \cup {n} /\ n \notin 1..rx
      /\ \A f \in 1..rx : f < n
      /\ UNCHANGED <<batch, placed, abandoned, gone>>
  <2>1. /\ rx \in 0..MaxFrames /\ rx < MaxFrames /\ rx' = rx + 1 /\ MaxFrames \in Nat
        /\ UNCHANGED <<batch, placed, abandoned, gone>>
    BY BufferAssumption DEF IInv, TypeOK, Receive
  <2>2. rx \in Nat
    BY <2>1
  <2>3. /\ 1..rx \subseteq 1..n /\ 1..n = 1..rx \cup {n} /\ n \notin 1..rx
        /\ \A f \in 1..rx : f < n
    BY <2>2
  <2> QED BY <2>1, <2>2, <2>3
<1>2. Increasing(batch) /\ Increasing(buffer) /\ AllBefore(Range(batch), Range(buffer))
  BY DEF IInv, Ordered
<1>3. /\ q \in Seq(1..n) /\ Increasing(q)
      /\ Range(q) = Range(buffer) \cup {n} /\ n \notin Range(buffer)
      /\ Total(Range(q), NBytes) = bufferBytes + NBytes[n]
  BY <1>0, <1>1, <1>2, AppendLatest DEF IInv, BytesExact
<1>4. Trim(q, bufferBytes + NBytes[n])
  BY DEF Receive
<1> HIDE DEF n, q
<1>5. /\ buffer' \in Seq(1..n) /\ Increasing(buffer')
      /\ Range(buffer') \subseteq Range(q)
      /\ bufferBytes' = Total(Range(buffer'), NBytes)
      /\ bufferBytes' \in Nat /\ bufferBytes' <= MaxBufferBytes
      /\ trimmed' = trimmed \cup (Range(q) \ Range(buffer'))
      /\ dropped' \in Nat
  BY <1>0, <1>1, <1>3, <1>4, TrimLeavesSuffix
<1>6. Range(q) \subseteq 1..n /\ Range(batch) \subseteq 1..rx /\ Range(buffer) \subseteq 1..rx
  BY <1>0, <1>1, <1>3, RangeOfSeq
<1>7. TypeOK'
  <2>1. batch' \in Seq(1..n)
    BY <1>0, <1>1, SeqMonotonic
  <2>2. trimmed' \subseteq 1..n
    BY <1>0, <1>1, <1>5, <1>6
  <2>3. placed' \subseteq 1..n /\ abandoned' \subseteq 1..n /\ gone' \subseteq 1..n
    BY <1>0, <1>1
  <2> QED BY <1>1, <1>5, <2>1, <2>2, <2>3 DEF TypeOK
<1>8. Partition'
  <2>1. SixWay(1..rx, Range(buffer), Range(batch), placed, trimmed, abandoned, gone)
    BY DEF IInv, Partition
  <2> DEFINE a == Range(buffer)
             b == Range(batch)
             a1 == Range(buffer')
             all == 1..rx
             all1 == 1..n
  <2>2. SixWay(all, a, b, placed, trimmed, abandoned, gone)
    BY <2>1
  <2>3. all1 = all \cup {n} /\ n \notin all
    BY <1>1
  <2>4. a1 \subseteq a \cup {n} /\ trimmed' = trimmed \cup ((a \cup {n}) \ a1)
    BY <1>3, <1>5
  <2> HIDE DEF a, b, a1, all, all1
  <2>5. SixWay(all1, a1, b, placed, trimmed', abandoned, gone)
    BY <2>2, <2>3, <2>4 DEF SixWay
  <2> QED BY <1>1, <2>5 DEF Partition, a, b, a1, all, all1
<1>9. Ordered'
  <2>1. AllBefore(Range(batch), Range(q))
    BY <1>1, <1>2, <1>3, <1>6 DEF AllBefore
  <2>2. AllBefore(Range(batch), Range(buffer'))
    BY <1>5, <2>1 DEF AllBefore
  <2> QED BY <1>1, <1>2, <1>5, <2>2 DEF Ordered
<1>10. BytesExact' /\ MemoryBound'
  BY <1>1, <1>5 DEF BytesExact, MemoryBound, IInv
<1> QED BY <1>7, <1>8, <1>9, <1>10 DEF IInv

LEMMA ReturnBufferPreserves == IInv /\ ReturnBuffer => IInv'
<1> SUFFICES ASSUME IInv, ReturnBuffer PROVE IInv'
  OBVIOUS
<1> DEFINE q == batch \o buffer
<1>1. /\ rx \in Nat /\ rx <= MaxFrames /\ dropped \in Nat
      /\ UNCHANGED <<rx, placed, abandoned, gone>> /\ batch' = <<>>
      /\ trimmed \subseteq 1..rx
  BY BufferAssumption DEF IInv, TypeOK, ReturnBuffer
<1>2. /\ q \in Seq(1..rx) /\ Increasing(q)
      /\ Range(q) = Range(batch) \cup Range(buffer)
      /\ bufferBytes + Total(Range(batch), NBytes) = Total(Range(q), NBytes)
  BY PutBack
<1>3. Trim(q, bufferBytes + Total(Range(batch), NBytes))
  BY DEF ReturnBuffer
<1> HIDE DEF q
<1>4. /\ buffer' \in Seq(1..rx) /\ Increasing(buffer')
      /\ Range(buffer') \subseteq Range(q)
      /\ bufferBytes' = Total(Range(buffer'), NBytes)
      /\ bufferBytes' \in Nat /\ bufferBytes' <= MaxBufferBytes
      /\ trimmed' = trimmed \cup (Range(q) \ Range(buffer'))
      /\ dropped' \in Nat
  BY <1>1, <1>2, <1>3, TrimLeavesSuffix
<1>5. Range(q) \subseteq 1..rx
  BY <1>2, RangeOfSeq
<1>6. TypeOK'
  BY <1>1, <1>4, <1>5, EmptyBatch DEF TypeOK, IInv
<1>7. Partition'
  <2> DEFINE a == Range(buffer)
             b == Range(batch)
             a1 == Range(buffer')
             all == 1..rx
  <2>1. SixWay(all, a, b, placed, trimmed, abandoned, gone)
    BY DEF IInv, Partition
  <2>2. a1 \subseteq a \cup b /\ trimmed' = trimmed \cup ((a \cup b) \ a1)
    BY <1>2, <1>4
  <2> HIDE DEF a, b, a1, all
  <2>3. SixWay(all, a1, {}, placed, trimmed', abandoned, gone)
    BY <2>1, <2>2 DEF SixWay
  <2> QED BY <1>1, <2>3, EmptyBatch DEF Partition, a, b, a1, all
<1>8. Ordered'
  BY <1>1, <1>4, EmptyBatch DEF Ordered
<1>9. BytesExact' /\ MemoryBound'
  BY <1>1, <1>4, EmptyBatch, BufferAssumption DEF BytesExact, MemoryBound
<1> QED BY <1>6, <1>7, <1>8, <1>9 DEF IInv

LEMMA TakeBufferPreserves == IInv /\ TakeBuffer => IInv'
<1> SUFFICES ASSUME IInv, TakeBuffer PROVE IInv'
  OBVIOUS
<1>1. /\ batch = <<>> /\ batch' = buffer /\ buffer' = <<>> /\ bufferBytes' = 0
      /\ UNCHANGED <<rx, dropped, placed, trimmed, abandoned, gone>>
  BY DEF TakeBuffer, ledgers
<1>2. TypeOK'
  BY <1>1, EmptyBatch DEF IInv, TypeOK
<1>3. Partition'
  BY <1>1, EmptyBatch DEF IInv, Partition, SixWay
<1>4. Ordered'
  BY <1>1, EmptyBatch DEF IInv, Ordered
<1>5. BytesExact' /\ MemoryBound'
  BY <1>1, EmptyBatch, BufferAssumption DEF IInv, BytesExact, MemoryBound
<1> QED BY <1>2, <1>3, <1>4, <1>5 DEF IInv

LEMMA PlaceBatchPreserves == IInv /\ PlaceBatch => IInv'
<1> SUFFICES ASSUME IInv, PlaceBatch PROVE IInv'
  OBVIOUS
<1>1. /\ batch' = <<>> /\ placed' = placed \cup Range(batch)
      /\ UNCHANGED <<rx, buffer, bufferBytes, dropped, trimmed, abandoned, gone>>
  BY DEF PlaceBatch
<1>2. Range(batch) \subseteq 1..rx
  BY RangeOfSeq DEF IInv, TypeOK
<1>3. TypeOK'
  BY <1>1, <1>2, EmptyBatch DEF IInv, TypeOK
<1>4. Partition'
  BY <1>1, EmptyBatch DEF IInv, Partition, SixWay
<1>5. Ordered'
  BY <1>1, EmptyBatch DEF IInv, Ordered
<1>6. BytesExact' /\ MemoryBound'
  BY <1>1, EmptyBatch, BufferAssumption DEF IInv, BytesExact, MemoryBound
<1> QED BY <1>3, <1>4, <1>5, <1>6 DEF IInv

LEMMA CancelFlushPreserves == IInv /\ CancelFlush => IInv'
<1> SUFFICES ASSUME IInv, CancelFlush PROVE IInv'
  OBVIOUS
<1>1. /\ batch' = <<>> /\ abandoned' = abandoned \cup Range(batch)
      /\ UNCHANGED <<rx, buffer, bufferBytes, dropped, placed, trimmed, gone>>
  BY DEF CancelFlush
<1>2. Range(batch) \subseteq 1..rx
  BY RangeOfSeq DEF IInv, TypeOK
<1>3. TypeOK'
  BY <1>1, <1>2, EmptyBatch DEF IInv, TypeOK
<1>4. Partition'
  BY <1>1, EmptyBatch DEF IInv, Partition, SixWay
<1>5. Ordered'
  BY <1>1, EmptyBatch DEF IInv, Ordered
<1>6. BytesExact' /\ MemoryBound'
  BY <1>1, EmptyBatch, BufferAssumption DEF IInv, BytesExact, MemoryBound
<1> QED BY <1>3, <1>4, <1>5, <1>6 DEF IInv

LEMMA ProcessEndsPreserves == IInv /\ ProcessEnds => IInv'
<1> SUFFICES ASSUME IInv, ProcessEnds PROVE IInv'
  OBVIOUS
<1>1. /\ batch' = <<>> /\ buffer' = <<>> /\ bufferBytes' = 0 /\ dropped' = 0
      /\ gone' = gone \cup Range(buffer) \cup Range(batch)
      /\ UNCHANGED <<rx, placed, trimmed, abandoned>>
  BY DEF ProcessEnds
<1>2. Range(batch) \subseteq 1..rx /\ Range(buffer) \subseteq 1..rx
  BY RangeOfSeq DEF IInv, TypeOK
<1>3. TypeOK'
  BY <1>1, <1>2, EmptyBatch DEF IInv, TypeOK
<1>4. Partition'
  BY <1>1, EmptyBatch DEF IInv, Partition, SixWay
<1>5. Ordered'
  BY <1>1, EmptyBatch DEF Ordered
<1>6. BytesExact' /\ MemoryBound'
  BY <1>1, EmptyBatch, BufferAssumption DEF BytesExact, MemoryBound
<1> QED BY <1>3, <1>4, <1>5, <1>6 DEF IInv

----------------------------------------------------------------------------
(* The theorems *)

LEMMA NextPreserves == IInv /\ [Next]_vars => IInv'
<1> SUFFICES ASSUME IInv, [Next]_vars PROVE IInv'
  OBVIOUS
<1>1. CASE Receive
  BY <1>1, ReceivePreserves
<1>2. CASE TakeBuffer
  BY <1>2, TakeBufferPreserves
<1>3. CASE PlaceBatch
  BY <1>3, PlaceBatchPreserves
<1>4. CASE ReturnBuffer
  BY <1>4, ReturnBufferPreserves
<1>5. CASE CancelFlush
  BY <1>5, CancelFlushPreserves
<1>6. CASE ProcessEnds
  BY <1>6, ProcessEndsPreserves
<1>7. CASE UNCHANGED vars
  BY <1>7 DEF IInv, TypeOK, Partition, Ordered, BytesExact, MemoryBound,
              vars, bufVars, ledgers
<1> QED BY <1>1, <1>2, <1>3, <1>4, <1>5, <1>6, <1>7 DEF Next

LEMMA Invariance == Spec => []IInv
<1> QED BY InitEstablishes, NextPreserves, PTL DEF Spec

(* The state keeps its shape: no frame number out of range, no counter     *)
(* below zero after any sequence of take, return and trim.                 *)
THEOREM TypeCorrect == Spec => []TypeOK
<1>1. IInv => TypeOK
  BY DEF IInv
<1> QED BY <1>1, Invariance, PTL

(* Every frame received is in exactly one place: _append, _trim,           *)
(* _take_buffer and _return_buffer between them neither lose a frame       *)
(* without counting it nor hold one twice.                                 *)
THEOREM EveryFrameIsSomewhereOnce == Spec => []Conservation
<1>1. IInv => Conservation
  BY PartitionIsConservation DEF IInv
<1> QED BY <1>1, Invariance, PTL

(* self.buffer_bytes is the size of what is in self.buffer.                *)
THEOREM ByteCounterIsExact == Spec => []BytesExact
<1>1. IInv => BytesExact
  BY DEF IInv
<1> QED BY <1>1, Invariance, PTL

(* Batch and buffer together are in order of arrival.                      *)
THEOREM QueueKeepsCaptureOrder == Spec => []CaptureOrder
<1>1. IInv => CaptureOrder
  BY OrderedIsCaptureOrder DEF IInv
<1> QED BY <1>1, Invariance, PTL

(* MAX_BUFFER_BYTES bounds the buffer, and the batch in flight once more.  *)
THEOREM MemoryIsBounded == Spec => []MemoryBound
<1>1. IInv => MemoryBound
  BY DEF IInv
<1> QED BY <1>1, Invariance, PTL

----------------------------------------------------------------------------
(* What a step may do *)

(* The queues that a trim is given, as the two actions that trim see them. *)
TrimOf(n, q, bytes) ==
  /\ n <= MaxFrames /\ Increasing(q) /\ bytes = Total(Range(q), NBytes)
  /\ dropped \in Nat /\ Trim(q, bytes)
  /\ Range(q) \cap trimmed = {}
  /\ Range(batch') \cap (Range(q) \ Range(buffer')) = {}

LEMMA TrimmedQueue ==
  ASSUME IInv, Receive \/ ReturnBuffer
  PROVE  \E n \in Nat : \E q \in Seq(1..n), bytes \in Nat : TrimOf(n, q, bytes)
<1>0. /\ rx \in Nat /\ rx <= MaxFrames /\ dropped \in Nat
      /\ buffer \in Seq(1..rx) /\ batch \in Seq(1..rx) /\ trimmed \subseteq 1..rx
      /\ bufferBytes \in Nat
  BY BufferAssumption DEF IInv, TypeOK
<1>1. CASE Receive
  <2> DEFINE n == rx + 1
             q == Append(buffer, n)
  <2>1. n \in Nat /\ n <= MaxFrames /\ n \in Frame
    BY <1>0, <1>1, BufferAssumption DEF Receive, Frame
  <2>2. /\ q \in Seq(1..n) /\ Increasing(q) /\ Range(q) = Range(buffer) \cup {n}
        /\ Total(Range(q), NBytes) = bufferBytes + NBytes[n]
    BY <1>0, <2>1, AppendLatest DEF IInv, Ordered, BytesExact
  <2>3. bufferBytes + NBytes[n] \in Nat
    BY <1>0, <2>1, BufferAssumption
  <2>4. Trim(q, bufferBytes + NBytes[n]) /\ batch' = batch
    BY <1>1 DEF Receive
  <2>5. n \notin 1..rx
    BY <1>0
  <2>6. Range(buffer) \cap trimmed = {} /\ Range(batch) \cap Range(buffer) = {}
    BY DEF IInv, Partition, SixWay
  <2>7. n \notin trimmed /\ n \notin Range(batch)
    BY <1>0, <2>5, RangeOfSeq
  <2> HIDE DEF n, q
  <2>8. Range(q) \cap trimmed = {} /\ Range(batch') \cap (Range(q) \ Range(buffer')) = {}
    BY <2>2, <2>4, <2>6, <2>7
  <2> QED BY <1>0, <2>1, <2>2, <2>3, <2>4, <2>8 DEF TrimOf
<1>2. CASE ReturnBuffer
  <2> DEFINE q == batch \o buffer
             bytes == bufferBytes + Total(Range(batch), NBytes)
  <2>1. /\ q \in Seq(1..rx) /\ Increasing(q)
        /\ Range(q) = Range(batch) \cup Range(buffer)
        /\ bytes = Total(Range(q), NBytes)
    BY PutBack
  <2>2. Trim(q, bytes) /\ batch' = <<>>
    BY <1>2 DEF ReturnBuffer
  <2> HIDE DEF q, bytes
  <2>3. bytes \in Nat
    BY <1>0, <2>1, RangeType
  <2>4. Range(q) \cap trimmed = {}
    BY <2>1 DEF IInv, Partition, SixWay
  <2>5. Range(batch') \cap (Range(q) \ Range(buffer')) = {}
    BY <2>2, EmptyBatch
  <2> QED BY <1>0, <2>1, <2>2, <2>3, <2>4, <2>5 DEF TrimOf
<1> QED BY <1>1, <1>2

LEMMA OtherStepsLoseNothing ==
  ASSUME [Next]_vars PROVE Receive \/ ReturnBuffer \/ ProcessEnds
                             \/ UNCHANGED <<dropped, trimmed>>
BY DEF Next, TakeBuffer, PlaceBatch, CancelFlush, vars, bufVars, ledgers

(* self.dropped grows by exactly the number of frames that a trim loses,   *)
(* in every step but the end of the process, which zeroes it.              *)
THEOREM EveryDropIsCounted == Spec => DropsAreCounted
<1>1. ASSUME IInv, [Next]_vars
      PROVE  [dropped' - dropped = Cardinality(trimmed' \ trimmed) \/ ProcessEnds]_vars
  <2>1. CASE Receive \/ ReturnBuffer
    <3>1. PICK n \in Nat : \E q \in Seq(1..n), bytes \in Nat : TrimOf(n, q, bytes)
      BY <1>1, <2>1, TrimmedQueue
    <3>2. PICK q \in Seq(1..n), bytes \in Nat : TrimOf(n, q, bytes)
      BY <3>1
    <3>3. /\ trimmed' = trimmed \cup (Range(q) \ Range(buffer'))
          /\ dropped' \in Nat
          /\ dropped' = dropped + Cardinality(Range(q) \ Range(buffer'))
      BY <3>2, TrimLeavesSuffix DEF TrimOf
    <3>4. trimmed' \ trimmed = Range(q) \ Range(buffer')
      BY <3>2, <3>3 DEF TrimOf
    <3>5. IsFiniteSet(Range(q) \ Range(buffer'))
      BY <3>2, RangeType, FS_Subset DEF TrimOf
    <3>6. Cardinality(Range(q) \ Range(buffer')) \in Nat
      BY <3>5, FS_CardinalityType
    <3>7. dropped' - dropped = Cardinality(Range(q) \ Range(buffer'))
      BY <3>2, <3>3, <3>6 DEF TrimOf
    <3> QED BY <3>4, <3>7
  <2>2. CASE UNCHANGED <<dropped, trimmed>>
    <3>1. trimmed' \ trimmed = {}
      BY <2>2
    <3>2. dropped' - dropped = 0
      BY <1>1, <2>2 DEF IInv, TypeOK
    <3> QED BY <3>1, <3>2, FS_EmptySet
  <2>3. CASE ProcessEnds
    BY <2>3
  <2> QED BY <1>1, <2>1, <2>2, <2>3, OtherStepsLoseNothing
<1> QED BY <1>1, Invariance, PTL DEF Spec, DropsAreCounted

(* The last frame a trim drops would not have fitted. *)
LEMMA TrimStopsInTime ==
  ASSUME NEW n \in Nat, n <= MaxFrames, NEW q \in Seq(1..n), Increasing(q),
         NEW bytes, bytes = Total(Range(q), NBytes),
         dropped \in Nat, Trim(q, bytes), Range(q) \ Range(buffer') # {}
  PROVE  \E f \in Range(q) \ Range(buffer') :
           /\ \A g \in Range(q) \ Range(buffer') : g <= f
           /\ Total(Range(buffer') \cup {f}, NBytes) > MaxBufferBytes
<1>1. /\ Len(q) \in Nat /\ DOMAIN q = 1..Len(q) /\ \A i \in 1..Len(q) : q[i] \in 1..n
  BY LenProperties
<1>2. PICK k \in 0..Len(q) :
        StopsAfter(q, bytes, k) /\ buffer' = SubSeq(q, k + 1, Len(q))
  BY DEF Trim
<1>3. k # 0
  <2> SUFFICES ASSUME k = 0 PROVE FALSE
    OBVIOUS
  <2>1. buffer' = q
    BY <1>2, SubSeqFull
  <2> QED BY <2>1
<1>4. k \in 1..Len(q) /\ k \in Nat /\ k - 1 \in 0..Len(q) /\ (k - 1) + 1 = k
      /\ k - 1 \in 0..(k - 1) /\ Len(q) \in k..Len(q) /\ k \in DOMAIN q
  BY <1>1, <1>3
<1> DEFINE f == q[k]
           front == SubSeq(q, 1, k)
           before == SubSeq(q, 1, k - 1)
           rest == SubSeq(q, k, Len(q))
<1>5. /\ front \in Seq(1..n) /\ Len(front) = k /\ buffer' \in Seq(1..n)
      /\ Range(q) = Range(front) \cup Range(buffer')
      /\ AllBefore(Range(front), Range(buffer'))
  BY <1>2, Cut
<1>6. \A i \in 1..k : front[i] = q[i]
  BY <1>1, <1>4, SubSeqProperties
<1>7. /\ before \in Seq(1..n) /\ rest \in Seq(1..n)
      /\ Range(q) = Range(before) \cup Range(rest)
      /\ AllBefore(Range(before), Range(rest))
  <2>1. SubSeq(q, (k - 1) + 1, Len(q)) = rest
    BY <1>4
  <2> QED BY <1>4, <2>1, Cut
<1>8. Range(rest) = Range(buffer') \cup {f}
  <2>1. rest = <<q[k]>> \o SubSeq(q, k + 1, Len(q))
    BY <1>4, SubSeqRecursiveFirst
  <2>2. <<f>> \in Seq(1..n) /\ Range(<<f>>) = {f}
    <3>1. f \in 1..n
      BY <1>1, <1>4
    <3> HIDE DEF f
    <3>2. DOMAIN <<f>> = {1} /\ <<f>>[1] = f
      OBVIOUS
    <3> QED BY <3>1, <3>2 DEF Range
  <2>3. Range(<<f>> \o buffer') = Range(<<f>>) \cup Range(buffer')
    <3> DEFINE one == <<f>>
    <3>1. one \in Seq(1..n)
      BY <2>2
    <3> HIDE DEF one
    <3>2. Range(one \o buffer') = Range(one) \cup Range(buffer')
      BY <1>5, <3>1, RangeConcatenation
    <3> QED BY <3>2 DEF one
  <2> QED BY <1>2, <2>1, <2>2, <2>3
<1>9. bytes - Total(Range(before), NBytes) > MaxBufferBytes
  BY <1>2, <1>4 DEF StopsAfter, BytesAfter
<1> HIDE DEF f, front, before, rest
<1>10. DOMAIN front = 1..k
  BY <1>5, LenProperties
<1>11. f \in Range(front) /\ \A g \in Range(front) : g <= f
  <2>1. front[k] = f /\ k \in DOMAIN front
    BY <1>4, <1>6, <1>10 DEF f
  <2>2. ASSUME NEW i \in 1..k PROVE front[i] <= f
    <3>1. q[i] \in Nat /\ q[k] \in Nat /\ i \in DOMAIN q
      BY <1>1, <1>4
    <3>2. i = k \/ q[i] < q[k]
      BY <1>4, <3>1 DEF Increasing
    <3> QED BY <1>6, <3>1, <3>2 DEF f
  <2> QED BY <1>10, <2>1, <2>2 DEF Range
<1>12. Range(front) = Range(q) \ Range(buffer')
  <2> SUFFICES ASSUME NEW g \in Range(front), g \in Range(buffer') PROVE FALSE
    BY <1>5
  <2>1. g < g /\ g \in 1..n
    BY <1>5, RangeOfSeq DEF AllBefore
  <2> QED BY <2>1
<1>13. Total(Range(rest), NBytes) > MaxBufferBytes
  <2> DEFINE A == Range(before)
             B == Range(rest)
  <2>1. A \cap B = {}
    <3> SUFFICES ASSUME NEW g \in A, g \in B PROVE FALSE
      OBVIOUS
    <3>1. g < g /\ g \in 1..n
      BY <1>7, RangeOfSeq DEF AllBefore
    <3> QED BY <3>1
  <2>2. IsFiniteSet(A) /\ IsFiniteSet(B) /\ \A x \in A \cup B : NBytes[x] \in Nat
    BY <1>7, RangeType
  <2>3. bytes = Total(A \cup B, NBytes)
    BY <1>7
  <2>4. bytes - Total(A, NBytes) > MaxBufferBytes
    BY <1>9
  <2> HIDE DEF A, B
  <2>5. Total(A \cup B, NBytes) = Total(A, NBytes) + Total(B, NBytes)
    BY <2>1, <2>2, TotalUnion
  <2>6. Total(B, NBytes) > MaxBufferBytes
    <3> DEFINE ta == Total(A, NBytes)
               tb == Total(B, NBytes)
    <3>1. ta \in Nat /\ tb \in Nat
      BY <2>2, TotalType
    <3>2. bytes = ta + tb
      BY <2>3, <2>5, Zenon
    <3>3. bytes - ta > MaxBufferBytes
      BY <2>4
    <3> HIDE DEF ta, tb
    <3>4. tb > MaxBufferBytes
      BY <3>1, <3>2, <3>3, BufferAssumption
    <3> QED BY <3>4 DEF tb
  <2> QED BY <2>6 DEF B
<1> QED BY <1>8, <1>11, <1>12, <1>13

(* A trim drops the oldest frames, none that a flush is writing, and none  *)
(* that would have fitted.                                                 *)
THEOREM TrimIsMinimal == Spec => TrimDropsOldestOnly
<1> DEFINE lost == trimmed' \ trimmed
           Step ==
             /\ \A f \in lost : f \notin Range(batch') /\ \A g \in Range(buffer') : f < g
             /\ lost # {} =>
                  \E f \in lost :
                    /\ \A g \in lost : g <= f
                    /\ Total(Range(buffer') \cup {f}, NBytes) > MaxBufferBytes
<1>1. ASSUME IInv, [Next]_vars
      PROVE  Step
  <2>1. CASE Receive \/ ReturnBuffer
    <3>1. PICK n \in Nat : \E q \in Seq(1..n), bytes \in Nat : TrimOf(n, q, bytes)
      BY <1>1, <2>1, TrimmedQueue
    <3>2. PICK q \in Seq(1..n), bytes \in Nat : TrimOf(n, q, bytes)
      BY <3>1
    <3>3. /\ trimmed' = trimmed \cup (Range(q) \ Range(buffer'))
          /\ AllBefore(Range(q) \ Range(buffer'), Range(buffer'))
      BY <3>2, TrimLeavesSuffix DEF TrimOf
    <3>4. lost = Range(q) \ Range(buffer')
      BY <3>2, <3>3 DEF TrimOf
    <3>5. lost # {} => \E f \in lost :
                         /\ \A g \in lost : g <= f
                         /\ Total(Range(buffer') \cup {f}, NBytes) > MaxBufferBytes
      BY <3>2, <3>4, TrimStopsInTime DEF TrimOf
    <3>6. \A f \in lost : f \notin Range(batch') /\ \A g \in Range(buffer') : f < g
      BY <3>2, <3>3, <3>4 DEF AllBefore, TrimOf
    <3> HIDE DEF lost
    <3> QED BY <3>5, <3>6
  <2>2. CASE trimmed' = trimmed
    <3>1. lost = {}
      BY <2>2
    <3> QED BY <3>1
  <2>3. CASE ProcessEnds
    BY <2>2, <2>3 DEF ProcessEnds
  <2> QED BY <1>1, <2>1, <2>2, <2>3, OtherStepsLoseNothing
<1>2. IInv /\ [Next]_vars => [Step]_vars
  BY <1>1
<1> QED BY <1>2, Invariance, PTL DEF Spec, TrimDropsOldestOnly
=============================================================================
