---------------------------- MODULE ToolsProofs -----------------------------
(***************************************************************************)
(* The importer: its end entries claim no day that is not in the bucket,   *)
(* and no day gets a second object.  The argument is that a closed day is  *)
(* settled: a row still to come is of a later day, and two orders the      *)
(* ORDER BY admits differ only in rows whose output is the same, so a      *)
(* day's rows make one key whenever they are read.                         *)
(*                                                                         *)
(* Bucketing: rows hold the best readings.  The argument is that the best  *)
(* of what has been heard can be kept record by record, and that the       *)
(* decoder's first parts are those the whole history leaves open.          *)
(* Positions stay whole because a record wins both their cells or neither. *)
(*                                                                         *)
(* The exporter: exit 0 means complete, and the output path holds what it  *)
(* says.  The argument is that every key of the range is ahead of the      *)
(* listing, skipped or out whole, whatever the pages are, and that no row  *)
(* is of a key ahead but the one at hand.                                  *)
(***************************************************************************)
EXTENDS Import, Export, Buckets, TotalsProofs

----------------------------------------------------------------------------
(* Days. *)
LEMMA DivMonotone ==
  ASSUME NEW a \in Int, NEW b \in Int, NEW d \in Nat \ {0}, a <= b
  PROVE  a \div d <= b \div d
<1> DEFINE p == a \div d
           q == b \div d
<1>1. p \in Int /\ d * p <= a /\ a < d * (p + 1)
  OBVIOUS
<1>2. q \in Int /\ d * q <= b /\ b < d * (q + 1)
  OBVIOUS
<1> HIDE DEF p, q
<1>3. p <= q
  <2> SUFFICES ASSUME q + 1 <= p PROVE FALSE
    BY <1>1, <1>2
  <2>1. d * (q + 1) <= d * p
    BY <1>1, <1>2
  <2> QED BY <1>1, <1>2, <2>1
<1> QED BY <1>3 DEF p, q

LEMMA DayType ==
  ASSUME NEW t \in Int PROVE DayOf(t) \in Int /\ (t \in Nat => DayOf(t) \in Nat)
BY ImportAssumption DEF DayOf

LEMMA DayMonotone ==
  ASSUME NEW t \in Int, NEW u \in Int, t <= u PROVE DayOf(t) <= DayOf(u)
BY ImportAssumption, DivMonotone DEF DayOf

----------------------------------------------------------------------------
(* Orders. *)
NotAfter(x, y) == x.at < y.at \/ (x.at = y.at /\ x.line <= y.line)

Enumerates(s, S) == s \in SetToSeqs(S) /\ Ordered(s)

LEMMA EnumerationIsOnto ==
  ASSUME NEW S, IsFiniteSet(S), NEW s, s \in SetToSeqs(S)
  PROVE  /\ Cardinality(S) \in Nat
         /\ s \in [1..Cardinality(S) -> S]
         /\ \A i, j \in 1..Cardinality(S) : i # j => s[i] # s[j]
         /\ \A x \in S : \E i \in 1..Cardinality(S) : s[i] = x
<1> DEFINE n == Cardinality(S)
<1>1. n \in Nat
  BY FS_CardinalityType
<1>2. s \in [1..n -> S] /\ \A i, j \in 1..n : i # j => s[i] # s[j]
  BY DEF SetToSeqs
<1>3. Cardinality(1..n) = n
  BY <1>1, FS_Interval
<1> HIDE DEF n
<1>4. s \in Injection(1..n, S)
  BY <1>2 DEF Injection, IsInjective
<1>5. s \in Surjection(1..n, S)
  BY <1>3, <1>4, FS_Injection DEF n
<1>6. \A x \in S : \E i \in 1..n : s[i] = x
  BY <1>5 DEF Surjection
<1> QED BY <1>1, <1>2, <1>6 DEF n

LEMMA NotAfterIsTransitive ==
  ASSUME NEW x \in Row, NEW y \in Row, NEW z \in Row, NotAfter(x, y), NotAfter(y, z)
  PROVE  NotAfter(x, z)
BY ImportAssumption DEF NotAfter

LEMMA OrderIsGlobal ==
  ASSUME NEW S, S \subseteq Row, IsFiniteSet(S), NEW s, Enumerates(s, S),
         NEW i \in 1..Cardinality(S), NEW j \in 1..Cardinality(S), i <= j
  PROVE  NotAfter(s[i], s[j])
<1> DEFINE n == Cardinality(S)
           Bad == {k \in 1..n : i <= k /\ ~NotAfter(s[i], s[k])}
<1>1. n \in Nat /\ s \in [1..n -> S]
  BY EnumerationIsOnto DEF Enumerates
<1>2. Len(s) = n
  BY <1>1
<1>3. \A k \in 1..(n - 1) : NotAfter(s[k], s[k + 1])
  BY <1>2 DEF Enumerates, Ordered, NotAfter
<1> HIDE DEF n
<1>4. i \in 1..n /\ j \in 1..n
  BY DEF n
<1>5. SUFFICES ASSUME Bad # {} PROVE FALSE
  BY <1>4
<1>6. PICK k \in Bad : \A y \in Bad : k <= y
  <2>1. Bad \subseteq Nat
    BY <1>1
  <2> HIDE DEF Bad
  <2> QED BY <1>5, <2>1, LeastOf
<1>7. k \in 1..n /\ i <= k /\ ~NotAfter(s[i], s[k])
  BY <1>6
<1>8. k # i
  <2>1. s[i] \in Row
    BY <1>1, <1>4
  <2> QED BY <1>7, <2>1, ImportAssumption DEF NotAfter
<1>9. k - 1 \in 1..(n - 1) /\ k - 1 \in 1..n /\ i <= k - 1 /\ (k - 1) + 1 = k
  BY <1>1, <1>4, <1>7, <1>8
<1>10. NotAfter(s[i], s[k - 1])
  BY <1>6, <1>9
<1>11. NotAfter(s[k - 1], s[k])
  BY <1>3, <1>9
<1>12. s[i] \in Row /\ s[k - 1] \in Row /\ s[k] \in Row
  BY <1>1, <1>4, <1>7, <1>9
<1> QED BY <1>7, <1>10, <1>11, <1>12, NotAfterIsTransitive

(* The rows up to place i of one order are not all among those before it in *)
(* another: some row at or before place i of `s' is at or after it in `t'.  *)
LEMMA PlacesMeet ==
  ASSUME NEW S, IsFiniteSet(S), NEW s, s \in SetToSeqs(S), NEW t, t \in SetToSeqs(S),
         NEW i \in 1..Cardinality(S)
  PROVE  \E j \in 1..i, k \in i..Cardinality(S) : s[j] = t[k]
<1> DEFINE n == Cardinality(S)
           Upto == {s[j] : j \in 1..i}
           Before == {t[k] : k \in 1..(i - 1)}
           f == [j \in 1..i |-> s[j]]
           g == [k \in 1..(i - 1) |-> t[k]]
<1>1. /\ n \in Nat /\ s \in [1..n -> S] /\ t \in [1..n -> S]
      /\ \A a, b \in 1..n : a # b => s[a] # s[b]
      /\ \A x \in S : \E a \in 1..n : t[a] = x
  BY EnumerationIsOnto
<1>2. i \in 1..n /\ i \in Nat /\ i - 1 \in Nat
  BY <1>1
<1>3. /\ IsFiniteSet(1..i) /\ Cardinality(1..i) = i
      /\ IsFiniteSet(1..(i - 1)) /\ Cardinality(1..(i - 1)) = i - 1
  BY <1>2, FS_Interval
<1>4. f \in Surjection(1..i, Upto) /\ f \in Injection(1..i, Upto)
  <2>1. f \in [1..i -> Upto] /\ \A x \in Upto : \E j \in 1..i : f[j] = x
    OBVIOUS
  <2>2. \A a, b \in 1..i : f[a] = f[b] => a = b
    BY <1>1, <1>2
  <2> HIDE DEF f, Upto
  <2> QED BY <2>1, <2>2, Zenon DEF Surjection, Injection, IsInjective
<1>5. IsFiniteSet(Upto) /\ Cardinality(Upto) = i
  <2> HIDE DEF f, Upto
  <2> QED BY <1>3, <1>4, FS_Surjection
<1>6. g \in Surjection(1..(i - 1), Before)
  BY DEF Surjection
<1>7. IsFiniteSet(Before) /\ Cardinality(Before) <= i - 1
  <2> HIDE DEF g, Before
  <2> QED BY <1>3, <1>6, FS_Surjection
<1>8. ~(Upto \subseteq Before)
  <2> HIDE DEF Upto, Before
  <2>1. Upto \subseteq Before => Cardinality(Upto) <= Cardinality(Before)
    BY <1>7, FS_Subset
  <2>2. Cardinality(Before) \in Nat
    BY <1>7, FS_CardinalityType
  <2> QED BY <1>2, <1>5, <1>7, <2>1, <2>2
<1>9. PICK j \in 1..i : s[j] \notin Before
  BY <1>8
<1>10. PICK k \in 1..n : t[k] = s[j]
  BY <1>1, <1>2, <1>9
<1>11. k \in i..n
  BY <1>1, <1>2, <1>9, <1>10
<1> QED BY <1>9, <1>10, <1>11

(* However its rows are read, a day makes the same lines. *)
LEMMA SameOutput ==
  ASSUME NEW S, S \subseteq Row, IsFiniteSet(S),
         NEW s, Enumerates(s, S), NEW t, Enumerates(t, S)
  PROVE  [i \in DOMAIN s |-> Line(s[i])] = [i \in DOMAIN t |-> Line(t[i])]
<1> DEFINE n == Cardinality(S)
<1>1. n \in Nat /\ s \in [1..n -> S] /\ t \in [1..n -> S]
  BY EnumerationIsOnto DEF Enumerates
<1>2. ASSUME NEW u, Enumerates(u, S), NEW v, Enumerates(v, S), NEW i \in 1..n
      PROVE  NotAfter(v[i], u[i])
  <2>0. u \in [1..n -> S] /\ v \in [1..n -> S]
    BY <1>2, EnumerationIsOnto DEF Enumerates
  <2>1. PICK j \in 1..i, k \in i..n : u[j] = v[k]
    BY <1>2, PlacesMeet DEF Enumerates
  <2>2. j \in 1..n /\ k \in 1..n /\ j <= i /\ i <= k
    BY <1>1
  <2>3. NotAfter(u[j], u[i])
    BY <1>2, <2>2, OrderIsGlobal
  <2>4. NotAfter(v[i], v[k])
    BY <1>2, <2>2, OrderIsGlobal
  <2>5. u[i] \in Row /\ u[j] \in Row /\ v[i] \in Row
    BY <2>0, <2>2
  <2> QED BY <2>1, <2>3, <2>4, <2>5, NotAfterIsTransitive
<1>3. ASSUME NEW i \in 1..n PROVE Line(s[i]) = Line(t[i])
  <2>1. NotAfter(s[i], t[i]) /\ NotAfter(t[i], s[i])
    BY <1>2
  <2>2. s[i] \in Row /\ t[i] \in Row
    BY <1>1
  <2> QED BY <2>1, <2>2, ImportAssumption DEF NotAfter, Line
<1>4. DOMAIN s = 1..n /\ DOMAIN t = 1..n
  BY <1>1
<1> QED BY <1>3, <1>4

----------------------------------------------------------------------------
(* Keys. *)
KeyFrom(s, day) == S3Key("n0183", day, Line(s[1])[1], [i \in DOMAIN s |-> Line(s[i])])

\* The key k is one that the day's rows make.
MadeOf(k, day) ==
  RowsOf(day) # {} /\ \E s : Enumerates(s, RowsOf(day)) /\ k = KeyFrom(s, day)

LEMMA MadeOnce ==
  ASSUME source \subseteq Row, IsFiniteSet(source), NEW day, NEW k, MadeOf(k, day)
  PROVE  /\ KeyOfDay(day) = k
         /\ \A m : MadeOf(m, day) => m = k
<1> DEFINE S == RowsOf(day)
<1>1. S \subseteq Row /\ IsFiniteSet(S) /\ S # {}
  <2>1. RowsOf(day) \subseteq source
    BY DEF RowsOf
  <2> QED BY <2>1, FS_Subset DEF MadeOf
<1> HIDE DEF S
<1>2. Cardinality(S) \in Nat \ {0}
  BY <1>1, FS_EmptySet, FS_CardinalityType
<1>3. ASSUME NEW s, Enumerates(s, S), NEW t, Enumerates(t, S)
      PROVE  KeyFrom(s, day) = KeyFrom(t, day)
  <2>1. [i \in DOMAIN s |-> Line(s[i])] = [i \in DOMAIN t |-> Line(t[i])]
    BY <1>1, <1>3, SameOutput, Zenon
  <2>2. 1 \in DOMAIN s /\ 1 \in DOMAIN t
    <3>1. s \in [1..Cardinality(S) -> S] /\ t \in [1..Cardinality(S) -> S]
      BY <1>1, <1>3, EnumerationIsOnto DEF Enumerates
    <3> QED BY <1>2, <3>1
  <2>3. Line(s[1]) = Line(t[1])
    <3>1. Line(s[1]) = [i \in DOMAIN s |-> Line(s[i])][1]
      BY <2>2
    <3>2. Line(t[1]) = [i \in DOMAIN t |-> Line(t[i])][1]
      BY <2>2
    <3> QED BY <2>1, <3>1, <3>2
  <2> QED BY <2>1, <2>3 DEF KeyFrom
<1>4. PICK s : Enumerates(s, S) /\ k = KeyFrom(s, day)
  BY DEF MadeOf, S
<1>5. \A m : MadeOf(m, day) => m = k
  BY <1>3, <1>4 DEF MadeOf, S
<1>6. KeyOfDay(day) = k
  <2> DEFINE t == CHOOSE x \in SetToSeqs(S) : Ordered(x)
  <2>1. t \in SetToSeqs(S) /\ Ordered(t)
    BY <1>4 DEF Enumerates
  <2>2. KeyOfDay(day) = S3Key("n0183", day, t[1].at, [i \in DOMAIN t |-> Line(t[i])])
    BY DEF KeyOfDay, S
  <2> HIDE DEF t
  <2>3. Line(t[1])[1] = t[1].at
    BY DEF Line
  <2>4. KeyFrom(t, day) = k
    BY <1>3, <1>4, <2>1 DEF Enumerates
  <2> QED BY <2>2, <2>3, <2>4 DEF KeyFrom
<1> QED BY <1>5, <1>6

----------------------------------------------------------------------------
(* The inductive invariant. *)
Places == {"idle", "start", "query", "head", "put", "end"}

ImportTypeOK ==
  /\ now \in Nat
  /\ source \subseteq Row /\ IsFiniteSet(source)
  /\ imp \in [pc : Places, live : BOOLEAN, since : Int, until : Int, day : Int,
             lines : Seq(Nat \X Nat), attempt : Nat, failed : BOOLEAN]

\* A run goes up to a closed day, and comes to its end behind it or failing.
Course ==
  /\ imp.live => imp.pc # "idle"
  /\ imp.pc \in {"start", "end"} => imp.live
  /\ imp.pc \in {"start", "query", "head", "put"} => ~imp.failed /\ imp.day <= imp.until
  /\ imp.pc # "idle" => imp.until <= LastCloseableDay
  /\ imp.pc = "end" => imp.day <= imp.until + 1 /\ (~imp.failed => imp.day = imp.until + 1)

\* What was read in `query' is still what the day holds.
KeyInHand == imp.pc \in {"head", "put"} => MadeOf(ImportKey, imp.day)

\* A live run leaves no day behind it that is not in the bucket.
DaysDone == imp.live => \A d \in imp.since..(imp.day - 1) : Imported(d)

\* An end entry speaks of closed days.
EntriesBounded ==
  \A e \in audit :
    /\ e.since \in Int /\ e.until \in Int /\ e.day \in Int
    /\ e.event = "end" => e.until <= LastCloseableDay /\ e.day <= e.until + 1

ImportInv == ImportTypeOK /\ Course /\ KeyInHand /\ DaysDone /\ EntriesBounded

LEMMA LastCloseableType ==
  ASSUME ImportTypeOK PROVE LastCloseableDay \in Int
BY DayType, ImportAssumption DEF ImportTypeOK, LastCloseableDay

LEMMA ImportInitTypes == ImportInit => ImportTypeOK
<1>1. IsFiniteSet({})
  BY FS_EmptySet
<1>2. <<>> \in Seq(Nat \X Nat)
  OBVIOUS
<1> QED BY <1>1, <1>2 DEF ImportInit, ImportTypeOK, NoImport, Places

(* Every step: the closed days stay closed and keep their rows, and nothing *)
(* leaves the bucket.                                                       *)
Settles(day) == day <= LastCloseableDay => RowsOf(day)' = RowsOf(day)

LEMMA StepSettles ==
  ASSUME ImportTypeOK, [ImportNext]_<<bucket, importVars>>
  PROVE  /\ now' \in Nat /\ now <= now'
         /\ source' \subseteq Row /\ IsFiniteSet(source')
         /\ bucket \subseteq bucket'
         /\ LastCloseableDay <= LastCloseableDay'
         /\ \A day \in Int : Settles(day)
<1>0. now \in Nat /\ source \subseteq Row /\ IsFiniteSet(source)
  BY DEF ImportTypeOK
<1>1. CASE Tick
  <2>1. now' = now + 1 /\ source' = source /\ bucket' = bucket
    BY <1>1 DEF Tick
  <2>2. LastCloseableDay <= LastCloseableDay'
    <3>1. DayOf(now - Lag) <= DayOf(now' - Lag)
      BY <1>0, <2>1, DayMonotone, ImportAssumption
    <3>2. DayOf(now - Lag) \in Int /\ DayOf(now' - Lag) \in Int
      BY <1>0, <2>1, DayType, ImportAssumption
    <3>3. LastCloseableDay' = DayOf(now' - Lag) - 1
      BY DEF LastCloseableDay, DayOf
    <3> QED BY <3>1, <3>2, <3>3 DEF LastCloseableDay
  <2>3. \A day \in Int : Settles(day)
    BY <2>1 DEF Settles, RowsOf, DayOf
  <2> QED BY <1>0, <2>1, <2>2, <2>3
<1>2. ASSUME NEW r \in Row, InsertRow(r)
      PROVE  /\ now' = now /\ bucket' = bucket
             /\ source' \subseteq Row /\ IsFiniteSet(source')
             /\ \A day \in Int : Settles(day)
  <2>1. /\ now' = now /\ bucket' = bucket /\ source' = source \cup {r}
        /\ r.at <= now /\ now - r.at <= Lag
    BY <1>2 DEF InsertRow
  <2>2. IsFiniteSet(source')
    BY <1>0, <2>1, FS_AddElement
  <2>3. DayOf(now - Lag) <= DayOf(r.at)
    BY <1>0, <2>1, DayMonotone, ImportAssumption
  <2>4. DayOf(now - Lag) \in Int /\ DayOf(r.at) \in Int
    BY <1>0, DayType, ImportAssumption
  <2>5. \A day \in Int : Settles(day)
    <3> SUFFICES ASSUME NEW day \in Int, day <= LastCloseableDay
                 PROVE  RowsOf(day)' = RowsOf(day)
      BY DEF Settles
    <3>1. DayOf(r.at) # day
      BY <2>3, <2>4 DEF LastCloseableDay
    <3> QED BY <2>1, <3>1 DEF RowsOf, DayOf
  <2> QED BY <1>0, <2>1, <2>2, <2>5
<1>3. ASSUME now' = now, source' = source
      PROVE  LastCloseableDay' = LastCloseableDay /\ \A day \in Int : Settles(day)
  BY <1>3 DEF LastCloseableDay, Settles, RowsOf, DayOf
<1>4. ASSUME now' = now PROVE LastCloseableDay' = LastCloseableDay
  BY <1>4 DEF LastCloseableDay, DayOf
<1>5. LastCloseableDay \in Int
  BY LastCloseableType
<1>6. CASE now' = now /\ source' = source /\ bucket \subseteq bucket'
  BY <1>0, <1>3, <1>5, <1>6
<1>7. CASE \E r \in Row : InsertRow(r)
  BY <1>0, <1>2, <1>4, <1>5, <1>7
<1>8. CASE /\ ~Tick /\ ~\E r \in Row : InsertRow(r)
           /\ [ImportNext]_<<bucket, importVars>>
  <2>1. now' = now /\ source' = source /\ bucket \subseteq bucket'
    BY <1>8 DEF ImportNext, StartImport, LogStart, QueryDay, HeadObject, Put, LogEnd, KillImport,
                CallFails, CutOff, PutLands, importVars
  <2> QED BY <1>6, <2>1
<1> QED BY <1>1, <1>7, <1>8

(* What is true of a closed day stays true. *)
LEMMA SettledDay ==
  ASSUME NEW day \in Int, day <= LastCloseableDay, Settles(day), bucket \subseteq bucket'
  PROVE  /\ KeyOfDay(day)' = KeyOfDay(day)
         /\ Imported(day) => Imported(day)'
         /\ \A k : MadeOf(k, day) => MadeOf(k, day)'
<1>1. RowsOf(day)' = RowsOf(day)
  BY DEF Settles
<1>2. KeyOfDay(day)' = KeyOfDay(day)
  BY <1>1 DEF KeyOfDay, Ordered, Line, S3Key
<1>3. Imported(day) => Imported(day)'
  BY <1>1, <1>2 DEF Imported
<1>4. \A k : MadeOf(k, day) => MadeOf(k, day)'
  BY <1>1 DEF MadeOf, Enumerates, Ordered, KeyFrom, Line, S3Key
<1> QED BY <1>2, <1>3, <1>4

(* The keys of what a day's rows make, and their lines. *)
LEMMA MadeLines ==
  ASSUME source \subseteq Row, IsFiniteSet(source), NEW day, NEW s, Enumerates(s, RowsOf(day))
  PROVE  [i \in DOMAIN s |-> Line(s[i])] \in Seq(Nat \X Nat)
<1>1. RowsOf(day) \subseteq Row /\ IsFiniteSet(RowsOf(day))
  <2>1. RowsOf(day) \subseteq source
    BY DEF RowsOf
  <2> QED BY <2>1, FS_Subset
<1>2. Cardinality(RowsOf(day)) \in Nat /\ s \in [1..Cardinality(RowsOf(day)) -> RowsOf(day)]
  BY <1>1, EnumerationIsOnto DEF Enumerates
<1>3. \A i \in DOMAIN s : Line(s[i]) \in Nat \X Nat
  BY <1>1, <1>2, ImportAssumption DEF Line
<1> QED BY <1>2, <1>3

\* The days a run may begin with and go up to.
LEMMA FirstDay ==
  ASSUME source \subseteq Row, source # {}
  PROVE  Min({DayOf(r.at) : r \in source}) \in Int
<1> DEFINE S == {DayOf(r.at) : r \in source}
<1>1. S \subseteq Nat /\ S # {}
  BY DayType, ImportAssumption
<1> HIDE DEF S
<1>2. \E x \in S : \A y \in S : x <= y
  BY <1>1, LeastOf
<1>3. Min(S) \in S
  BY <1>2 DEF Min
<1>4. Min(S) \in Nat
  BY <1>1, <1>3, Zenon
<1> QED BY <1>4 DEF S

LEMMA LesserOf ==
  ASSUME NEW a \in Int, NEW b \in Int
  PROVE  Min({a, b}) \in Int /\ Min({a, b}) <= a /\ Min({a, b}) <= b
<1>1. \E x \in {a, b} : \A y \in {a, b} : x <= y
  OBVIOUS
<1>2. Min({a, b}) \in {a, b} /\ \A y \in {a, b} : Min({a, b}) <= y
  BY <1>1 DEF Min
<1> QED BY <1>2

LEMMA StartKeepsCourse ==
  ASSUME ImportTypeOK, NEW live \in BOOLEAN, NEW since \in Nat, NEW until \in Nat,
         StartImport(live, since, until)
  PROVE  ImportTypeOK' /\ Course' /\ KeyInHand' /\ DaysDone'
<1> DEFINE begin == IF since = 0 THEN Min({DayOf(r.at) : r \in source}) ELSE since
           end == IF until = 0 THEN LastCloseableDay ELSE Min({until, LastCloseableDay})
           from == IF live THEN "start" ELSE "query"
<1>1. /\ since = 0 => source # {}
      /\ begin <= end
      /\ imp' = [NoImport EXCEPT !.pc = from, !.live = live,
                   !.since = begin, !.until = end, !.day = begin]
      /\ UNCHANGED <<bucket, now, source, audit, late>>
  BY DEF StartImport
<1>2. begin \in Int
  BY <1>1, FirstDay DEF ImportTypeOK
<1>3. end \in Int /\ end <= LastCloseableDay
  <2>1. LastCloseableDay \in Int
    BY LastCloseableType
  <2>2. /\ Min({until, LastCloseableDay}) \in Int
        /\ Min({until, LastCloseableDay}) <= LastCloseableDay
    BY <2>1, LesserOf
  <2> QED BY <2>1, <2>2
<1>4. from \in {"start", "query"} /\ (from = "start" => live)
  OBVIOUS
<1>5. <<>> \in Seq(Nat \X Nat)
  OBVIOUS
<1>6. LastCloseableDay' = LastCloseableDay
  BY <1>1 DEF LastCloseableDay, DayOf
<1> HIDE DEF begin, end, from
<1>7. ImportTypeOK'
  BY <1>1, <1>2, <1>3, <1>4, <1>5 DEF ImportTypeOK, NoImport, Places
<1>8. /\ imp'.pc = from /\ imp'.live = live /\ imp'.since = begin /\ imp'.until = end
      /\ imp'.day = begin /\ imp'.failed = FALSE
  BY <1>1 DEF NoImport
<1>9. Course'
  BY <1>1, <1>3, <1>4, <1>6, <1>8 DEF Course
<1>10. KeyInHand'
  BY <1>4, <1>8 DEF KeyInHand
<1>11. DaysDone'
  <2>1. imp'.since..(imp'.day - 1) = {}
    BY <1>2, <1>8
  <2> QED BY <2>1 DEF DaysDone
<1> QED BY <1>7, <1>9, <1>10, <1>11

LEMMA ImportedStays ==
  ASSUME NEW d, Imported(d), source' = source, bucket \subseteq bucket'
  PROVE  Imported(d)'
<1>1. RowsOf(d)' = RowsOf(d)
  BY DEF RowsOf, DayOf
<1> QED BY <1>1 DEF Imported, KeyOfDay, Ordered, Line, S3Key

\* What NextDay needs: the day it leaves is in the bucket.
LEMMA NextDayKeepsCourse ==
  ASSUME ImportTypeOK, Course, DaysDone, imp.pc \in {"query", "head", "put"}, NextDay,
         now' = now, source' = source, bucket \subseteq bucket',
         NEW day, day = imp.day, imp.live => Imported(day)'
  PROVE  ImportTypeOK' /\ Course' /\ KeyInHand' /\ DaysDone'
<1> DEFINE to == IF imp.day < imp.until THEN "query" ELSE IF imp.live THEN "end" ELSE "idle"
<1>1. imp' = [imp EXCEPT !.day = @ + 1, !.pc = to]
  BY DEF NextDay
<1>2. LastCloseableDay' = LastCloseableDay
  BY DEF LastCloseableDay, DayOf
<1>3. to \in Places /\ to \notin {"start", "head", "put"}
  BY DEF Places
<1> HIDE DEF to
<1>4. ImportTypeOK'
  <2>1. imp.day + 1 \in Int
    BY DEF ImportTypeOK
  <2> QED BY <1>1, <1>3, <2>1 DEF ImportTypeOK
<1>5. /\ imp'.pc = to /\ imp'.live = imp.live /\ imp'.since = imp.since /\ imp'.until = imp.until
      /\ imp'.day = imp.day + 1 /\ imp'.failed = imp.failed
  BY <1>1 DEF ImportTypeOK
<1>6. imp.day \in Int /\ imp.since \in Int /\ imp.until \in Int /\ imp.live \in BOOLEAN
  BY DEF ImportTypeOK
<1>7. Course'
  BY <1>2, <1>5, <1>6 DEF Course, to
<1>8. KeyInHand'
  BY <1>3, <1>5 DEF KeyInHand
<1>9. DaysDone'
  <2> SUFFICES ASSUME imp.live, NEW d \in imp.since..imp.day PROVE Imported(d)'
    BY <1>5, <1>6 DEF DaysDone
  <2>1. CASE d = day
    BY <2>1
  <2>2. CASE d # day
    <3>1. d \in imp.since..(imp.day - 1)
      BY <1>6, <2>2
    <3>2. Imported(d)
      BY <3>1 DEF DaysDone
    <3> QED BY <3>2, ImportedStays
  <2> QED BY <2>1, <2>2
<1> QED BY <1>4, <1>7, <1>8, <1>9

(* The parts that speak of imp.day, in a step that leaves the days to do alone. *)
LEMMA SameDaysKeepDone ==
  ASSUME DaysDone, source' = source, bucket \subseteq bucket',
         imp'.live => imp.live, imp'.since = imp.since, imp'.day = imp.day
  PROVE  DaysDone'
<1> SUFFICES ASSUME imp.live, NEW d \in imp.since..(imp.day - 1) PROVE Imported(d)'
  BY DEF DaysDone
<1>1. Imported(d)
  BY DEF DaysDone
<1> QED BY <1>1, ImportedStays

LEMMA LeaveKeepsCourse ==
  ASSUME ImportTypeOK, Course, DaysDone, imp.pc \in {"query", "head", "put"},
         NEW reason, Leave(reason), UNCHANGED <<now, source, bucket>>
  PROVE  ImportTypeOK' /\ Course' /\ KeyInHand' /\ DaysDone'
<1> DEFINE to == IF imp.live THEN "end" ELSE "idle"
<1>1. imp' = [imp EXCEPT !.pc = to, !.failed = TRUE]
  BY DEF Leave
<1>2. LastCloseableDay' = LastCloseableDay
  BY DEF LastCloseableDay, DayOf
<1>3. to \in Places
  BY DEF Places
<1>4. ImportTypeOK'
  BY <1>1, <1>3 DEF ImportTypeOK
<1>5. /\ imp'.pc = to /\ imp'.live = imp.live /\ imp'.since = imp.since /\ imp'.until = imp.until
      /\ imp'.day = imp.day /\ imp'.failed = TRUE
  BY <1>1 DEF ImportTypeOK
<1>6. imp.day \in Int /\ imp.until \in Int /\ imp.live \in BOOLEAN
  BY DEF ImportTypeOK
<1>7. Course'
  BY <1>2, <1>5, <1>6 DEF Course
<1>8. KeyInHand'
  BY <1>5 DEF KeyInHand
<1>9. DaysDone'
  BY <1>5, SameDaysKeepDone
<1> QED BY <1>4, <1>7, <1>8, <1>9

LEMMA QueryKeepsCourse ==
  ASSUME ImportTypeOK, Course, DaysDone, QueryDay
  PROVE  ImportTypeOK' /\ Course' /\ KeyInHand' /\ DaysDone'
<1>0. imp.pc = "query" /\ UNCHANGED <<bucket, now, source, audit, late>>
  BY DEF QueryDay
<1>1. CASE RowsOf(imp.day) = {}
  <2>1. NextDay
    BY <1>1 DEF QueryDay
  <2>2. PICK day : day = imp.day
    OBVIOUS
  <2>3. Imported(day)'
    BY <1>0, <1>1, <2>2 DEF Imported, RowsOf, DayOf
  <2> QED BY <1>0, <2>1, <2>2, <2>3, NextDayKeepsCourse
<1>2. CASE RowsOf(imp.day) # {}
  <2>1. PICK s \in SetToSeqs(RowsOf(imp.day)) :
          /\ Ordered(s)
          /\ imp' = [imp EXCEPT !.pc = "head", !.attempt = 1,
                       !.lines = [i \in DOMAIN s |-> Line(s[i])]]
    BY <1>2 DEF QueryDay
  <2>2. PICK day : day = imp.day
    OBVIOUS
  <2>3. Enumerates(s, RowsOf(day))
    BY <2>1, <2>2 DEF Enumerates
  <2> DEFINE lines == [i \in DOMAIN s |-> Line(s[i])]
  <2>4. lines \in Seq(Nat \X Nat)
    BY <2>3, MadeLines DEF ImportTypeOK
  <2>5. 1 \in DOMAIN s
    <3>1. IsFiniteSet(RowsOf(day)) /\ RowsOf(day) # {}
      <4>1. RowsOf(day) \subseteq source
        BY DEF RowsOf
      <4> QED BY <1>2, <2>2, <4>1, FS_Subset DEF ImportTypeOK
    <3>2. /\ Cardinality(RowsOf(day)) \in Nat \ {0}
          /\ s \in [1..Cardinality(RowsOf(day)) -> RowsOf(day)]
      BY <2>3, <3>1, EnumerationIsOnto, FS_EmptySet DEF Enumerates
    <3> QED BY <3>2
  <2>6. lines[1] = Line(s[1])
    BY <2>5
  <2>6a. KeyFrom(s, day) = S3Key("n0183", day, Line(s[1])[1], lines)
    BY DEF KeyFrom
  <2> HIDE DEF lines
  <2>7. imp' = [imp EXCEPT !.pc = "head", !.attempt = 1, !.lines = lines]
    BY <2>1 DEF lines
  <2>8. ImportTypeOK'
    BY <1>0, <2>4, <2>7 DEF ImportTypeOK, Places
  <2>9. /\ imp'.pc = "head" /\ imp'.live = imp.live /\ imp'.since = imp.since
        /\ imp'.until = imp.until /\ imp'.day = day /\ imp'.failed = imp.failed
        /\ imp'.lines = lines
    BY <2>2, <2>7 DEF ImportTypeOK
  <2>10. Course'
    <3>1. LastCloseableDay' = LastCloseableDay
      BY <1>0 DEF LastCloseableDay, DayOf
    <3> QED BY <1>0, <2>2, <2>9, <3>1 DEF Course
  <2>11. KeyInHand'
    <3>1. RowsOf(day)' = RowsOf(day) /\ RowsOf(day) # {}
      BY <1>0, <1>2, <2>2 DEF RowsOf, DayOf
    <3>2. ImportKey' = S3Key("n0183", day, lines[1][1], lines)
      BY <2>9 DEF ImportKey, S3Key
    <3>3. PICK k : k = KeyFrom(s, day)
      OBVIOUS
    <3>4. ImportKey' = k
      BY <2>6, <2>6a, <3>2, <3>3
    <3>5. MadeOf(k, day)'
      BY <2>3, <3>1, <3>3 DEF MadeOf, Enumerates, KeyFrom, Ordered, Line, S3Key
    <3>6. MadeOf(ImportKey, imp.day)'
      BY <2>9, <3>4, <3>5
    <3> QED BY <3>6 DEF KeyInHand
  <2>12. DaysDone'
    BY <1>0, <2>2, <2>9, SameDaysKeepDone
  <2> QED BY <2>8, <2>10, <2>11, <2>12
<1> QED BY <1>1, <1>2

\* In head and put the key in hand is the day's own.
LEMMA KeyInHandIsTheDays ==
  ASSUME ImportTypeOK, KeyInHand, imp.pc \in {"head", "put"}, NEW day, day = imp.day
  PROVE  KeyOfDay(day) = ImportKey
<1>1. PICK k : k = ImportKey
  OBVIOUS
<1>2. MadeOf(k, day)
  BY <1>1 DEF KeyInHand
<1> QED BY <1>1, <1>2, MadeOnce DEF ImportTypeOK

LEMMA HeadKeepsCourse ==
  ASSUME ImportTypeOK, Course, KeyInHand, DaysDone, HeadObject
  PROVE  ImportTypeOK' /\ Course' /\ KeyInHand' /\ DaysDone'
<1>0. imp.pc = "head" /\ UNCHANGED <<bucket, now, source, audit, late>>
  BY DEF HeadObject
<1>1. PICK day : day = imp.day
  OBVIOUS
<1>2. CASE ImportKey \in bucket \/ ~imp.live
  <2>1. NextDay
    BY <1>2 DEF HeadObject
  <2>2. imp.live => Imported(day)
    BY <1>0, <1>1, <1>2, KeyInHandIsTheDays DEF Imported
  <2>3. imp.live => Imported(day)'
    BY <1>0, <2>2, ImportedStays
  <2> QED BY <1>0, <1>1, <2>1, <2>3, NextDayKeepsCourse
<1>3. CASE ~(ImportKey \in bucket \/ ~imp.live)
  <2>1. imp' = [imp EXCEPT !.pc = "put", !.attempt = 1]
    BY <1>3 DEF HeadObject
  <2>2. ImportTypeOK'
    BY <1>0, <2>1 DEF ImportTypeOK, Places
  <2>3. /\ imp'.pc = "put" /\ imp'.live = imp.live /\ imp'.since = imp.since
        /\ imp'.until = imp.until /\ imp'.day = imp.day /\ imp'.failed = imp.failed
        /\ imp'.lines = imp.lines
    BY <2>1 DEF ImportTypeOK
  <2>4. Course'
    <3>1. LastCloseableDay' = LastCloseableDay
      BY <1>0 DEF LastCloseableDay, DayOf
    <3> QED BY <1>0, <2>3, <3>1 DEF Course
  <2>5. KeyInHand'
    <3>1. PICK k : k = ImportKey
      OBVIOUS
    <3>2. MadeOf(k, day)
      BY <1>0, <1>1, <3>1 DEF KeyInHand
    <3>3. RowsOf(day)' = RowsOf(day)
      BY <1>0 DEF RowsOf, DayOf
    <3>4. MadeOf(k, day)'
      BY <3>2, <3>3 DEF MadeOf, Enumerates, KeyFrom, Ordered, Line, S3Key
    <3>5. ImportKey' = k
      BY <2>3, <3>1 DEF ImportKey, S3Key
    <3>6. MadeOf(ImportKey, imp.day)'
      BY <1>1, <2>3, <3>4, <3>5
    <3> QED BY <3>6 DEF KeyInHand
  <2>6. DaysDone'
    BY <1>0, <2>3, SameDaysKeepDone
  <2> QED BY <2>2, <2>4, <2>5, <2>6
<1> QED BY <1>2, <1>3

LEMMA PutKeepsCourse ==
  ASSUME ImportTypeOK, Course, KeyInHand, DaysDone, Put
  PROVE  ImportTypeOK' /\ Course' /\ KeyInHand' /\ DaysDone'
<1>0. /\ imp.pc = "put" /\ bucket' = bucket \cup {ImportKey} /\ NextDay
      /\ UNCHANGED <<now, source, audit, late>>
  BY DEF Put
<1>1. PICK day : day = imp.day
  OBVIOUS
<1>2. KeyOfDay(day) = ImportKey
  BY <1>0, <1>1, KeyInHandIsTheDays
<1>3. RowsOf(day)' = RowsOf(day)
  BY <1>0 DEF RowsOf, DayOf
<1>4. KeyOfDay(day)' = KeyOfDay(day)
  BY <1>3 DEF KeyOfDay, Ordered, Line, S3Key
<1>5. Imported(day)'
  BY <1>0, <1>2, <1>4 DEF Imported
<1> QED BY <1>0, <1>1, <1>5, NextDayKeepsCourse

(* A call that fails and is tried again, or gives the run up. *)
LEMMA FailureKeepsCourse ==
  ASSUME ImportTypeOK, Course, KeyInHand, DaysDone, NEW failure \in Failures, CallFails(failure)
  PROVE  ImportTypeOK' /\ Course' /\ KeyInHand' /\ DaysDone'
<1>0. imp.pc \in {"head", "put"} /\ UNCHANGED <<bucket, now, source, audit>>
  BY DEF CallFails
<1>1. CASE GivesUp(failure, imp.attempt)
  <2>1. Leave("error")
    BY <1>1 DEF CallFails
  <2> QED BY <1>0, <2>1, LeaveKeepsCourse
<1>2. CASE ~GivesUp(failure, imp.attempt)
  <2>1. imp' = [imp EXCEPT !.attempt = @ + 1]
    BY <1>2 DEF CallFails
  <2>2. ImportTypeOK'
    BY <1>0, <2>1 DEF ImportTypeOK
  <2>3. /\ imp'.pc = imp.pc /\ imp'.live = imp.live /\ imp'.since = imp.since
        /\ imp'.until = imp.until /\ imp'.day = imp.day /\ imp'.failed = imp.failed
        /\ imp'.lines = imp.lines
    BY <2>1 DEF ImportTypeOK
  <2>4. Course'
    <3>1. LastCloseableDay' = LastCloseableDay
      BY <1>0 DEF LastCloseableDay, DayOf
    <3> QED BY <2>3, <3>1 DEF Course
  <2>5. KeyInHand'
    <3>1. PICK k, day : k = ImportKey /\ day = imp.day
      OBVIOUS
    <3>2. MadeOf(k, day)
      BY <1>0, <3>1 DEF KeyInHand
    <3>3. RowsOf(day)' = RowsOf(day)
      BY <1>0 DEF RowsOf, DayOf
    <3>4. MadeOf(k, day)'
      BY <3>2, <3>3 DEF MadeOf, Enumerates, KeyFrom, Ordered, Line, S3Key
    <3>5. ImportKey' = k
      BY <2>3, <3>1 DEF ImportKey, S3Key
    <3>6. MadeOf(ImportKey, imp.day)'
      BY <2>3, <3>1, <3>4, <3>5
    <3> QED BY <3>6 DEF KeyInHand
  <2>6. DaysDone'
    BY <1>0, <2>3, SameDaysKeepDone
  <2> QED BY <2>2, <2>4, <2>5, <2>6
<1> QED BY <1>1, <1>2

(* Steps that leave the run as it is: time, rows, late PUTs. *)
LEMMA OutsideKeepsCourse ==
  ASSUME ImportTypeOK, Course, KeyInHand, DaysDone,
         [ImportNext]_<<bucket, importVars>>, imp' = imp
  PROVE  ImportTypeOK' /\ Course' /\ KeyInHand' /\ DaysDone'
<1>1. /\ now' \in Nat /\ source' \subseteq Row /\ IsFiniteSet(source') /\ bucket \subseteq bucket'
      /\ LastCloseableDay <= LastCloseableDay' /\ \A day \in Int : Settles(day)
  BY StepSettles
<1>2. ImportTypeOK'
  BY <1>1 DEF ImportTypeOK
<1>3. LastCloseableDay \in Int /\ LastCloseableDay' \in Int
  <2>1. LastCloseableDay' = DayOf(now' - Lag) - 1
    BY DEF LastCloseableDay, DayOf
  <2> QED BY <1>1, <2>1, LastCloseableType, DayType, ImportAssumption
<1>4. imp.since \in Int /\ imp.until \in Int /\ imp.day \in Int
  BY DEF ImportTypeOK
<1>5. Course'
  BY <1>1, <1>3, <1>4 DEF Course
<1>6. KeyInHand'
  <2> SUFFICES ASSUME imp.pc \in {"head", "put"} PROVE MadeOf(ImportKey, imp.day)'
    BY DEF KeyInHand
  <2>1. PICK k, day : k = ImportKey /\ day = imp.day
    OBVIOUS
  <2>2. MadeOf(k, day)
    BY <2>1 DEF KeyInHand
  <2>3. day \in Int /\ day <= LastCloseableDay
    BY <1>3, <1>4, <2>1 DEF Course
  <2>4. MadeOf(k, day)'
    BY <1>1, <2>2, <2>3, SettledDay
  <2>5. ImportKey' = k
    BY <2>1 DEF ImportKey, S3Key
  <2> QED BY <2>1, <2>4, <2>5
<1>7. DaysDone'
  <2> SUFFICES ASSUME imp.live, NEW d \in imp.since..(imp.day - 1) PROVE Imported(d)'
    BY DEF DaysDone
  <2>1. d \in Int /\ d <= LastCloseableDay
    <3>1. imp.pc # "idle" /\ imp.pc \in Places
      BY DEF Course, ImportTypeOK
    <3> QED BY <1>3, <1>4, <3>1 DEF Course, Places
  <2>2. Imported(d)
    BY DEF DaysDone
  <2> QED BY <1>1, <2>1, <2>2, SettledDay
<1> QED BY <1>2, <1>5, <1>6, <1>7

LEMMA EntryKeepsCourse ==
  ASSUME ImportTypeOK, Course, KeyInHand, DaysDone, LogStart \/ LogEnd \/ KillImport
  PROVE  ImportTypeOK' /\ Course' /\ KeyInHand' /\ DaysDone'
<1>0. UNCHANGED <<bucket, now, source>>
  BY DEF LogStart, LogEnd, KillImport
<1>1. CASE LogStart
  <2>1. imp' = [imp EXCEPT !.pc = "query"] /\ imp.pc = "start"
    BY <1>1 DEF LogStart, Goes
  <2>2. ImportTypeOK'
    BY <1>0, <2>1 DEF ImportTypeOK, Places
  <2>3. /\ imp'.pc = "query" /\ imp'.live = imp.live /\ imp'.since = imp.since
        /\ imp'.until = imp.until /\ imp'.day = imp.day /\ imp'.failed = imp.failed
    BY <2>1 DEF ImportTypeOK
  <2>4. Course'
    <3>1. LastCloseableDay' = LastCloseableDay
      BY <1>0 DEF LastCloseableDay, DayOf
    <3> QED BY <2>1, <2>3, <3>1 DEF Course
  <2>5. KeyInHand' /\ DaysDone'
    BY <1>0, <2>3, SameDaysKeepDone DEF KeyInHand
  <2> QED BY <2>2, <2>4, <2>5
<1>2. CASE LogEnd \/ KillImport
  <2>1. imp' = NoImport
    BY <1>2 DEF LogEnd, KillImport
  <2>2. ImportTypeOK'
    <3>1. <<>> \in Seq(Nat \X Nat)
      OBVIOUS
    <3> QED BY <1>0, <2>1, <3>1 DEF ImportTypeOK, Places, NoImport
  <2>3. imp'.pc = "idle" /\ imp'.live = FALSE
    BY <2>1 DEF NoImport
  <2>4. Course' /\ KeyInHand' /\ DaysDone'
    BY <2>3 DEF Course, KeyInHand, DaysDone
  <2> QED BY <2>2, <2>4
<1> QED BY <1>1, <1>2

LEMMA StepKeepsCourse ==
  ASSUME ImportTypeOK, Course, KeyInHand, DaysDone, [ImportNext]_<<bucket, importVars>>
  PROVE  ImportTypeOK' /\ Course' /\ KeyInHand' /\ DaysDone'
<1>1. CASE imp' = imp
  BY <1>1, OutsideKeepsCourse
<1>2. ASSUME NEW live \in BOOLEAN, NEW since \in 0..DayOf(MaxTime), NEW until \in 0..DayOf(MaxTime),
             StartImport(live, since, until)
      PROVE  ImportTypeOK' /\ Course' /\ KeyInHand' /\ DaysDone'
  <2>1. since \in Nat /\ until \in Nat
    BY DayType, ImportAssumption
  <2> QED BY <1>2, <2>1, StartKeepsCourse
<1>3. CASE QueryDay
  BY <1>3, QueryKeepsCourse
<1>4. CASE HeadObject
  BY <1>4, HeadKeepsCourse
<1>5. CASE Put
  BY <1>5, PutKeepsCourse
<1>6. ASSUME NEW f \in Failures, CallFails(f)
      PROVE  ImportTypeOK' /\ Course' /\ KeyInHand' /\ DaysDone'
  BY <1>6, FailureKeepsCourse
<1>7. ASSUME NEW reason \in {"interrupt", "error"}, CutOff(reason)
      PROVE  ImportTypeOK' /\ Course' /\ KeyInHand' /\ DaysDone'
  BY <1>7, LeaveKeepsCourse DEF CutOff
<1>8. CASE LogStart \/ LogEnd \/ KillImport
  BY <1>8, EntryKeepsCourse
<1>9. ASSUME Tick \/ (\E r \in Row : InsertRow(r)) \/ (\E k \in late : PutLands(k))
      PROVE  imp' = imp
  BY <1>9 DEF Tick, InsertRow, PutLands
<1>10. CASE UNCHANGED <<bucket, importVars>>
  BY <1>1, <1>10 DEF importVars
<1> QED BY <1>1, <1>2, <1>3, <1>4, <1>5, <1>6, <1>7, <1>8, <1>9, <1>10 DEF ImportNext

(* The claims made before, and the one an end entry makes. *)
LEMMA StepKeepsClaims ==
  ASSUME ImportTypeOK, Course, DaysDone, EntriesBounded, EndTellsTruth,
         [ImportNext]_<<bucket, importVars>>
  PROVE  EntriesBounded' /\ EndTellsTruth'
<1> DEFINE Claimed(e) == e.since..(IF e.exit = 0 THEN e.until ELSE e.day - 1)
           Bounded(e) == /\ e.since \in Int /\ e.until \in Int /\ e.day \in Int
                         /\ e.event = "end" => e.until <= LastCloseableDay /\ e.day <= e.until + 1
           Entry(event) == [event |-> event, run |-> imports, exit |-> IF imp.failed THEN 1 ELSE 0,
                            since |-> imp.since, until |-> imp.until, day |-> imp.day]
<1>1. /\ now' \in Nat /\ bucket \subseteq bucket'
      /\ LastCloseableDay <= LastCloseableDay' /\ \A day \in Int : Settles(day)
  BY StepSettles
<1>2. LastCloseableDay \in Int /\ LastCloseableDay' \in Int
  <2>1. LastCloseableDay' = DayOf(now' - Lag) - 1
    BY DEF LastCloseableDay, DayOf
  <2> QED BY <1>1, <2>1, LastCloseableType, DayType, ImportAssumption
<1>3. imp.since \in Int /\ imp.until \in Int /\ imp.day \in Int /\ imp.failed \in BOOLEAN
  BY DEF ImportTypeOK
<1>4. audit' = audit \/ (LogStart /\ audit' = audit \cup {Entry("start")})
        \/ (LogEnd /\ audit' = audit \cup {Entry("end")})
  BY DEF ImportNext, importVars, Tick, InsertRow, StartImport, LogStart, LogEnd, LogSafely, QueryDay,
         HeadObject, Put, KillImport, CallFails, CutOff, PutLands
<1>5. \A e \in audit' : e \in audit \/ (LogStart /\ e = Entry("start")) \/ (LogEnd /\ e = Entry("end"))
  BY <1>4
<1>6. ASSUME NEW e, e \in audit \/ (LogStart /\ e = Entry("start")) \/ (LogEnd /\ e = Entry("end"))
      PROVE  /\ Bounded(e)
             /\ e.event = "end" => \A d \in Claimed(e) : Imported(d)
  <2>1. CASE e \in audit
    BY <2>1 DEF EntriesBounded, EndTellsTruth
  <2>2. CASE LogStart /\ e = Entry("start")
    BY <1>3, <2>2
  <2>3. CASE LogEnd /\ e = Entry("end")
    <3>1. imp.pc = "end" /\ imp.live
      BY <2>3 DEF LogEnd, Course
    <3>2. /\ imp.until <= LastCloseableDay /\ imp.day <= imp.until + 1
          /\ ~imp.failed => imp.day = imp.until + 1
      BY <3>1 DEF Course
    <3>3. Bounded(e)
      BY <1>3, <2>3, <3>2
    <3>4. Claimed(e) = imp.since..(imp.day - 1)
      BY <1>3, <2>3, <3>2
    <3>5. \A d \in Claimed(e) : Imported(d)
      BY <3>1, <3>4 DEF DaysDone
    <3> QED BY <3>3, <3>5
  <2> QED BY <1>6, <2>1, <2>2, <2>3
<1>7. ASSUME NEW e \in audit'
      PROVE  /\ Bounded(e)'
             /\ e.event = "end" => \A d \in Claimed(e) : Imported(d)'
  <2>1. Bounded(e) /\ (e.event = "end" => \A d \in Claimed(e) : Imported(d))
    BY <1>5, <1>6
  <2>2. Bounded(e)'
    BY <1>1, <1>2, <2>1
  <2>3. ASSUME e.event = "end", NEW d \in Claimed(e) PROVE Imported(d)'
    <3>1. d \in Int /\ d <= LastCloseableDay
      BY <1>2, <2>1, <2>3
    <3>2. Imported(d)
      BY <2>1, <2>3
    <3> QED BY <1>1, <3>1, <3>2, SettledDay
  <2> QED BY <2>2, <2>3
<1>8. EntriesBounded'
  BY <1>7 DEF EntriesBounded
<1>9. EndTellsTruth'
  BY <1>7 DEF EndTellsTruth
<1> QED BY <1>8, <1>9

----------------------------------------------------------------------------
\* "import FINISHED" and "import FAILED at": whatever the rows, the day length,
\* the lag and the faults, every day an end entry claims (the whole range, or
\* those before the day it failed on) is in the bucket, and complete: the rows
\* it has now are those its object was made of.
THEOREM ImportTellsTruth == ImportSpec => []EndTellsTruth
<1> DEFINE Inv == ImportInv /\ EndTellsTruth
<1>1. ImportInit => Inv
  <2>1. ImportInit => ImportTypeOK
    BY ImportInitTypes
  <2>2. ImportInit => Course /\ KeyInHand /\ DaysDone /\ EntriesBounded /\ EndTellsTruth
    BY DEF ImportInit, NoImport, Course, KeyInHand, DaysDone, EntriesBounded, EndTellsTruth
  <2> QED BY <2>1, <2>2 DEF ImportInv
<1>2. Inv /\ [ImportNext]_<<bucket, importVars>> => Inv'
  <2> SUFFICES ASSUME Inv, [ImportNext]_<<bucket, importVars>> PROVE Inv'
    OBVIOUS
  <2>1. ImportTypeOK' /\ Course' /\ KeyInHand' /\ DaysDone'
    BY StepKeepsCourse DEF ImportInv
  <2>2. EntriesBounded' /\ EndTellsTruth'
    BY StepKeepsClaims DEF ImportInv
  <2> QED BY <2>1, <2>2 DEF ImportInv
<1>3. Inv => EndTellsTruth
  OBVIOUS
<1> HIDE DEF Inv
<1> QED BY <1>1, <1>2, <1>3, PTL DEF ImportSpec

----------------------------------------------------------------------------
\* Keys this tool could have made, and a bucket it never wrote to.
Legacy(k) == k.root = "raw" /\ k.proto = "n0183"
NothingImported == \A k \in bucket : ~Legacy(k)

\* Every legacy key, there or still to land, is of a closed day and of its rows.
OfClosedDays ==
  \A k \in bucket \cup late :
    Legacy(k) => k.day \in Int /\ k.day <= LastCloseableDay /\ MadeOf(k, k.day)

LEMMA StepKeepsClosedDays ==
  ASSUME ImportInv, OfClosedDays, [ImportNext]_<<bucket, importVars>>
  PROVE  OfClosedDays'
<1>1. /\ now' \in Nat /\ bucket \subseteq bucket'
      /\ LastCloseableDay <= LastCloseableDay' /\ \A day \in Int : Settles(day)
  BY StepSettles DEF ImportInv
<1>2. LastCloseableDay \in Int /\ LastCloseableDay' \in Int
  <2>1. LastCloseableDay' = DayOf(now' - Lag) - 1
    BY DEF LastCloseableDay, DayOf
  <2> QED BY <1>1, <2>1, LastCloseableType, DayType, ImportAssumption DEF ImportInv
<1>3. \A k \in bucket' \cup late' :
        k \in bucket \cup late \/ (imp.pc \in {"head", "put"} /\ k = ImportKey)
  BY DEF ImportNext, importVars, Tick, InsertRow, StartImport, LogStart, LogEnd, QueryDay,
         HeadObject, Put, KillImport, CallFails, CutOff, PutLands
<1>4. ASSUME NEW k, k \in bucket \cup late \/ (imp.pc \in {"head", "put"} /\ k = ImportKey), Legacy(k)
      PROVE  k.day \in Int /\ k.day <= LastCloseableDay /\ MadeOf(k, k.day)
  <2>1. CASE k \in bucket \cup late
    BY <1>4, <2>1 DEF OfClosedDays
  <2>2. CASE imp.pc \in {"head", "put"} /\ k = ImportKey
    <3>1. k.day = imp.day
      BY <2>2 DEF ImportKey, S3Key
    <3>2. imp.day \in Int /\ imp.day <= LastCloseableDay
      BY <1>2, <2>2 DEF ImportInv, ImportTypeOK, Course
    <3>3. MadeOf(k, imp.day)
      BY <2>2 DEF ImportInv, KeyInHand
    <3> QED BY <3>1, <3>2, <3>3
  <2> QED BY <1>4, <2>1, <2>2
<1>5. ASSUME NEW k \in bucket' \cup late', Legacy(k)
      PROVE  k.day \in Int /\ k.day <= LastCloseableDay' /\ MadeOf(k, k.day)'
  <2>1. k.day \in Int /\ k.day <= LastCloseableDay /\ MadeOf(k, k.day)
    BY <1>3, <1>4, <1>5
  <2>2. PICK day : day = k.day
    OBVIOUS
  <2>3. MadeOf(k, day)'
    BY <1>1, <2>1, <2>2, SettledDay
  <2> QED BY <1>1, <1>2, <2>1, <2>2, <2>3
<1> QED BY <1>5 DEF OfClosedDays, Legacy

\* "A day holding more than one object is a real, visible signal that its
\* source changed": in a bucket that held nothing of the legacy protocol before,
\* any number of runs, retries, late PUTs and crashes put at most one object of
\* a day there, for the database may break ties as it likes.
THEOREM ImportMakesOneObject == ImportSpec /\ NothingImported => []OneObjectPerDay
<1> DEFINE Inv == ImportInv /\ EndTellsTruth /\ OfClosedDays
<1>1. ImportInit /\ NothingImported => Inv
  <2>1. ImportInit => ImportTypeOK
    BY ImportInitTypes
  <2>2. ImportInit => Course /\ KeyInHand /\ DaysDone /\ EntriesBounded /\ EndTellsTruth
    BY DEF ImportInit, NoImport, Course, KeyInHand, DaysDone, EntriesBounded, EndTellsTruth
  <2>3. ImportInit /\ NothingImported => OfClosedDays
    BY DEF ImportInit, NothingImported, OfClosedDays
  <2> QED BY <2>1, <2>2, <2>3 DEF ImportInv
<1>2. Inv /\ [ImportNext]_<<bucket, importVars>> => Inv'
  <2> SUFFICES ASSUME Inv, [ImportNext]_<<bucket, importVars>> PROVE Inv'
    OBVIOUS
  <2>1. ImportTypeOK' /\ Course' /\ KeyInHand' /\ DaysDone'
    BY StepKeepsCourse DEF ImportInv
  <2>2. EntriesBounded' /\ EndTellsTruth'
    BY StepKeepsClaims DEF ImportInv
  <2>3. OfClosedDays'
    BY StepKeepsClosedDays
  <2> QED BY <2>1, <2>2, <2>3 DEF ImportInv
<1>3. Inv => OneObjectPerDay
  <2> SUFFICES ASSUME Inv, NEW k \in bucket, NEW m \in bucket, Legacy(k), Legacy(m), k.day = m.day
               PROVE  k = m
    BY DEF OneObjectPerDay, Legacy
  <2>1. MadeOf(k, k.day) /\ MadeOf(m, k.day)
    BY DEF OfClosedDays
  <2>2. source \subseteq Row /\ IsFiniteSet(source)
    BY DEF ImportInv, ImportTypeOK
  <2> QED BY <2>1, <2>2, MadeOnce
<1> HIDE DEF Inv
<1> QED BY <1>1, <1>2, <1>3, PTL DEF ImportSpec

----------------------------------------------------------------------------
(* Bucketing.  The definitions below are those of Buckets, of a sequence of *)
(* records and a function of winners instead of the variables.              *)
OpenIn(f, i) ==
  {m \in {f[j].msg : j \in {k \in 1..(i - 1) : f[k].proto = "n2k"}} :
     \E j \in 1..(i - 1) :
       /\ f[j].proto = "n2k" /\ f[j].msg = m /\ f[j].part = "first"
       /\ \A k \in (j + 1)..(i - 1) :
            ~(f[k].proto = "n2k" /\ f[k].msg = m /\ f[k].part = "last")}

Kept(samples) == {s \in samples : InRange(s.col, s.value)}
ReadingsOf(f, i) == {<<i, s>> : s \in Kept(Samples(f[i], OpenIn(f, i)))}
ReadingsIn(f, from) == UNION {ReadingsOf(f, i) : i \in from..Len(f)}

NoWorseDevice(s, t) == s.prio < t.prio \/ (s.prio = t.prio /\ s.src <= t.src)
BestIn(R, c) ==
  {x \in R : CellOf(x[2]) = c /\ \A y \in R : CellOf(y[2]) = c => NoWorseDevice(x[2], y[2])}
BestRows(w, R) ==
  /\ DOMAIN w = {CellOf(x[2]) : x \in R}
  /\ \A c \in DOMAIN w :
       \E x \in BestIn(R, c) :
         /\ w[c] = x[2]
         /\ \A y \in BestIn(R, c) : y[2].ts < x[2].ts \/ (y[2].ts = x[2].ts /\ x[1] <= y[1])

LEMMA RowsAreBestIn == RowsAreBest <=> BestRows(rows, ReadingsIn(fed, first))
<1>1. \A i : OpenAt(i) = OpenIn(fed, i)
  BY DEF OpenAt, OpenIn
<1>2. Readings = ReadingsIn(fed, first)
  BY <1>1 DEF Readings, ReadingsIn, ReadingsOf, Kept
<1>3. \A c : BestDevice(c) = BestIn(Readings, c)
  BY DEF BestDevice, BestIn, NoWorseDevice
<1> QED BY <1>2, <1>3 DEF RowsAreBest, BestRows

\* All samples of a record are of one device and one time.
Timed(s) == s.ts \in Int /\ s.prio \in Int /\ s.src \in Int
Alike(s, t) == s.ts = t.ts /\ s.prio = t.prio /\ s.src = t.src

LEMMA SamplesAreAlike ==
  ASSUME NEW r \in Records, NEW h
  PROVE  /\ \A s \in Samples(r, h) : Timed(s)
         /\ \A s, t \in Samples(r, h) : Alike(s, t)
<1>0. r.ts \in Int /\ (r.proto = "n2k" => r.canId \in Nat)
  BY BucketsAssumption
<1>1. AnyPrio \in Int /\ AnySrc \in Int
  BY DEF AnyPrio, AnySrc
<1>2. CASE r.proto = "n2k"
  <2> DEFINE id == DecodeCanId(r.canId)
  <2>1. id.priority \in Int /\ id.src \in Int
    <3>1. 2^26 \in Nat \ {0}
      OBVIOUS
    <3>2. (r.canId \div 2^26) \in Int /\ (r.canId \div 2^26) % 8 \in Int /\ r.canId % 256 \in Int
      BY <1>0, <1>2, <3>1
    <3> QED BY <3>2 DEF DecodeCanId
  <2>2. \A s \in Samples(r, h) : s.ts = r.ts /\ s.prio = id.priority /\ s.src = id.src
    <3> HIDE DEF id
    <3>1. Samples(r, h) \subseteq
            {[col |-> x[1], value |-> x[2], prio |-> id.priority, src |-> id.src, ts |-> r.ts] :
               x \in DecodeFrame(r, id.pgn)}
      BY <1>2 DEF Samples, id
    <3> QED BY <3>1
  <2> HIDE DEF id
  <2> QED BY <1>0, <2>1, <2>2 DEF Timed, Alike
<1>3. CASE r.proto = "n0183"
  <2>1. \A s \in Samples(r, h) : s.ts = r.ts /\ s.prio = AnyPrio /\ s.src = AnySrc
    <3>1. Samples(r, h) = {[col |-> x[1], value |-> x[2], prio |-> AnyPrio, src |-> AnySrc, ts |-> r.ts] :
                             x \in DecodeSentence(r, r.ts)}
      BY <1>3 DEF Samples
    <3> QED BY <3>1
  <2> QED BY <1>0, <1>1, <2>1 DEF Timed, Alike
<1>4. CASE r.proto \notin {"n2k", "n0183"}
  <2>1. Samples(r, h) = {}
    BY <1>4 DEF Samples
  <2> QED BY <2>1
<1> QED BY <1>2, <1>3, <1>4

(* One record more: its samples against the winners so far. *)
LEMMA RowsWithKeepsBest ==
  ASSUME NEW R, NEW old, BestRows(old, R), NEW i \in Nat,
         \A x \in R : x[1] \in Nat /\ x[1] < i /\ Timed(x[2]),
         NEW S, \A s \in S : Timed(s), \A s, t \in S : Alike(s, t)
  PROVE  BestRows(RowsWith(old, S), R \cup {<<i, s>> : s \in Kept(S)})
<1> DEFINE K == {<<i, s>> : s \in Kept(S)}
           new == RowsWith(old, S)
           taken == {s \in Kept(S) : CellOf(s) \in DOMAIN old => Beats(s, old[CellOf(s)])}
<1>1. new = [c \in DOMAIN old \cup {CellOf(s) : s \in Kept(S)} |->
               IF \E s \in taken : CellOf(s) = c THEN CHOOSE s \in taken : CellOf(s) = c ELSE old[c]]
  BY DEF RowsWith, Kept
<1>2. DOMAIN new = DOMAIN old \cup {CellOf(s) : s \in Kept(S)}
  BY <1>1
<1>3. \A s \in Kept(S) : s \in S
  BY DEF Kept
<1>4. \A y \in K : y[1] = i /\ y[2] \in Kept(S)
  OBVIOUS
<1>5. \A s \in Kept(S) : <<i, s>> \in K /\ <<i, s>>[1] = i /\ <<i, s>>[2] = s
  OBVIOUS
<1>5a. \A c \in DOMAIN new : new[c] = IF \E s \in taken : CellOf(s) = c
                                      THEN CHOOSE s \in taken : CellOf(s) = c ELSE old[c]
  BY <1>1, <1>2
<1>5b. \A s : s \in taken <=> s \in Kept(S) /\ (CellOf(s) \in DOMAIN old => Beats(s, old[CellOf(s)]))
  OBVIOUS
<1> HIDE DEF K, new, taken
<1>6. DOMAIN new = {CellOf(x[2]) : x \in R \cup K}
  <2>1. {CellOf(s) : s \in Kept(S)} = {CellOf(y[2]) : y \in K}
    BY <1>4, <1>5
  <2>2. DOMAIN old = {CellOf(x[2]) : x \in R}
    BY DEF BestRows
  <2> QED BY <1>2, <2>1, <2>2
<1>7. ASSUME NEW c \in DOMAIN new
      PROVE  \E x \in BestIn(R \cup K, c) :
               /\ new[c] = x[2]
               /\ \A y \in BestIn(R \cup K, c) :
                    y[2].ts < x[2].ts \/ (y[2].ts = x[2].ts /\ x[1] <= y[1])
  <2>1. \A y \in R : CellOf(y[2]) = c => c \in DOMAIN old
    BY DEF BestRows
  <2>2. ASSUME c \in DOMAIN old
        PROVE  \E x \in BestIn(R, c) :
                 /\ old[c] = x[2]
                 /\ \A y \in BestIn(R, c) : y[2].ts < x[2].ts \/ (y[2].ts = x[2].ts /\ x[1] <= y[1])
    BY <2>2 DEF BestRows
  <2>3. CASE \E s \in taken : CellOf(s) = c
    <3>1. new[c] \in taken /\ CellOf(new[c]) = c
      BY <1>5a, <2>3
    <3>2. PICK s : s = new[c]
      OBVIOUS
    <3>3. s \in Kept(S) /\ s \in S /\ CellOf(s) = c /\ Timed(s) /\ (c \in DOMAIN old => Beats(s, old[c]))
      BY <1>3, <1>5b, <3>1, <3>2
    <3>4. \A y \in K : y[1] = i /\ Alike(s, y[2])
      BY <1>3, <1>4, <3>3
    <3>5. ASSUME NEW y \in R, CellOf(y[2]) = c
          PROVE  /\ NoWorseDevice(s, y[2])
                 /\ NoWorseDevice(y[2], s) => y[2].ts < s.ts
      <4>1. PICK x \in BestIn(R, c) :
              /\ old[c] = x[2]
              /\ \A z \in BestIn(R, c) : z[2].ts < x[2].ts \/ (z[2].ts = x[2].ts /\ x[1] <= z[1])
        BY <2>1, <2>2, <3>5
      <4>2. Beats(s, x[2])
        BY <2>1, <3>3, <3>5, <4>1
      <4>3. x \in R /\ Timed(x[2]) /\ Timed(y[2]) /\ NoWorseDevice(x[2], y[2])
            /\ \A z \in R : CellOf(z[2]) = c => NoWorseDevice(x[2], z[2])
        BY <3>5, <4>1 DEF BestIn
      <4>4. NoWorseDevice(s, y[2])
        BY <3>3, <4>2, <4>3 DEF Beats, NoWorseDevice, Timed
      <4>5. ASSUME NoWorseDevice(y[2], s) PROVE y[2].ts < s.ts
        <5>1. y[2].prio = x[2].prio /\ y[2].src = x[2].src /\ x[2].ts < s.ts
          BY <3>3, <4>2, <4>3, <4>5 DEF Beats, NoWorseDevice, Timed
        <5>2. y \in BestIn(R, c)
          BY <3>5, <4>3, <5>1 DEF BestIn, NoWorseDevice
        <5>3. y[2].ts <= x[2].ts
          BY <4>1, <4>3, <5>2 DEF Timed
        <5> QED BY <3>3, <4>3, <5>1, <5>3 DEF Timed
      <4> QED BY <4>4, <4>5
    <3>6. PICK x : x = <<i, s>> /\ x \in K /\ x[1] = i /\ x[2] = s
      BY <1>5, <3>3
    <3>7. x \in BestIn(R \cup K, c)
      BY <3>3, <3>4, <3>5, <3>6 DEF BestIn, NoWorseDevice, Alike, Timed
    <3>8. ASSUME NEW y \in BestIn(R \cup K, c)
          PROVE  y[2].ts < x[2].ts \/ (y[2].ts = x[2].ts /\ x[1] <= y[1])
      <4>1. y \in R \cup K /\ CellOf(y[2]) = c /\ NoWorseDevice(y[2], s)
        BY <3>3, <3>6 DEF BestIn
      <4> QED BY <3>4, <3>5, <3>6, <4>1 DEF Alike
    <3> QED BY <3>2, <3>6, <3>7, <3>8
  <2>4. CASE ~\E s \in taken : CellOf(s) = c
    <3>1. new[c] = old[c]
      BY <1>5a, <2>4
    <3>2. c \in DOMAIN old
      BY <1>2, <1>5b, <2>4
    <3>3. PICK x \in BestIn(R, c) :
            /\ old[c] = x[2]
            /\ \A z \in BestIn(R, c) : z[2].ts < x[2].ts \/ (z[2].ts = x[2].ts /\ x[1] <= z[1])
      BY <2>2, <3>2
    <3>4. x \in R /\ CellOf(x[2]) = c /\ Timed(x[2]) /\ x[1] \in Nat /\ x[1] < i
          /\ \A z \in R : CellOf(z[2]) = c => NoWorseDevice(x[2], z[2])
      BY <3>3 DEF BestIn
    <3>5. ASSUME NEW y \in K, CellOf(y[2]) = c
          PROVE  /\ NoWorseDevice(x[2], y[2]) /\ y[1] = i
                 /\ NoWorseDevice(y[2], x[2]) => y[2].ts <= x[2].ts
      <4>1. ~Beats(y[2], x[2]) /\ Timed(y[2]) /\ y[1] = i
        BY <1>3, <1>4, <1>5b, <2>4, <3>2, <3>3, <3>5
      <4> QED BY <3>4, <4>1 DEF Beats, NoWorseDevice, Timed
    <3>6. x \in BestIn(R \cup K, c)
      BY <3>4, <3>5 DEF BestIn
    <3>7. ASSUME NEW y \in BestIn(R \cup K, c)
          PROVE  y[2].ts < x[2].ts \/ (y[2].ts = x[2].ts /\ x[1] <= y[1])
      <4>1. y \in R \cup K /\ CellOf(y[2]) = c /\ \A z \in R : CellOf(z[2]) = c => NoWorseDevice(y[2], z[2])
        BY <3>7 DEF BestIn
      <4>2. CASE y \in R
        <5>1. y \in BestIn(R, c)
          BY <4>1, <4>2 DEF BestIn
        <5> QED BY <3>3, <5>1
      <4>3. CASE y \in K
        <5>1. y[2].ts <= x[2].ts /\ y[1] = i /\ Timed(y[2])
          BY <1>3, <1>4, <3>4, <3>5, <4>1, <4>3
        <5> QED BY <3>4, <5>1 DEF Timed
      <4> QED BY <4>1, <4>2, <4>3
    <3> QED BY <3>1, <3>3, <3>6, <3>7
  <2> QED BY <2>3, <2>4
<1> QED BY <1>6, <1>7 DEF BestRows, K, new

\* What was heard before stands; the message a record begins or ends is all that changes.
LEMMA OpenGrows ==
  ASSUME NEW f \in Seq(Records), NEW r \in Records
  PROVE  /\ \A i \in 1..(Len(f) + 1) : OpenIn(Append(f, r), i) = OpenIn(f, i)
         /\ OpenIn(Append(f, r), Len(f) + 2) = HeldAfterRecord(r, OpenIn(f, Len(f) + 1))
<1> DEFINE n == Len(f)
           g == Append(f, r)
<1>1. n \in Nat /\ Len(g) = n + 1 /\ g[n + 1] = r /\ \A j \in 1..n : g[j] = f[j]
  OBVIOUS
<1> HIDE DEF n, g
<1>2. ASSUME NEW i \in 1..(n + 1) PROVE OpenIn(g, i) = OpenIn(f, i)
  <2>1. \A j \in 1..(i - 1) : g[j] = f[j]
    BY <1>1
  <2>2. i - 1 \in Int /\ \A j \in 1..(i - 1) : j + 1 \in Int /\ \A k \in (j + 1)..(i - 1) : k \in 1..(i - 1)
    BY <1>1
  <2>3. ASSUME NEW m PROVE m \in OpenIn(g, i) <=> m \in OpenIn(f, i)
    <3>1. ASSUME NEW j \in 1..(i - 1)
          PROVE  (\A k \in (j + 1)..(i - 1) : ~(g[k].proto = "n2k" /\ g[k].msg = m /\ g[k].part = "last"))
                 <=> \A k \in (j + 1)..(i - 1) : ~(f[k].proto = "n2k" /\ f[k].msg = m /\ f[k].part = "last")
      BY <2>1, <2>2
    <3> QED BY <2>1, <3>1 DEF OpenIn
  <2> QED BY <2>3
<1>3. \A m : m \in OpenIn(f, n + 1) <=>
        \E j \in 1..n : /\ f[j].proto = "n2k" /\ f[j].msg = m /\ f[j].part = "first"
                        /\ \A k \in (j + 1)..n : ~(f[k].proto = "n2k" /\ f[k].msg = m /\ f[k].part = "last")
  <2>1. (n + 1) - 1 = n
    BY <1>1
  <2> QED BY <2>1 DEF OpenIn
<1>4. \A m : m \in OpenIn(g, n + 2) <=>
        \E j \in 1..(n + 1) :
          /\ g[j].proto = "n2k" /\ g[j].msg = m /\ g[j].part = "first"
          /\ \A k \in (j + 1)..(n + 1) : ~(g[k].proto = "n2k" /\ g[k].msg = m /\ g[k].part = "last")
  <2>1. (n + 2) - 1 = n + 1
    BY <1>1
  <2> QED BY <2>1 DEF OpenIn
<1> DEFINE Begins(m) == r.proto = "n2k" /\ r.msg = m /\ r.part = "first"
           Ends(m) == r.proto = "n2k" /\ r.msg = m /\ r.part = "last"
<1>5. ASSUME NEW m PROVE m \in OpenIn(g, n + 2) <=> Begins(m) \/ (m \in OpenIn(f, n + 1) /\ ~Ends(m))
  <2>1. (n + 1) + 1 .. n + 1 = {} /\ n + 1 \in 1..(n + 1)
    BY <1>1
  <2>2. Begins(m) => m \in OpenIn(g, n + 2)
    BY <1>1, <1>4, <2>1
  <2>3. ASSUME m \in OpenIn(f, n + 1), ~Ends(m) PROVE m \in OpenIn(g, n + 2)
    <3>1. PICK j \in 1..n :
            /\ f[j].proto = "n2k" /\ f[j].msg = m /\ f[j].part = "first"
            /\ \A k \in (j + 1)..n : ~(f[k].proto = "n2k" /\ f[k].msg = m /\ f[k].part = "last")
      BY <1>3, <2>3
    <3>2. j \in 1..(n + 1) /\ g[j] = f[j]
      BY <1>1
    <3>3. ASSUME NEW k \in (j + 1)..(n + 1)
          PROVE  ~(g[k].proto = "n2k" /\ g[k].msg = m /\ g[k].part = "last")
      <4>1. CASE k = n + 1
        BY <1>1, <2>3, <4>1
      <4>2. CASE k # n + 1
        <5>1. k \in (j + 1)..n /\ k \in 1..n
          BY <1>1, <4>2
        <5> QED BY <1>1, <3>1, <5>1
      <4> QED BY <4>1, <4>2
    <3> QED BY <1>4, <3>1, <3>2, <3>3
  <2>4. ASSUME m \in OpenIn(g, n + 2) PROVE Begins(m) \/ (m \in OpenIn(f, n + 1) /\ ~Ends(m))
    <3>1. PICK j \in 1..(n + 1) :
            /\ g[j].proto = "n2k" /\ g[j].msg = m /\ g[j].part = "first"
            /\ \A k \in (j + 1)..(n + 1) : ~(g[k].proto = "n2k" /\ g[k].msg = m /\ g[k].part = "last")
      BY <1>4, <2>4
    <3>2. CASE j = n + 1
      BY <1>1, <3>1, <3>2
    <3>3. CASE j # n + 1
      <4>1. j \in 1..n /\ n + 1 \in (j + 1)..(n + 1)
        BY <1>1, <3>3
      <4>2. ~Ends(m)
        BY <1>1, <3>1, <4>1
      <4>3. \A k \in (j + 1)..n : k \in 1..n /\ k \in (j + 1)..(n + 1)
        BY <1>1, <4>1
      <4>4. m \in OpenIn(f, n + 1)
        BY <1>1, <1>3, <3>1, <4>1, <4>3
      <4> QED BY <4>2, <4>4
    <3> QED BY <3>2, <3>3
  <2> QED BY <2>2, <2>3, <2>4
<1>6. OpenIn(g, n + 2) = HeldAfterRecord(r, OpenIn(f, n + 1))
  <2>1. CASE r.proto # "n2k"
    BY <1>5, <2>1 DEF HeldAfterRecord
  <2>2. CASE r.proto = "n2k" /\ r.part = "first"
    BY <1>5, <2>2 DEF HeldAfterRecord, HeldAfter
  <2>3. CASE r.proto = "n2k" /\ r.part = "last"
    BY <1>5, <2>3 DEF HeldAfterRecord, HeldAfter
  <2>4. CASE r.proto = "n2k" /\ r.part \notin {"first", "last"}
    BY <1>5, <2>4 DEF HeldAfterRecord, HeldAfter
  <2> QED BY <2>1, <2>2, <2>3, <2>4
<1> QED BY <1>2, <1>6 DEF n, g

LEMMA ReadingsGrow ==
  ASSUME NEW f \in Seq(Records), NEW r \in Records, NEW from \in 1..(Len(f) + 1)
  PROVE  ReadingsIn(Append(f, r), from) =
           ReadingsIn(f, from)
             \cup {<<Len(f) + 1, s>> : s \in Kept(Samples(r, OpenIn(f, Len(f) + 1)))}
<1> DEFINE n == Len(f)
           g == Append(f, r)
<1>1. n \in Nat /\ Len(g) = n + 1 /\ g[n + 1] = r /\ \A j \in 1..n : g[j] = f[j]
  OBVIOUS
<1>2. \A i \in 1..(n + 1) : OpenIn(g, i) = OpenIn(f, i)
  BY OpenGrows
<1> HIDE DEF n, g
<1>3. \A i \in 1..n : ReadingsOf(g, i) = ReadingsOf(f, i)
  BY <1>1, <1>2 DEF ReadingsOf
<1>4. ReadingsOf(g, n + 1) = {<<n + 1, s>> : s \in Kept(Samples(r, OpenIn(f, n + 1)))}
  BY <1>1, <1>2 DEF ReadingsOf
<1>5. from \in 1..(n + 1)
  BY DEF n
<1>6. from..(n + 1) = (from..n) \cup {n + 1} /\ from..n \subseteq 1..n
  BY <1>1, <1>5
<1>7. \A x : x \in ReadingsIn(g, from) <=> \E i \in from..(n + 1) : x \in ReadingsOf(g, i)
  BY <1>1 DEF ReadingsIn
<1>8. \A x : x \in ReadingsIn(f, from) <=> \E i \in from..n : x \in ReadingsOf(f, i)
  BY DEF ReadingsIn, n
<1>9. ASSUME NEW x
      PROVE  x \in ReadingsIn(g, from) <=> x \in ReadingsIn(f, from) \/ x \in ReadingsOf(g, n + 1)
  <2>1. n + 1 \in from..(n + 1) /\ from..n \subseteq from..(n + 1)
    BY <1>6
  <2>2. ASSUME x \in ReadingsIn(g, from)
        PROVE  x \in ReadingsIn(f, from) \/ x \in ReadingsOf(g, n + 1)
    <3>1. PICK i \in from..(n + 1) : x \in ReadingsOf(g, i)
      BY <1>7, <2>2
    <3>2. i = n + 1 \/ i \in from..n
      BY <1>6
    <3>3. CASE i \in from..n
      <4>1. i \in 1..n
        BY <1>6, <3>3
      <4>2. x \in ReadingsOf(f, i)
        BY <1>3, <3>1, <4>1
      <4> QED BY <1>8, <3>3, <4>2
    <3> QED BY <3>1, <3>2, <3>3
  <2>3. ASSUME x \in ReadingsIn(f, from) PROVE x \in ReadingsIn(g, from)
    <3>1. PICK i \in from..n : x \in ReadingsOf(f, i)
      BY <1>8, <2>3
    <3>2. i \in 1..n /\ i \in from..(n + 1)
      BY <1>6, <2>1
    <3>3. x \in ReadingsOf(g, i)
      BY <1>3, <3>1, <3>2
    <3> QED BY <1>7, <3>2, <3>3
  <2>4. x \in ReadingsOf(g, n + 1) => x \in ReadingsIn(g, from)
    BY <1>7, <2>1
  <2> QED BY <2>2, <2>3, <2>4
<1>10. ReadingsIn(g, from) = ReadingsIn(f, from) \cup ReadingsOf(g, n + 1)
  BY <1>9
<1>11. ReadingsIn(g, from)
         = ReadingsIn(f, from) \cup {<<n + 1, s>> : s \in Kept(Samples(r, OpenIn(f, n + 1)))}
  BY <1>4, <1>10
<1> QED BY <1>11 DEF n, g

LEMMA ReadingsTyped ==
  ASSUME NEW f \in Seq(Records), NEW from \in 1..(Len(f) + 1)
  PROVE  \A x \in ReadingsIn(f, from) : x[1] \in from..Len(f) /\ Timed(x[2])
<1> SUFFICES ASSUME NEW i \in from..Len(f), NEW x \in ReadingsOf(f, i)
             PROVE  x[1] = i /\ Timed(x[2])
  BY DEF ReadingsIn
<1>1. f[i] \in Records
  <2>1. i \in 1..Len(f)
    OBVIOUS
  <2> QED BY <2>1
<1>2. x[1] = i /\ x[2] \in Samples(f[i], OpenIn(f, i))
  BY DEF ReadingsOf, Kept
<1> QED BY <1>1, <1>2, SamplesAreAlike

\* The decoder holds what began before and has not ended, whichever object it began in.
Bucketed ==
  /\ fed \in Seq(Records) /\ first \in 1..(Len(fed) + 1)
  /\ held = OpenIn(fed, Len(fed) + 1)
  /\ BestRows(rows, ReadingsIn(fed, first))

LEMMA NoRowsAreBest ==
  ASSUME NEW f \in Seq(Records) PROVE BestRows(NoRows, ReadingsIn(f, Len(f) + 1))
<1>1. (Len(f) + 1)..Len(f) = {}
  OBVIOUS
<1>2. ReadingsIn(f, Len(f) + 1) = {}
  BY <1>1 DEF ReadingsIn
<1>3. DOMAIN NoRows = {}
  BY DEF NoRows
<1> QED BY <1>2, <1>3 DEF BestRows

LEMMA BucketedHolds == BucketsSpec => []Bucketed
<1>1. BucketsInit => Bucketed
  <2> SUFFICES ASSUME BucketsInit PROVE Bucketed
    OBVIOUS
  <2>1. fed = <<>> /\ fed \in Seq(Records) /\ Len(fed) = 0 /\ first = Len(fed) + 1 /\ rows = NoRows /\ held = {}
    BY DEF BucketsInit
  <2>2. OpenIn(fed, Len(fed) + 1) = {}
    <3>1. 1..((Len(fed) + 1) - 1) = {}
      BY <2>1
    <3> QED BY <3>1 DEF OpenIn
  <2>3. BestRows(NoRows, ReadingsIn(fed, Len(fed) + 1))
    BY <2>1, NoRowsAreBest
  <2>4. BestRows(rows, ReadingsIn(fed, first))
    BY <2>1, <2>3
  <2>5. first \in 1..(Len(fed) + 1) /\ held = OpenIn(fed, Len(fed) + 1)
    BY <2>1, <2>2
  <2> QED BY <2>1, <2>4, <2>5 DEF Bucketed
<1>2. Bucketed /\ [BucketsNext]_bucketVars => Bucketed'
  <2> SUFFICES ASSUME Bucketed, [BucketsNext]_bucketVars PROVE Bucketed'
    OBVIOUS
  <2>0. Len(fed) \in Nat /\ fed \in Seq(Records)
    BY DEF Bucketed
  <2>1. ASSUME NEW r \in Records, Add(r) PROVE Bucketed'
    <3> DEFINE n == Len(fed)
               S == Samples(r, held)
               K == {<<n + 1, s>> : s \in Kept(S)}
    <3>1. /\ fed' = Append(fed, r) /\ first' = first
          /\ rows' = RowsWith(rows, S) /\ held' = HeldAfterRecord(r, held)
      BY <2>1 DEF Add
    <3>2. fed' \in Seq(Records) /\ Len(fed') = n + 1 /\ first' \in 1..(Len(fed') + 1)
      BY <2>0, <3>1 DEF Bucketed
    <3>3. held' = OpenIn(fed', Len(fed') + 1)
      <4>1. OpenIn(Append(fed, r), n + 2) = HeldAfterRecord(r, held)
        BY <2>0, OpenGrows DEF Bucketed
      <4>2. Len(fed') + 1 = n + 2
        BY <2>0, <3>2
      <4> QED BY <3>1, <4>1, <4>2
    <3>4. ReadingsIn(fed', first') = ReadingsIn(fed, first) \cup K
      BY <2>0, <3>1, ReadingsGrow DEF Bucketed
    <3>5. \A x \in ReadingsIn(fed, first) : x[1] \in Nat /\ x[1] < n + 1 /\ Timed(x[2])
      BY <2>0, ReadingsTyped DEF Bucketed
    <3>6. (\A s \in S : Timed(s)) /\ \A s, t \in S : Alike(s, t)
      BY SamplesAreAlike
    <3>7. BestRows(RowsWith(rows, S), ReadingsIn(fed, first) \cup K)
      <4> HIDE DEF S
      <4> QED BY <2>0, <3>5, <3>6, RowsWithKeepsBest DEF Bucketed
    <3>8. BestRows(rows', ReadingsIn(fed', first'))
      BY <3>1, <3>4, <3>7
    <3> QED BY <3>2, <3>3, <3>8 DEF Bucketed
  <2>2. CASE NewBuckets
    <3>1. rows' = NoRows /\ first' = Len(fed) + 1 /\ fed' = fed /\ held' = held
      BY <2>2 DEF NewBuckets
    <3>2. BestRows(NoRows, ReadingsIn(fed, Len(fed) + 1))
      BY <2>0, NoRowsAreBest
    <3>3. BestRows(rows', ReadingsIn(fed', first'))
      BY <3>1, <3>2
    <3>4. fed' \in Seq(Records) /\ first' \in 1..(Len(fed') + 1) /\ held' = OpenIn(fed', Len(fed') + 1)
      BY <2>0, <3>1 DEF Bucketed
    <3> QED BY <3>3, <3>4 DEF Bucketed
  <2>3. CASE UNCHANGED bucketVars
    BY <2>3 DEF bucketVars, Bucketed
  <2> QED BY <2>1, <2>2, <2>3 DEF BucketsNext
<1> QED BY <1>1, <1>2, PTL DEF BucketsSpec

\* "Choosing between devices": for every grid and every sequence of records and objects, a row holds per
\* column the latest sample of the best device heard in that bucket, the first of equals, out of all
\* readings of the object; those of a message that began in an earlier object are among them.
THEOREM RowsHoldTheBest == BucketsSpec => []RowsAreBest
<1>1. Bucketed => RowsAreBest
  BY RowsAreBestIn DEF Bucketed
<1> QED BY <1>1, BucketedHolds, PTL

----------------------------------------------------------------------------
(* The exporter. *)

\* A key that the listing has still to come to, or that is at hand.
Ahead(e, k) ==
  \/ k \in e.page
  \/ /\ e.prefixes # <<>> /\ Under(e.req.source, Head(e.prefixes), k)
     /\ \A m \in e.page \cup e.after : Precedes(m, k)
  \/ \E i \in 2..Len(e.prefixes) : Under(e.req.source, e.prefixes[i], k)

PlacesOf(w, k) == {i \in DOMAIN w : w[i][1] = k}
Rising(w, k) == \A i, j \in PlacesOf(w, k) : i < j => w[i][2] < w[j][2]
LinesOf(w, k) == {w[i][2] : i \in PlacesOf(w, k)}

PrefixesOf(q) ==
  IF q.source = "raw" THEN {Everything} \cup {{d} : d \in q.since..q.until}
  ELSE {IF q.app = All THEN Everything ELSE {q.app}}
ExportState(q) ==
  [pc : {"list", "get", "write", "finish"}, req : {q},
   after : SUBSET DOMAIN Stored, page : SUBSET DOMAIN Stored, attempt : Nat, line : Nat,
   prefixes : Seq(PrefixesOf(q)),
   began : SUBSET DOMAIN Stored, skipped : SUBSET DOMAIN Stored, torn : BOOLEAN]

\* Prefixes have no key in common; the page is the next of what is left.
Apart(q, ps) ==
  \A i, j \in DOMAIN ps, k \in DOMAIN Stored :
    Under(q.source, ps[i], k) /\ Under(q.source, ps[j], k) => i = j
Listing(e, b) ==
  /\ e.req \in Requests /\ e \in ExportState(e.req) /\ e.began \cup e.page \subseteq b
  /\ Apart(e.req, e.prefixes)
  /\ e.page # {} => /\ e.prefixes # <<>>
                    /\ \A k \in e.page : /\ Under(e.req.source, Head(e.prefixes), k)
                                         /\ \A m \in e.after : Precedes(m, k)
  /\ e.pc \in {"get", "write"} => e.page # {} /\ Current(e) \in Requested(e.req, b)
  /\ e.pc = "finish" => e.page = {} /\ e.prefixes = <<>>

\* Nothing is forgotten: a key of the range is ahead, was skipped, or is out whole.
NoneMissing(e, w) ==
  \A k \in Requested(e.req, e.began) : Ahead(e, k) \/ k \in e.skipped \/ e.torn \/ WholeIn(w, k)
\* Nothing is there that should not: rows are of the range, and of no key ahead but the one at hand.
NoneStray(e, w, b) ==
  \A i \in DOMAIN w :
    /\ w[i][1] \in Requested(e.req, b)
    /\ Ahead(e, w[i][1]) => e.pc = "write" /\ w[i][1] = Current(e)
AtHand(e, w) ==
  e.pc = "write" => /\ e.line \in 1..(Len(Stored[Current(e)]) + 1)
                    /\ LinesOf(w, Current(e)) = 1..(e.line - 1)
                    /\ Rising(w, Current(e))
Going(e, w, t, b) ==
  /\ Listing(e, b) /\ NoneMissing(e, w) /\ NoneStray(e, w, b) /\ AtHand(e, w)
  /\ e.torn => e.skipped # {}
  /\ e.req.file => t = w

ExportInv ==
  /\ bucket \subseteq DOMAIN Stored /\ out \in Seq((DOMAIN Stored) \X Nat)
  /\ exp.pc # "idle" => Going(exp, out, tmp, bucket)
  /\ ExitCodeTellsTruth /\ PathIsWhole

LEMMA PrecedesOrders ==
  ASSUME NEW k \in DOMAIN Stored, NEW m \in DOMAIN Stored, NEW l \in DOMAIN Stored
  PROVE  /\ ~Precedes(k, k) /\ (Precedes(k, m) => ~Precedes(m, k))
         /\ Precedes(k, m) /\ Precedes(m, l) => Precedes(k, l)
BY ExportAssumption DEF Precedes

\* The key at hand is of the page, and the others of the page come after it.
LEMMA CurrentIsFirst ==
  ASSUME NEW e, NEW b, b \subseteq DOMAIN Stored, Listing(e, b), e.page # {}
  PROVE  /\ Current(e) \in e.page /\ Current(e) \in b
         /\ \A m \in e.page \ {Current(e)} : Precedes(Current(e), m)
<1> DEFINE names == {k.name : k \in e.page}
<1>1. e.page \subseteq b /\ \A k \in e.page : k \in DOMAIN Stored /\ k.name \in Nat
  BY ExportAssumption DEF Listing
<1>2. \A k, m \in e.page : k.root = m.root
  BY DEF Listing, Under
<1>3. PICK n \in names : \A x \in names : n <= x
  <2>1. names \subseteq Nat /\ names # {}
    BY <1>1
  <2> HIDE DEF names
  <2> QED BY <2>1, LeastOf
<1>4. PICK k \in e.page : k.name = n
  BY <1>3
<1>5. ASSUME NEW m \in e.page \ {k} PROVE Precedes(k, m)
  <2>1. k.name <= m.name
    BY <1>3, <1>4
  <2>2. k.name # m.name
    BY <1>1, <1>2, <1>5, ExportAssumption
  <2> QED BY <1>1, <2>1, <2>2 DEF Precedes
<1>6. \E x \in e.page : \A m \in e.page \ {x} : Precedes(x, m)
  BY <1>5
<1>7. Current(e) \in e.page /\ \A m \in e.page \ {Current(e)} : Precedes(Current(e), m)
  BY <1>6 DEF Current
<1> QED BY <1>1, <1>7

\* Going on takes the key at hand from those ahead, and no other.
LEMMA OnwardLeavesOne ==
  ASSUME NEW e, NEW b, b \subseteq DOMAIN Stored, Listing(e, b), e.page # {},
         NEW f, f.req = e.req, f.prefixes = e.prefixes,
         f.page = e.page \ {Current(e)}, f.after = {Current(e)}
  PROVE  \A k \in DOMAIN Stored : Ahead(f, k) <=> Ahead(e, k) /\ k # Current(e)
<1> DEFINE c == Current(e)
<1>1. /\ c \in e.page /\ c \in DOMAIN Stored /\ e.page \subseteq DOMAIN Stored
      /\ \A m \in e.page \ {c} : Precedes(c, m)
  BY CurrentIsFirst DEF Listing
<1>2. /\ e.prefixes # <<>> /\ Under(e.req.source, Head(e.prefixes), c)
      /\ \A m \in e.after : Precedes(m, c)
      /\ e.after \subseteq DOMAIN Stored
  BY <1>1 DEF Listing, ExportState
<1>3. \A i \in 2..Len(e.prefixes) : ~Under(e.req.source, e.prefixes[i], c)
  <2> SUFFICES ASSUME NEW i \in 2..Len(e.prefixes), Under(e.req.source, e.prefixes[i], c)
               PROVE  FALSE
    OBVIOUS
  <2>1. e.prefixes \in Seq(PrefixesOf(e.req))
    BY DEF Listing, ExportState
  <2>2. 1 \in DOMAIN e.prefixes /\ i \in DOMAIN e.prefixes /\ Head(e.prefixes) = e.prefixes[1]
    BY <1>2, <2>1
  <2>3. 1 = i
    BY <1>1, <1>2, <2>2 DEF Listing, Apart
  <2> QED BY <2>3
<1> HIDE DEF c
<1> SUFFICES ASSUME NEW k \in DOMAIN Stored
             PROVE  Ahead(f, k) <=> Ahead(e, k) /\ k # c
  BY DEF c
<1>4. f.page = e.page \ {c} /\ f.after = {c}
  BY DEF c
<1>5. ASSUME Ahead(e, k), k # c PROVE Ahead(f, k)
  <2>1. CASE k \in e.page
    BY <1>4, <1>5, <2>1 DEF Ahead
  <2>2. CASE \A m \in e.page \cup e.after : Precedes(m, k)
    <3>1. \A m \in f.page \cup f.after : Precedes(m, k)
      BY <1>1, <1>4, <2>2
    <3> QED BY <1>5, <2>2, <3>1, <1>4 DEF Ahead
  <2> QED BY <1>5, <2>1, <2>2 DEF Ahead
<1>6. ASSUME Ahead(f, k) PROVE Ahead(e, k) /\ k # c
  <2>1. CASE k \in f.page
    BY <1>4, <2>1 DEF Ahead
  <2>2. CASE /\ Under(e.req.source, Head(e.prefixes), k)
             /\ \A m \in f.page \cup f.after : Precedes(m, k)
    <3>1. Precedes(c, k) /\ k # c
      BY <1>1, <1>4, <2>2, PrecedesOrders
    <3>2. \A m \in e.page \cup e.after : Precedes(m, k)
      BY <1>1, <1>2, <1>4, <2>2, <3>1, PrecedesOrders
    <3> QED BY <1>2, <2>2, <3>1, <3>2 DEF Ahead
  <2>3. CASE \E i \in 2..Len(e.prefixes) : Under(e.req.source, e.prefixes[i], k)
    BY <1>3, <2>3 DEF Ahead
  <2> QED BY <1>6, <2>1, <2>2, <2>3 DEF Ahead
<1> QED BY <1>5, <1>6

\* A page taken from what is left of a prefix changes nothing ahead.
LEMMA PageIsAhead ==
  ASSUME NEW e, e.page = {}, e.prefixes # <<>>, bucket \subseteq DOMAIN Stored,
         NEW p \in Pages(Remaining(e.req.source, Head(e.prefixes), e.after)),
         NEW f, f.req = e.req, f.prefixes = e.prefixes, f.page = p, f.after = e.after
  PROVE  \A k \in bucket : Ahead(f, k) <=> Ahead(e, k)
<1> DEFINE left == Remaining(e.req.source, Head(e.prefixes), e.after)
<1>1. p \subseteq left /\ \A k \in p, m \in left \ p : Precedes(k, m)
  BY DEF Pages
<1>2. \A k \in left : Under(e.req.source, Head(e.prefixes), k) /\ \A m \in e.after : Precedes(m, k)
  BY DEF Remaining
<1> SUFFICES ASSUME NEW k \in bucket PROVE Ahead(f, k) <=> Ahead(e, k)
  OBVIOUS
<1>3. k \in left <=>
        Under(e.req.source, Head(e.prefixes), k) /\ \A m \in e.page \cup e.after : Precedes(m, k)
  BY DEF Remaining
<1> HIDE DEF left
<1>4. CASE k \in p
  BY <1>1, <1>3, <1>4 DEF Ahead
<1>5. CASE k \notin p
  <2>1. k \in left => \A m \in p \cup e.after : Precedes(m, k)
    BY <1>1, <1>2, <1>5
  <2> QED BY <1>3, <1>5, <2>1 DEF Ahead
<1> QED BY <1>4, <1>5

\* When a prefix has no key left, the rest of them have all that is ahead.
LEMMA PrefixIsDone ==
  ASSUME NEW e, NEW T, e.prefixes \in Seq(T), e.page = {}, e.prefixes # <<>>,
         Remaining(e.req.source, Head(e.prefixes), e.after) = {},
         NEW f, f.req = e.req, f.prefixes = Tail(e.prefixes), f.page = {}, f.after = {}
  PROVE  \A k \in bucket : Ahead(f, k) <=> Ahead(e, k)
<1> DEFINE s == e.prefixes
           t == f.prefixes
<1>1. /\ Len(s) \in Nat \ {0} /\ Len(t) = Len(s) - 1
      /\ \A i \in 1..Len(t) : t[i] = s[i + 1]
      /\ t # <<>> <=> Len(t) # 0
      /\ t # <<>> => Head(t) = t[1]
  <2>1. t = Tail(s) /\ t \in Seq(T)
    OBVIOUS
  <2>2. /\ Len(s) \in Nat \ {0} /\ Len(t) = Len(s) - 1
        /\ \A i \in 1..Len(t) : t[i] = s[i + 1]
    OBVIOUS
  <2>3. \A u \in Seq(T) : u # <<>> <=> Len(u) # 0
    OBVIOUS
  <2>4. t # <<>> <=> Len(t) # 0
    <3> HIDE DEF t
    <3> QED BY <2>1, <2>3
  <2> QED BY <2>1, <2>2, <2>4
<1> SUFFICES ASSUME NEW k \in bucket PROVE Ahead(f, k) <=> Ahead(e, k)
  OBVIOUS
<1>2. Ahead(e, k) <=> \E i \in 2..Len(s) : Under(e.req.source, s[i], k)
  <2>1. ~(Under(e.req.source, Head(s), k) /\ \A m \in e.page \cup e.after : Precedes(m, k))
    BY DEF Remaining
  <2> QED BY <2>1 DEF Ahead
<1>3. Ahead(f, k) <=> \/ t # <<>> /\ Under(e.req.source, Head(t), k)
                      \/ \E i \in 2..Len(t) : Under(e.req.source, t[i], k)
  BY DEF Ahead
<1> HIDE DEF s, t
<1>4. ASSUME Ahead(e, k) PROVE Ahead(f, k)
  <2>1. PICK i \in 2..Len(s) : Under(e.req.source, s[i], k)
    BY <1>2, <1>4
  <2>2. CASE i = 2
    <3>1. Len(t) # 0 /\ t[1] = s[2]
      BY <1>1, <2>2
    <3> QED BY <1>1, <1>3, <2>1, <2>2, <3>1
  <2>3. CASE i # 2
    <3>1. i - 1 \in 2..Len(t) /\ t[i - 1] = s[i]
      BY <1>1, <2>3
    <3> QED BY <1>3, <2>1, <3>1
  <2> QED BY <2>2, <2>3
<1>5. ASSUME Ahead(f, k) PROVE Ahead(e, k)
  <2>1. CASE t # <<>> /\ Under(e.req.source, Head(t), k)
    <3>1. 2 \in 2..Len(s) /\ Head(t) = s[2]
      BY <1>1, <2>1
    <3> QED BY <1>2, <2>1, <3>1
  <2>2. CASE \E i \in 2..Len(t) : Under(e.req.source, t[i], k)
    <3>1. PICK i \in 2..Len(t) : Under(e.req.source, t[i], k)
      BY <2>2
    <3>2. i + 1 \in 2..Len(s) /\ t[i] = s[i + 1]
      BY <1>1
    <3> QED BY <1>2, <3>1, <3>2
  <2> QED BY <1>3, <1>5, <2>1, <2>2
<1> QED BY <1>4, <1>5

\* What a listing offers and main wants is what the request asks for, unless it raises.
LEMMA WantedIsRequested ==
  ASSUME NEW q \in Requests, NEW p \in PrefixesOf(q), NEW k \in DOMAIN Stored,
         Under(q.source, p, k), ~Raises(k, p, q)
  PROVE  \A K : k \in K => (Wanted(k, p, q) <=> k \in Requested(q, K))
<1>1. CASE q.source = "raw"
  <2>1. CASE p = Everything
    <3>1. Wanted(k, p, q) <=> q.since <= k.day /\ k.day <= q.until /\ q.proto \in {All, k.proto}
      BY <1>1, <2>1 DEF Wanted, RawKeyWanted
    <3> QED BY <1>1, <3>1 DEF Requested, Under
  <2>2. CASE p # Everything
    <3>1. PICK d \in q.since..q.until : p = {d}
      BY <1>1, <2>2 DEF PrefixesOf
    <3>2. k.day = d
      BY <1>1, <2>2, <3>1 DEF Under
    <3>3. q.since <= k.day /\ k.day <= q.until
      BY <3>1, <3>2, ExportAssumption
    <3>4. Wanted(k, p, q) <=> q.proto \in {All, k.proto}
      BY <1>1, <2>2 DEF Wanted, RawKeyWanted
    <3> QED BY <1>1, <3>3, <3>4 DEF Requested, Under
  <2> QED BY <2>1, <2>2
<1>2. CASE q.source = "_log"
  <2>1. Wanted(k, p, q) <=> /\ k.segments \in {5, 6} /\ k.day # 0
                            /\ q.since <= k.day /\ k.day <= q.until
    BY <1>2 DEF Wanted, LogKeyWanted
  <2>2. k.root = "_log" /\ (k.day # 0 => k.segments \in {5, 6})
    BY <1>2, ExportAssumption DEF Under
  <2>3. q.app = All \/ (k.segments = 6 /\ k.app = q.app)
    BY <1>2 DEF Under, PrefixesOf, Everything
  <2> QED BY <1>2, <2>1, <2>2, <2>3 DEF Requested
<1> QED BY <1>1, <1>2, ExportAssumption

\* The prefixes of a request: its own, without a key in common, over all it asks for.
LEMMA PrefixesCover ==
  ASSUME NEW q \in Requests
  PROVE  /\ ExportPrefixes(q) \in Seq(PrefixesOf(q))
         /\ Apart(q, ExportPrefixes(q))
         /\ \A k \in Requested(q, DOMAIN Stored) :
              \E i \in 1..Len(ExportPrefixes(q)) : Under(q.source, ExportPrefixes(q)[i], k)
<1>0. q.since \in Nat \ {0} /\ q.until \in Nat /\ q.source \in {"raw", "_log"}
  BY ExportAssumption
<1>1. ASSUME NEW p \in PrefixesOf(q), ExportPrefixes(q) = <<p>>,
             \A k \in Requested(q, DOMAIN Stored) : Under(q.source, p, k)
      PROVE  /\ ExportPrefixes(q) \in Seq(PrefixesOf(q))
             /\ Apart(q, ExportPrefixes(q))
             /\ \A k \in Requested(q, DOMAIN Stored) :
                  \E i \in 1..Len(ExportPrefixes(q)) : Under(q.source, ExportPrefixes(q)[i], k)
  <2>1. <<p>> \in Seq(PrefixesOf(q)) /\ Len(<<p>>) = 1 /\ DOMAIN <<p>> = {1} /\ <<p>>[1] = p
    OBVIOUS
  <2>2. 1 \in 1..1
    OBVIOUS
  <2> QED BY <1>1, <2>1, <2>2 DEF Apart
<1>2. CASE q.source = "_log"
  <2> DEFINE p == IF q.app = All THEN Everything ELSE {q.app}
  <2>2. p \in PrefixesOf(q) /\ ExportPrefixes(q) = <<p>>
    BY <1>2 DEF PrefixesOf, ExportPrefixes
  <2>3. \A k \in Requested(q, DOMAIN Stored) : Under(q.source, p, k)
    BY <1>2 DEF Requested, Under
  <2> QED BY <1>1, <2>2, <2>3
<1>3. CASE q.source = "raw" /\ ~(q.since <= q.until /\ q.until - q.since + 1 <= MaxDaysToListIndividually)
  <2>1. Everything \in PrefixesOf(q) /\ ExportPrefixes(q) = <<Everything>>
    BY <1>3 DEF PrefixesOf, ExportPrefixes, ListPrefixes
  <2>2. \A k \in Requested(q, DOMAIN Stored) : Under(q.source, Everything, k)
    BY <1>3 DEF Requested, Under
  <2> QED BY <1>1, <2>1, <2>2
<1>4. CASE q.source = "raw" /\ q.since <= q.until /\ q.until - q.since + 1 <= MaxDaysToListIndividually
  <2> DEFINE n == q.until - q.since + 1
             s == [i \in 1..n |-> {q.since + i - 1}]
  <2>1. ExportPrefixes(q) = s
    BY <1>4 DEF ExportPrefixes, ListPrefixes
  <2>2. n \in Nat /\ \A i \in 1..n : q.since + i - 1 \in q.since..q.until
    BY <1>0, <1>4
  <2>3. \A i \in 1..n : s[i] \in PrefixesOf(q)
    BY <1>4, <2>2 DEF PrefixesOf
  <2>4. s \in Seq(PrefixesOf(q)) /\ Len(s) = n /\ DOMAIN s = 1..n
    BY <2>2, <2>3
  <2>5. \A i \in 1..n : \A k : Under(q.source, s[i], k) <=> k.root = "raw" /\ k.day = q.since + i - 1
    BY <1>4 DEF Under, Everything
  <2>6. Apart(q, s)
    <3> SUFFICES ASSUME NEW i \in 1..n, NEW j \in 1..n, NEW k \in DOMAIN Stored,
                        Under(q.source, s[i], k), Under(q.source, s[j], k)
                 PROVE  i = j
      BY <2>4 DEF Apart
    <3>1. q.since + i - 1 = q.since + j - 1
      BY <2>5
    <3> QED BY <1>0, <3>1
  <2>7. ASSUME NEW k \in Requested(q, DOMAIN Stored) PROVE \E i \in 1..n : Under(q.source, s[i], k)
    <3>1. k.root = "raw" /\ q.since <= k.day /\ k.day <= q.until
      BY <1>4 DEF Requested
    <3>2. k.day \in Int
      BY ExportAssumption DEF Requested
    <3>3. k.day - q.since + 1 \in 1..n /\ k.day = q.since + (k.day - q.since + 1) - 1
      BY <1>0, <3>1, <3>2
    <3>4. Under(q.source, s[k.day - q.since + 1], k)
      BY <2>5, <3>1, <3>3
    <3> QED BY <3>3, <3>4
  <2> HIDE DEF s, n
  <2> QED BY <2>1, <2>4, <2>6, <2>7
<1> QED BY <1>0, <1>2, <1>3, <1>4

\* The key at hand is done with: skipped, whole, not wanted, or lost with rows before it.
LEMMA GoesOnward ==
  ASSUME NEW e, NEW w, NEW t, NEW b, b \subseteq DOMAIN Stored, Going(e, w, t, b), e.page # {},
         NEW f \in ExportState(e.req),
         f.pc = "list", f.prefixes = e.prefixes, f.began = e.began,
         f.page = e.page \ {Current(e)}, f.after = {Current(e)}, e.skipped \subseteq f.skipped,
         NEW v, DOMAIN v \subseteq DOMAIN w, \A i \in DOMAIN v : v[i] = w[i],
         f.torn \/ (v = w /\ ~e.torn),
         \/ f.torn \/ Current(e) \in f.skipped \/ WholeIn(v, Current(e))
         \/ Current(e) \notin Requested(e.req, e.began),
         f.torn => f.skipped # {},
         NEW u, e.req.file => u = v
  PROVE  Going(f, v, u, b)
<1> DEFINE c == Current(e)
<1>0. Listing(e, b) /\ NoneMissing(e, w) /\ NoneStray(e, w, b) /\ f.req = e.req
  BY DEF Going, ExportState
<1>1. /\ c \in e.page /\ c \in b
      /\ \A m \in e.page \ {c} : Precedes(c, m)
  BY <1>0, CurrentIsFirst
<1>2. \A k \in DOMAIN Stored : Ahead(f, k) <=> Ahead(e, k) /\ k # c
  BY <1>0, OnwardLeavesOne
<1>3. Listing(f, b)
  <2>1. f.page # {} => /\ f.prefixes # <<>>
                       /\ \A k \in f.page : /\ Under(f.req.source, Head(f.prefixes), k)
                                            /\ \A m \in f.after : Precedes(m, k)
    BY <1>0, <1>1 DEF Listing
  <2>2. f.req \in Requests /\ f.began \cup f.page \subseteq b /\ Apart(f.req, f.prefixes)
    BY <1>0 DEF Listing
  <2> QED BY <1>0, <2>1, <2>2 DEF Listing
<1>4. NoneMissing(f, v)
  <2> SUFFICES ASSUME NEW k \in Requested(e.req, e.began)
               PROVE  Ahead(f, k) \/ k \in f.skipped \/ f.torn \/ WholeIn(v, k)
    BY <1>0 DEF NoneMissing
  <2>1. k \in DOMAIN Stored
    BY <1>0 DEF Requested, Listing
  <2>2. Ahead(e, k) \/ k \in e.skipped \/ e.torn \/ WholeIn(w, k)
    BY <1>0 DEF NoneMissing
  <2>3. CASE k = c
    BY <2>3
  <2>4. CASE k # c
    BY <1>2, <2>1, <2>2, <2>4
  <2> QED BY <2>3, <2>4
<1>5. NoneStray(f, v, b)
  <2> SUFFICES ASSUME NEW i \in DOMAIN v
               PROVE  v[i][1] \in Requested(e.req, b) /\ ~Ahead(f, v[i][1])
    BY <1>0 DEF NoneStray
  <2>1. v[i] = w[i] /\ i \in DOMAIN w
    OBVIOUS
  <2>2. w[i][1] \in Requested(e.req, b) /\ (Ahead(e, w[i][1]) => w[i][1] = c)
    BY <1>0, <2>1 DEF NoneStray
  <2>3. w[i][1] \in DOMAIN Stored
    BY <2>2 DEF Requested
  <2> QED BY <1>2, <2>1, <2>2, <2>3
<1>6. AtHand(f, v)
  BY DEF AtHand
<1> QED BY <1>0, <1>3, <1>4, <1>5, <1>6 DEF Going

\* A row of the key at hand is written.
LEMMA RowIsWritten ==
  ASSUME NEW e, NEW w, NEW t, NEW b, b \subseteq DOMAIN Stored, Going(e, w, t, b), e.pc = "write",
         w \in Seq((DOMAIN Stored) \X Nat), e.line <= Len(Stored[Current(e)]),
         NEW u, e.req.file => u = Append(w, <<Current(e), e.line>>)
  PROVE  /\ Append(w, <<Current(e), e.line>>) \in Seq((DOMAIN Stored) \X Nat)
         /\ Going([e EXCEPT !.line = @ + 1], Append(w, <<Current(e), e.line>>), u, b)
<1> DEFINE c == Current(e)
           v == Append(w, <<c, e.line>>)
           f == [e EXCEPT !.line = @ + 1]
<1>0. /\ Listing(e, b) /\ NoneMissing(e, w) /\ NoneStray(e, w, b) /\ AtHand(e, w)
      /\ e \in ExportState(e.req) /\ e.req \in Requests
  BY DEF Going, Listing
<1>1. c \in e.page /\ c \in DOMAIN Stored /\ c \in Requested(e.req, b)
  BY <1>0, CurrentIsFirst DEF Listing
<1>2. /\ f \in ExportState(e.req) /\ f.line = e.line + 1 /\ f.pc = "write" /\ f.req = e.req
      /\ f.prefixes = e.prefixes /\ f.began = e.began /\ f.page = e.page /\ f.after = e.after
      /\ f.skipped = e.skipped /\ f.torn = e.torn
  <2> USE DEF ExportState
  <2>1. e.line \in Nat /\ e.line + 1 \in Nat
    BY <1>0
  <2>2. f \in ExportState(e.req)
    BY <1>0, <2>1
  <2>3. f.line = e.line + 1
    BY <1>0
  <2> QED BY <1>0, <2>2, <2>3
<1>3. e.line \in 1..(Len(Stored[c]) + 1) /\ LinesOf(w, c) = 1..(e.line - 1) /\ Rising(w, c)
  BY <1>0 DEF AtHand
<1>4. Len(Stored[c]) \in Nat /\ e.line \in Nat /\ e.line <= Len(Stored[c])
  BY <1>1, <1>3, ExportAssumption
<1>5. /\ v \in Seq((DOMAIN Stored) \X Nat) /\ Len(v) = Len(w) + 1 /\ v[Len(w) + 1] = <<c, e.line>>
      /\ DOMAIN w = 1..Len(w) /\ DOMAIN v = 1..(Len(w) + 1) /\ Len(w) \in Nat
      /\ \A i \in DOMAIN w : v[i] = w[i] /\ i \in DOMAIN v
      /\ \A i \in DOMAIN v : i \in DOMAIN w \/ i = Len(w) + 1
      /\ Len(w) + 1 \in DOMAIN v
  BY <1>1, <1>4
<1>6. f.page = e.page /\ Current(f) = c /\ \A k : Ahead(f, k) <=> Ahead(e, k)
  BY <1>2 DEF Current, Ahead
<1> HIDE DEF f, v, c
<1>7. Listing(f, b)
  BY <1>0, <1>1, <1>2, <1>6 DEF Listing, c
<1>8. NoneMissing(f, v)
  <2> SUFFICES ASSUME NEW k \in Requested(e.req, e.began)
               PROVE  Ahead(e, k) \/ k \in e.skipped \/ e.torn \/ WholeIn(v, k)
    BY <1>2, <1>6 DEF NoneMissing
  <2>1. CASE k = c
    BY <1>1, <2>1 DEF Ahead
  <2>2. CASE k # c /\ WholeIn(w, k)
    <3>1. \A i : i \in DOMAIN v /\ v[i][1] = k <=> i \in DOMAIN w /\ w[i][1] = k
      BY <1>5, <2>2
    <3>2. {i \in DOMAIN v : v[i][1] = k} = {i \in DOMAIN w : w[i][1] = k}
      BY <3>1
    <3>3. \A i \in {j \in DOMAIN w : w[j][1] = k} : v[i] = w[i]
      BY <1>5
    <3> QED BY <2>2, <3>2, <3>3 DEF WholeIn
  <2> QED BY <1>0, <2>1, <2>2 DEF NoneMissing
<1>9. NoneStray(f, v, b)
  <2> SUFFICES ASSUME NEW i \in DOMAIN v
               PROVE  v[i][1] \in Requested(e.req, b) /\ (Ahead(e, v[i][1]) => v[i][1] = c)
    BY <1>2, <1>6 DEF NoneStray
  <2>1. CASE i \in DOMAIN w
    BY <1>0, <1>5, <2>1 DEF NoneStray, c
  <2>2. CASE i = Len(w) + 1
    BY <1>1, <1>5, <2>2
  <2> QED BY <1>5, <2>1, <2>2
<1>10. AtHand(f, v)
  <2>1. PlacesOf(v, c) = PlacesOf(w, c) \cup {Len(w) + 1}
    <3>1. \A i : i \in PlacesOf(v, c) <=> i \in PlacesOf(w, c) \/ i = Len(w) + 1
      BY <1>5 DEF PlacesOf
    <3> QED BY <3>1
  <2>2. \A i \in PlacesOf(w, c) : v[i] = w[i] /\ i < Len(w) + 1
    BY <1>5 DEF PlacesOf
  <2>3. \A i \in PlacesOf(w, c) : w[i][2] \in 1..(e.line - 1)
    BY <1>3 DEF LinesOf
  <2>4. LinesOf(v, c) = 1..(f.line - 1)
    <3>1. \A n : n \in LinesOf(v, c) <=> n \in LinesOf(w, c) \/ n = e.line
      BY <1>5, <2>1, <2>2 DEF LinesOf
    <3>2. \A n : n \in 1..(f.line - 1) <=> n \in 1..(e.line - 1) \/ n = e.line
      BY <1>2, <1>4, <1>3
    <3> QED BY <1>3, <3>1, <3>2
  <2>5. Rising(v, c)
    <3> SUFFICES ASSUME NEW i \in PlacesOf(v, c), NEW j \in PlacesOf(v, c), i < j
                 PROVE  v[i][2] < v[j][2]
      BY DEF Rising
    <3>0. i \in PlacesOf(w, c)
      <4>1. j \in 1..(Len(w) + 1) /\ i \in 1..(Len(w) + 1) /\ Len(w) \in Nat
        BY <1>5 DEF PlacesOf
      <4>2. i # Len(w) + 1
        BY <4>1
      <4> QED BY <2>1, <4>2
    <3>1. CASE j \in PlacesOf(w, c)
      BY <1>3, <2>2, <3>0, <3>1 DEF Rising
    <3>2. CASE j = Len(w) + 1
      <4>1. v[j][2] = e.line
        BY <1>5, <3>2
      <4>2. v[i][2] \in 1..(e.line - 1)
        BY <2>2, <2>3, <3>0
      <4> QED BY <1>4, <4>1, <4>2
    <3> QED BY <2>1, <3>1, <3>2
  <2>6. f.line \in 1..(Len(Stored[c]) + 1)
    BY <1>2, <1>3, <1>4
  <2> QED BY <1>6, <2>4, <2>5, <2>6 DEF AtHand
<1>11. (e.torn => e.skipped # {}) /\ (e.req.file => u = v)
  BY DEF Going, v, c
<1>12. Going(f, v, u, b)
  BY <1>2, <1>7, <1>8, <1>9, <1>10, <1>11 DEF Going
<1> QED BY <1>5, <1>12 DEF f, v, c

LEMMA ExportStarts ==
  ASSUME ExportInv, NEW q \in Requests, StartExport(q) PROVE ExportInv'
<1> DEFINE e == exp'
<1>1. /\ exp' = [pc |-> "list", req |-> q, after |-> {}, page |-> {}, attempt |-> 0, line |-> 0,
                 prefixes |-> ExportPrefixes(q), began |-> bucket, skipped |-> {}, torn |-> FALSE]
      /\ out' = <<>> /\ tmp' = (IF q.file THEN <<>> ELSE tmp)
      /\ UNCHANGED <<bucket, path, ended, published>>
  BY DEF StartExport
<1>2. /\ ExportPrefixes(q) \in Seq(PrefixesOf(q)) /\ Apart(q, ExportPrefixes(q))
      /\ \A k \in Requested(q, DOMAIN Stored) :
           \E i \in 1..Len(ExportPrefixes(q)) : Under(q.source, ExportPrefixes(q)[i], k)
  BY PrefixesCover
<1>3. bucket \subseteq DOMAIN Stored
  BY DEF ExportInv
<1>4. /\ e.pc = "list" /\ e.req = q /\ e.after = {} /\ e.page = {} /\ e.prefixes = ExportPrefixes(q)
      /\ e.began = bucket /\ e.skipped = {} /\ e.torn = FALSE /\ e \in ExportState(q)
  BY <1>1, <1>2, <1>3 DEF ExportState
<1> HIDE DEF e
<1>5. Listing(e, bucket)
  BY <1>2, <1>4 DEF Listing
<1>6. NoneMissing(e, <<>>)
  <2> SUFFICES ASSUME NEW k \in Requested(q, bucket) PROVE Ahead(e, k)
    BY <1>4 DEF NoneMissing
  <2>1. PICK i \in 1..Len(e.prefixes) : Under(q.source, e.prefixes[i], k)
    BY <1>2, <1>3, <1>4 DEF Requested
  <2>2. e.prefixes \in Seq(PrefixesOf(q))
    BY <1>2, <1>4
  <2>3. CASE i = 1
    <3>1. e.prefixes # <<>> /\ Head(e.prefixes) = e.prefixes[1]
      BY <2>2
    <3> QED BY <1>4, <2>1, <2>3, <3>1 DEF Ahead
  <2>4. CASE i # 1
    <3>1. i \in 2..Len(e.prefixes)
      BY <2>4
    <3> QED BY <1>4, <2>1, <3>1 DEF Ahead
  <2> QED BY <2>3, <2>4
<1>7. NoneStray(e, <<>>, bucket) /\ AtHand(e, <<>>)
  BY <1>4 DEF NoneStray, AtHand
<1>8. Going(e, <<>>, tmp', bucket)
  BY <1>1, <1>4, <1>5, <1>6, <1>7 DEF Going
<1>9. ExitCodeTellsTruth' /\ PathIsWhole'
  BY <1>1 DEF ExportInv, ExitCodeTellsTruth, PathIsWhole
<1> QED BY <1>1, <1>3, <1>8, <1>9 DEF ExportInv, e

\* What a step leaves alone; the rest is how the export goes on.
LEMMA ExportGoesOn ==
  ASSUME ExportInv, UNCHANGED <<bucket, path, ended, published>>,
         out' \in Seq((DOMAIN Stored) \X Nat), Going(exp', out', tmp', bucket)
  PROVE  ExportInv'
<1>1. ExitCodeTellsTruth' /\ PathIsWhole'
  BY DEF ExportInv, ExitCodeTellsTruth, PathIsWhole
<1> QED BY <1>1 DEF ExportInv

\* The export ends; the exit code speaks of what it has written.
LEMMA ExportEnds ==
  ASSUME ExportInv, exp.pc # "idle", exp' = NoExport, UNCHANGED <<bucket, out>>,
         NEW code, Exits(code), code = 0 => exp.pc = "finish" /\ exp.skipped = {},
         PathIsWhole'
  PROVE  ExportInv'
<1>1. Going(exp, out, tmp, bucket) /\ bucket \subseteq DOMAIN Stored
  BY DEF ExportInv
<1>2. ended' = [pc |-> "exited", code |-> code, req |-> exp.req, began |-> exp.began,
                skipped |-> exp.skipped, out |-> out]
  BY DEF Exits
<1>3. ASSUME code = 0 PROVE Complete([ended' EXCEPT !.skipped = {}], ended'.out)
  <2>1. exp.skipped = {} /\ ~exp.torn /\ exp.page = {} /\ exp.prefixes = <<>>
    BY <1>1, <1>3 DEF Going, Listing
  <2>2. \A k : ~Ahead(exp, k)
    <3>1. 2..Len(exp.prefixes) = {}
      BY <2>1
    <3> QED BY <2>1, <3>1 DEF Ahead
  <2>3. \A k \in Requested(exp.req, exp.began) : WholeIn(out, k)
    BY <1>1, <2>1, <2>2 DEF Going, NoneMissing
  <2>4. \A i \in DOMAIN out : out[i][1] \in Requested(exp.req, DOMAIN Stored)
    BY <1>1 DEF Going, NoneStray, Requested
  <2> QED BY <1>2, <2>3, <2>4 DEF Complete
<1>4. ExitCodeTellsTruth'
  BY <1>2, <1>3 DEF ExitCodeTellsTruth
<1> QED BY <1>4 DEF ExportInv, NoExport

LEMMA PageIsListed ==
  ASSUME ExportInv, ListPage PROVE ExportInv'
<1> DEFINE e == exp
           f == exp'
           left == Remaining(exp.req.source, Head(exp.prefixes), exp.after)
<1>0. /\ exp.pc = "list" /\ exp.page = {} /\ Going(exp, out, tmp, bucket)
      /\ bucket \subseteq DOMAIN Stored /\ out \in Seq((DOMAIN Stored) \X Nat)
      /\ UNCHANGED <<bucket, out, tmp, path, ended, published>>
  BY DEF ListPage, ExportInv
<1>1. /\ Listing(e, bucket) /\ e \in ExportState(e.req) /\ NoneMissing(e, out) /\ NoneStray(e, out, bucket)
      /\ e.prefixes \in Seq(PrefixesOf(e.req))
  BY <1>0 DEF Going, Listing, ExportState
<1>2. ASSUME f.pc \in {"list", "finish"}, f.req = e.req, f.began = e.began, f.skipped = e.skipped,
             f.torn = e.torn, Listing(f, bucket), \A k \in bucket : Ahead(f, k) <=> Ahead(e, k)
      PROVE  ExportInv'
  <2>1. NoneMissing(f, out)
    <3>1. Requested(e.req, e.began) \subseteq bucket
      BY <1>1 DEF Requested, Listing
    <3> QED BY <1>1, <1>2, <3>1 DEF NoneMissing
  <2>2. NoneStray(f, out, bucket)
    <3> SUFFICES ASSUME NEW i \in DOMAIN out
                 PROVE  out[i][1] \in Requested(e.req, bucket) /\ ~Ahead(f, out[i][1])
      BY <1>2 DEF NoneStray
    <3>1. out[i][1] \in Requested(e.req, bucket) /\ ~Ahead(e, out[i][1])
      BY <1>0, <1>1 DEF NoneStray
    <3> QED BY <1>2, <3>1 DEF Requested
  <2>3. AtHand(f, out)
    BY <1>2 DEF AtHand
  <2>4. (f.torn => f.skipped # {}) /\ (f.req.file => tmp = out)
    BY <1>0, <1>2 DEF Going
  <2>5. Going(f, out, tmp, bucket)
    BY <1>2, <2>1, <2>2, <2>3, <2>4 DEF Going
  <2> QED BY <1>0, <2>5, ExportGoesOn
<1>3. CASE e.prefixes = <<>>
  <2>1. f = [e EXCEPT !.pc = "finish"]
    BY <1>3 DEF ListPage
  <2>2. /\ f \in ExportState(e.req) /\ f.pc = "finish" /\ f.req = e.req /\ f.began = e.began
        /\ f.skipped = e.skipped /\ f.torn = e.torn /\ f.page = e.page /\ f.prefixes = e.prefixes
        /\ f.after = e.after
    BY <1>1, <2>1 DEF ExportState
  <2>3. Listing(f, bucket)
    BY <1>0, <1>1, <1>3, <2>2 DEF Listing
  <2>4. \A k : Ahead(f, k) <=> Ahead(e, k)
    BY <2>2 DEF Ahead
  <2> QED BY <1>2, <2>2, <2>3, <2>4
<1>4. CASE e.prefixes # <<>> /\ left = {}
  <2>1. f = [e EXCEPT !.prefixes = Tail(@), !.after = {}]
    <3>1. IF exp.prefixes = <<>> THEN exp' = [exp EXCEPT !.pc = "finish"]
          ELSE IF left = {} THEN exp' = [exp EXCEPT !.prefixes = Tail(@), !.after = {}]
          ELSE \E p \in Pages(left) : exp' = [exp EXCEPT !.page = p]
      BY Zenon DEF ListPage
    <3> HIDE DEF left
    <3> QED BY <1>4, <3>1, Zenon
  <2>2. Tail(e.prefixes) \in Seq(PrefixesOf(e.req))
    <3>1. \A S : \A s \in Seq(S) : s # <<>> => Tail(s) \in Seq(S)
      OBVIOUS
    <3> QED BY <1>1, <1>4, <3>1
  <2>3. /\ f \in ExportState(e.req) /\ f.pc = "list" /\ f.req = e.req /\ f.began = e.began
        /\ f.skipped = e.skipped /\ f.torn = e.torn /\ f.page = {} /\ f.prefixes = Tail(e.prefixes)
        /\ f.after = {}
    BY <1>0, <1>1, <2>1, <2>2 DEF ExportState
  <2>4. Apart(e.req, Tail(e.prefixes))
    <3>1. /\ Len(e.prefixes) \in Nat \ {0} /\ DOMAIN e.prefixes = 1..Len(e.prefixes)
          /\ DOMAIN Tail(e.prefixes) = 1..(Len(e.prefixes) - 1)
          /\ \A i \in DOMAIN Tail(e.prefixes) : Tail(e.prefixes)[i] = e.prefixes[i + 1]
      BY <1>1, <1>4
    <3>2. Apart(e.req, e.prefixes)
      BY <1>1 DEF Listing
    <3> SUFFICES ASSUME NEW i \in DOMAIN Tail(e.prefixes), NEW j \in DOMAIN Tail(e.prefixes),
                        NEW k \in DOMAIN Stored,
                        Under(e.req.source, Tail(e.prefixes)[i], k),
                        Under(e.req.source, Tail(e.prefixes)[j], k)
                 PROVE  i = j
      BY DEF Apart
    <3>3. i + 1 \in DOMAIN e.prefixes /\ j + 1 \in DOMAIN e.prefixes
      BY <3>1
    <3>4. i + 1 = j + 1
      BY <3>1, <3>2, <3>3 DEF Apart
    <3> QED BY <3>1, <3>4
  <2>5. Listing(f, bucket)
    BY <1>1, <2>3, <2>4 DEF Listing
  <2>6. \A k \in bucket : Ahead(f, k) <=> Ahead(e, k)
    BY <1>0, <1>1, <1>4, <2>3, PrefixIsDone
  <2> QED BY <1>2, <2>3, <2>5, <2>6
<1>5. CASE e.prefixes # <<>> /\ left # {}
  <2>1. PICK p \in Pages(left) : f = [e EXCEPT !.page = p]
    BY <1>5 DEF ListPage
  <2>2. p \subseteq left /\ left \subseteq bucket
    BY DEF Pages, Remaining
  <2>3. /\ f \in ExportState(e.req) /\ f.pc = "list" /\ f.req = e.req /\ f.began = e.began
        /\ f.skipped = e.skipped /\ f.torn = e.torn /\ f.page = p /\ f.prefixes = e.prefixes
        /\ f.after = e.after
    BY <1>0, <1>1, <2>1, <2>2 DEF ExportState
  <2>4. \A k \in p : Under(e.req.source, Head(e.prefixes), k) /\ \A m \in e.after : Precedes(m, k)
    BY <2>2 DEF Remaining
  <2>5. Listing(f, bucket)
    BY <1>1, <1>5, <2>2, <2>3, <2>4 DEF Listing
  <2>6. \A k \in bucket : Ahead(f, k) <=> Ahead(e, k)
    BY <1>0, <1>5, <2>3, PageIsAhead
  <2> QED BY <1>2, <2>3, <2>5, <2>6
<1> QED BY <1>3, <1>4, <1>5

LEMMA OnwardKeepsType ==
  ASSUME NEW q, NEW e \in ExportState(q), Current(e) \in DOMAIN Stored
  PROVE  /\ Onward(e) \in ExportState(q) /\ Onward(e).pc = "list" /\ Onward(e).prefixes = e.prefixes
         /\ Onward(e).began = e.began /\ Onward(e).page = e.page \ {Current(e)}
         /\ Onward(e).after = {Current(e)} /\ Onward(e).skipped = e.skipped /\ Onward(e).torn = e.torn
<1> DEFINE c == Current(e)
<1>1. Onward(e) = [e EXCEPT !.pc = "list", !.page = @ \ {c}, !.after = {c}, !.line = 0]
  BY DEF Onward
<1>2. c \in DOMAIN Stored
  OBVIOUS
<1> HIDE DEF c
<1>3. /\ Onward(e) \in ExportState(q) /\ Onward(e).pc = "list" /\ Onward(e).prefixes = e.prefixes
      /\ Onward(e).began = e.began /\ Onward(e).page = e.page \ {c}
      /\ Onward(e).after = {c} /\ Onward(e).skipped = e.skipped /\ Onward(e).torn = e.torn
  <2> DEFINE g == [e EXCEPT !.pc = "list", !.page = @ \ {c}]
             h == [g EXCEPT !.after = {c}, !.line = 0]
  <2>1. /\ g \in ExportState(q) /\ g.pc = "list" /\ g.prefixes = e.prefixes /\ g.began = e.began
        /\ g.page = e.page \ {c} /\ g.skipped = e.skipped /\ g.torn = e.torn
    BY DEF ExportState
  <2>2. Onward(e) = h
    BY <1>1 DEF ExportState
  <2> HIDE DEF g
  <2>3. /\ h \in ExportState(q) /\ h.pc = g.pc /\ h.prefixes = g.prefixes /\ h.began = g.began
        /\ h.page = g.page /\ h.after = {c} /\ h.skipped = g.skipped /\ h.torn = g.torn
    BY <1>2, <2>1 DEF ExportState
  <2> HIDE DEF h
  <2> QED BY <2>1, <2>2, <2>3
<1> QED BY <1>3 DEF c

LEMMA SkipKeepsType ==
  ASSUME NEW q, NEW e \in ExportState(q), Current(e) \in DOMAIN Stored
  PROVE  /\ Skip(e) \in ExportState(q) /\ Skip(e).pc = "list" /\ Skip(e).prefixes = e.prefixes
         /\ Skip(e).began = e.began /\ Skip(e).page = e.page \ {Current(e)}
         /\ Skip(e).after = {Current(e)} /\ Skip(e).skipped = e.skipped \cup {Current(e)}
         /\ Skip(e).torn = e.torn
<1> DEFINE c == Current(e)
           g == [e EXCEPT !.skipped = @ \cup {c}]
<1>1. c \in DOMAIN Stored /\ Skip(e) = Onward(g)
  BY DEF Skip
<1>2. /\ g \in ExportState(q) /\ g.prefixes = e.prefixes /\ g.began = e.began /\ g.page = e.page
      /\ g.skipped = e.skipped \cup {c} /\ g.torn = e.torn
  <2> HIDE DEF c
  <2> QED BY <1>1 DEF ExportState
<1> HIDE DEF g
<1>3. Current(g) = c
  BY <1>2 DEF Current
<1> HIDE DEF c
<1>4. /\ Onward(g) \in ExportState(q) /\ Onward(g).pc = "list" /\ Onward(g).prefixes = g.prefixes
      /\ Onward(g).began = g.began /\ Onward(g).page = g.page \ {c}
      /\ Onward(g).after = {c} /\ Onward(g).skipped = g.skipped /\ Onward(g).torn = g.torn
  BY <1>1, <1>2, <1>3, OnwardKeepsType
<1> QED BY <1>1, <1>2, <1>4 DEF c

LEMMA KeyIsDone ==
  ASSUME ExportInv, exp.pc # "idle", exp.page # {}, UNCHANGED <<bucket, path, ended, published>>,
         \/ exp' = Onward(exp) /\ UNCHANGED <<out, tmp>>
            /\ (Current(exp) \notin Requested(exp.req, exp.began) \/ WholeIn(out, Current(exp)))
         \/ exp' = Skip(exp) /\ UNCHANGED <<out, tmp>>
         \/ exp' = [Skip(exp) EXCEPT !.torn = TRUE] /\ tmp' = out'
            /\ \E n \in 0..Len(out) : out' = SubSeq(out, 1, n)
  PROVE  ExportInv'
<1> DEFINE e == exp
           f == exp'
           c == Current(exp)
<1>0. /\ Going(e, out, tmp, bucket) /\ bucket \subseteq DOMAIN Stored
      /\ out \in Seq((DOMAIN Stored) \X Nat) /\ Len(out) \in Nat
  BY DEF ExportInv
<1>1. Listing(e, bucket) /\ e \in ExportState(e.req) /\ c \in DOMAIN Stored /\ c \in e.page
  BY <1>0, CurrentIsFirst DEF Going, Listing
<1> DEFINE g == [Skip(exp) EXCEPT !.torn = TRUE]
<1>2. /\ f \in ExportState(e.req) /\ f.pc = "list" /\ f.prefixes = e.prefixes /\ f.began = e.began
      /\ f.page = e.page \ {c} /\ f.after = {c} /\ e.skipped \subseteq f.skipped
      /\ exp' = Onward(exp) => f.torn = e.torn /\ f.skipped = e.skipped
      /\ exp' = Skip(exp) => f.torn = e.torn /\ f.skipped = e.skipped \cup {c}
      /\ exp' = g => f.torn /\ f.skipped = e.skipped \cup {c}
  <2> DEFINE Done(x) == /\ x \in ExportState(e.req) /\ x.pc = "list" /\ x.prefixes = e.prefixes
                        /\ x.began = e.began /\ x.page = e.page \ {c} /\ x.after = {c}
                        /\ e.skipped \subseteq x.skipped
  <2>1. Done(Onward(e)) /\ Onward(e).skipped = e.skipped /\ Onward(e).torn = e.torn
    BY <1>1, OnwardKeepsType
  <2>2. Done(Skip(e)) /\ Skip(e).skipped = e.skipped \cup {c} /\ Skip(e).torn = e.torn
    BY <1>1, SkipKeepsType
  <2>3. Done(g) /\ g.skipped = e.skipped \cup {c} /\ g.torn = TRUE
    <3> HIDE DEF c
    <3> QED BY <2>2 DEF ExportState
  <2>4. exp' = Onward(exp) \/ exp' = Skip(exp) \/ exp' = g
    OBVIOUS
  <2> HIDE DEF c, g, Done
  <2>5. Done(f)
    BY <2>1, <2>2, <2>3, <2>4
  <2>6. /\ exp' = Onward(exp) => f.torn = e.torn /\ f.skipped = e.skipped
        /\ exp' = Skip(exp) => f.torn = e.torn /\ f.skipped = e.skipped \cup {c}
        /\ exp' = g => f.torn /\ f.skipped = e.skipped \cup {c}
    BY <2>1, <2>2, <2>3
  <2> QED BY <2>5, <2>6 DEF Done
<1> HIDE DEF g
<1>3. /\ out' \in Seq((DOMAIN Stored) \X Nat) /\ DOMAIN out' \subseteq DOMAIN out
      /\ \A i \in DOMAIN out' : out'[i] = out[i]
  <2>1. CASE \E n \in 0..Len(out) : out' = SubSeq(out, 1, n)
    <3>1. PICK n \in 0..Len(out) : out' = SubSeq(out, 1, n)
      BY <2>1
    <3>2. /\ SubSeq(out, 1, n) \in Seq((DOMAIN Stored) \X Nat) /\ Len(SubSeq(out, 1, n)) = n
          /\ \A i \in 1..n : SubSeq(out, 1, n)[i] = out[i]
      BY <1>0
    <3> QED BY <1>0, <3>1, <3>2
  <2>2. CASE UNCHANGED out
    BY <1>0, <2>2
  <2> QED BY <2>1, <2>2
<1>4. CASE f.torn /\ f.skipped = e.skipped \cup {c} /\ tmp' = out'
  <2>1. Going(f, out', tmp', bucket)
    BY <1>0, <1>1, <1>2, <1>3, <1>4, GoesOnward
  <2> QED BY <1>3, <2>1, ExportGoesOn
<1>5. ASSUME f.torn = e.torn, UNCHANGED <<out, tmp>>,
             c \in f.skipped \/ c \notin Requested(e.req, e.began) \/ WholeIn(out, c)
      PROVE  ExportInv'
  <2>1. (f.torn => f.skipped # {}) /\ (e.req.file => tmp' = out')
    BY <1>0, <1>2, <1>5 DEF Going
  <2>2. f.torn \in BOOLEAN
    BY <1>2 DEF ExportState
  <2>3. Going(f, out', tmp', bucket)
    BY <1>0, <1>1, <1>2, <1>3, <1>5, <2>1, <2>2, GoesOnward
  <2> QED BY <1>3, <2>3, ExportGoesOn
<1>6. CASE exp' = Onward(exp) /\ UNCHANGED <<out, tmp>>
           /\ (c \notin Requested(exp.req, exp.began) \/ WholeIn(out, c))
  BY <1>2, <1>5, <1>6
<1>7. CASE exp' = Skip(exp) /\ UNCHANGED <<out, tmp>>
  BY <1>2, <1>5, <1>7
<1>8. CASE exp' = g /\ tmp' = out'
  BY <1>2, <1>4, <1>8
<1> QED BY <1>6, <1>7, <1>8 DEF g

LEMMA RowsAreWritten ==
  ASSUME ExportInv, WriteRow PROVE ExportInv'
<1> DEFINE k == Current(exp)
           more == exp.line <= Len(Stored[k])
           good == more /\ Writes(exp.req.fmt, Stored[k][exp.line])
<1>1. /\ exp.pc = "write" /\ UNCHANGED <<bucket, path, ended, published>>
      /\ exp' = (IF ~more THEN Onward(exp) ELSE IF good THEN [exp EXCEPT !.line = @ + 1] ELSE Skip(exp))
      /\ out' = (IF good THEN Append(out, <<k, exp.line>>) ELSE out)
      /\ tmp' = (IF exp.req.file THEN out' ELSE tmp)
  BY DEF WriteRow
<1>2. /\ Going(exp, out, tmp, bucket) /\ bucket \subseteq DOMAIN Stored
      /\ out \in Seq((DOMAIN Stored) \X Nat) /\ Listing(exp, bucket) /\ AtHand(exp, out)
      /\ exp.page # {}
  BY <1>1 DEF ExportInv, Going, Listing
<1>3. ~good => UNCHANGED <<out, tmp>>
  BY <1>1, <1>2 DEF Going
<1>4. CASE ~more
  <2>1. Stored[k] \in Seq({"ok", "odd", "bad"}) /\ Len(Stored[k]) \in Nat
        /\ DOMAIN Stored[k] = 1..Len(Stored[k])
    BY <1>2, CurrentIsFirst, ExportAssumption
  <2>2. exp.line \in 1..(Len(Stored[k]) + 1) /\ LinesOf(out, k) = 1..(exp.line - 1) /\ Rising(out, k)
    BY <1>1, <1>2 DEF AtHand
  <2>3. exp.line - 1 = Len(Stored[k])
    BY <1>4, <2>1, <2>2
  <2>4. WholeIn(out, k)
    <3>1. LinesOf(out, k) = DOMAIN Stored[k]
      BY <2>1, <2>2, <2>3
    <3> HIDE DEF k
    <3> QED BY <2>2, <3>1 DEF WholeIn, LinesOf, Rising, PlacesOf
  <2>5. exp' = Onward(exp) /\ UNCHANGED <<out, tmp>>
    BY <1>1, <1>3, <1>4
  <2> QED BY <1>1, <1>2, <2>4, <2>5, KeyIsDone
<1>5. CASE more /\ ~good
  <2>1. exp' = Skip(exp) /\ UNCHANGED <<out, tmp>>
    BY <1>1, <1>3, <1>5
  <2> QED BY <1>1, <1>2, <2>1, KeyIsDone
<1>6. CASE good
  <2>1. exp' = [exp EXCEPT !.line = @ + 1] /\ out' = Append(out, <<k, exp.line>>)
    BY <1>1, <1>6
  <2>2. exp.req.file => tmp' = out'
    BY <1>1
  <2>3. out' \in Seq((DOMAIN Stored) \X Nat) /\ Going(exp', out', tmp', bucket)
    <3>1. /\ exp.line <= Len(Stored[Current(exp)])
          /\ exp.req.file => tmp' = Append(out, <<Current(exp), exp.line>>)
      BY <1>6, <2>1, <2>2
    <3>2. /\ Append(out, <<Current(exp), exp.line>>) \in Seq((DOMAIN Stored) \X Nat)
          /\ Going([exp EXCEPT !.line = @ + 1], Append(out, <<Current(exp), exp.line>>), tmp', bucket)
      BY <1>1, <1>2, <3>1, RowIsWritten
    <3> QED BY <2>1, <3>2
  <2> QED BY <1>1, <2>3, ExportGoesOn
<1> QED BY <1>4, <1>5, <1>6

LEMMA KeyIsTaken ==
  ASSUME ExportInv, NextKeyOfPage PROVE ExportInv'
<1> DEFINE k == Current(exp)
<1>0. /\ exp.pc = "list" /\ exp.page # {} /\ ~Raises(k, Head(exp.prefixes), exp.req)
      /\ exp' = (IF Wanted(k, Head(exp.prefixes), exp.req)
                 THEN [exp EXCEPT !.pc = "get", !.attempt = 1] ELSE Onward(exp))
      /\ UNCHANGED <<bucket, out, tmp, path, ended, published>>
  BY DEF NextKeyOfPage
<1>1. /\ Going(exp, out, tmp, bucket) /\ bucket \subseteq DOMAIN Stored
      /\ out \in Seq((DOMAIN Stored) \X Nat)
      /\ Listing(exp, bucket) /\ exp \in ExportState(exp.req) /\ exp.req \in Requests
  BY <1>0 DEF ExportInv, Going, Listing
<1>2. k \in exp.page /\ k \in bucket /\ k \in DOMAIN Stored
  BY <1>0, <1>1, CurrentIsFirst
<1>3. Head(exp.prefixes) \in PrefixesOf(exp.req) /\ Under(exp.req.source, Head(exp.prefixes), k)
  <2>1. exp.prefixes \in Seq(PrefixesOf(exp.req)) /\ exp.prefixes # <<>>
    BY <1>0, <1>1 DEF Listing, ExportState
  <2>2. Head(exp.prefixes) \in PrefixesOf(exp.req)
    BY <2>1
  <2> QED BY <1>1, <1>2, <2>2 DEF Listing
<1>4. \A K : k \in K => (Wanted(k, Head(exp.prefixes), exp.req) <=> k \in Requested(exp.req, K))
  BY <1>0, <1>1, <1>2, <1>3, WantedIsRequested
<1>5. CASE Wanted(k, Head(exp.prefixes), exp.req)
  <2>1. exp' = [exp EXCEPT !.pc = "get", !.attempt = 1]
    BY <1>0, <1>5
  <2>2. /\ exp' \in ExportState(exp.req) /\ exp'.pc = "get" /\ exp'.req = exp.req
        /\ exp'.prefixes = exp.prefixes /\ exp'.page = exp.page /\ exp'.after = exp.after
        /\ exp'.began = exp.began /\ exp'.skipped = exp.skipped /\ exp'.torn = exp.torn
    BY <1>1, <2>1 DEF ExportState
  <2>3. Current(exp') = k /\ \A x : Ahead(exp', x) <=> Ahead(exp, x)
    BY <2>2 DEF Current, Ahead
  <2>4. Listing(exp', bucket)
    BY <1>0, <1>1, <1>2, <1>4, <1>5, <2>2, <2>3 DEF Listing
  <2>5. NoneMissing(exp', out) /\ NoneStray(exp', out, bucket) /\ AtHand(exp', out)
    BY <1>0, <1>1, <2>2, <2>3 DEF Going, NoneMissing, NoneStray, AtHand
  <2>6. Going(exp', out', tmp', bucket)
    BY <1>0, <1>1, <2>2, <2>4, <2>5 DEF Going
  <2> QED BY <1>0, <1>1, <2>6, ExportGoesOn
<1>6. CASE ~Wanted(k, Head(exp.prefixes), exp.req)
  <2>1. exp.began \subseteq bucket
    BY <1>1 DEF Listing
  <2>2. k \notin Requested(exp.req, exp.began)
    BY <1>2, <1>4, <1>6, <2>1 DEF Requested
  <2> QED BY <1>0, <1>6, <2>2, KeyIsDone
<1> QED BY <1>5, <1>6

LEMMA GetAnswers ==
  ASSUME ExportInv, exp.pc = "get", UNCHANGED <<bucket, out, tmp, path, ended, published>>,
         \/ exp' = [exp EXCEPT !.pc = "write", !.line = 1]
         \/ exp' = [exp EXCEPT !.attempt = @ + 1]
  PROVE  ExportInv'
<1>1. /\ Going(exp, out, tmp, bucket) /\ bucket \subseteq DOMAIN Stored
      /\ out \in Seq((DOMAIN Stored) \X Nat)
      /\ Listing(exp, bucket) /\ exp \in ExportState(exp.req) /\ exp.req \in Requests
  BY DEF ExportInv, Going, Listing
<1>2. /\ exp' \in ExportState(exp.req) /\ exp'.req = exp.req
      /\ exp'.prefixes = exp.prefixes /\ exp'.page = exp.page /\ exp'.after = exp.after
      /\ exp'.began = exp.began /\ exp'.skipped = exp.skipped /\ exp'.torn = exp.torn
      /\ exp'.pc = "get" \/ (exp'.pc = "write" /\ exp'.line = 1)
  <2>1. CASE exp' = [exp EXCEPT !.pc = "write", !.line = 1]
    <3> DEFINE g == [exp EXCEPT !.pc = "write"]
               h == [g EXCEPT !.line = 1]
    <3>1. /\ g \in ExportState(exp.req) /\ g.req = exp.req /\ g.pc = "write"
          /\ g.prefixes = exp.prefixes /\ g.page = exp.page /\ g.after = exp.after
          /\ g.began = exp.began /\ g.skipped = exp.skipped /\ g.torn = exp.torn
      BY <1>1 DEF ExportState
    <3>2. exp' = h
      BY <1>1, <2>1 DEF ExportState
    <3> HIDE DEF g
    <3>3. /\ h \in ExportState(exp.req) /\ h.req = g.req /\ h.pc = g.pc /\ h.line = 1
          /\ h.prefixes = g.prefixes /\ h.page = g.page /\ h.after = g.after
          /\ h.began = g.began /\ h.skipped = g.skipped /\ h.torn = g.torn
      BY <3>1 DEF ExportState
    <3> HIDE DEF h
    <3> QED BY <3>1, <3>2, <3>3
  <2>2. CASE exp' = [exp EXCEPT !.attempt = @ + 1]
    <3>1. exp.attempt \in Nat /\ exp.attempt + 1 \in Nat
      BY <1>1 DEF ExportState
    <3> DEFINE n == exp.attempt + 1
    <3> HIDE DEF n
    <3>2. exp' = [exp EXCEPT !.attempt = n]
      BY <2>2 DEF n
    <3>3. n \in Nat
      BY <3>1 DEF n
    <3> QED BY <1>1, <3>2, <3>3 DEF ExportState
  <2> QED BY <2>1, <2>2
<1>3. Current(exp') = Current(exp) /\ \A x : Ahead(exp', x) <=> Ahead(exp, x)
  BY <1>2 DEF Current, Ahead
<1>4. Listing(exp', bucket)
  BY <1>1, <1>2, <1>3 DEF Listing
<1>5. \A i \in DOMAIN out : out[i][1] \in Requested(exp.req, bucket) /\ ~Ahead(exp, out[i][1])
  BY <1>1 DEF Going, NoneStray
<1>6. NoneMissing(exp', out) /\ NoneStray(exp', out, bucket)
  BY <1>1, <1>2, <1>3, <1>5 DEF Going, NoneMissing, NoneStray
<1>7. AtHand(exp', out)
  <2> SUFFICES ASSUME exp'.line = 1
               PROVE  /\ exp'.line \in 1..(Len(Stored[Current(exp)]) + 1)
                      /\ LinesOf(out, Current(exp)) = 1..(exp'.line - 1)
                      /\ Rising(out, Current(exp))
    BY <1>2, <1>3 DEF AtHand
  <2>1. Current(exp) \in exp.page /\ Current(exp) \in DOMAIN Stored
    BY <1>1, CurrentIsFirst DEF Listing
  <2>2. PlacesOf(out, Current(exp)) = {}
    BY <1>5, <2>1 DEF PlacesOf, Ahead
  <2>3. Len(Stored[Current(exp)]) \in Nat
    BY <2>1, ExportAssumption
  <2>4. LinesOf(out, Current(exp)) = {} /\ 1..(exp'.line - 1) = {}
    BY <2>2 DEF LinesOf
  <2> QED BY <2>2, <2>3, <2>4 DEF Rising
<1>8. Going(exp', out', tmp', bucket)
  BY <1>1, <1>2, <1>4, <1>6, <1>7 DEF Going
<1> QED BY <1>1, <1>8, ExportGoesOn

\* What is at hand is in the bucket: a key more changes nothing for an export under way.
LEMMA MoreKeys ==
  ASSUME NEW e, NEW w, NEW t, NEW b, NEW d, b \subseteq d, Going(e, w, t, b) PROVE Going(e, w, t, d)
<1>1. Requested(e.req, b) \subseteq Requested(e.req, d)
  BY DEF Requested
<1>2. Listing(e, d)
  BY <1>1 DEF Going, Listing
<1>3. NoneStray(e, w, d)
  BY <1>1 DEF Going, NoneStray
<1> QED BY <1>2, <1>3 DEF Going

\* An export that ends with the output file as it was.
LEMMA ExportGivesUp ==
  ASSUME ExportInv, exp.pc # "idle", UNCHANGED <<bucket, out, path, published>>,
         NEW code, code # 0, Exits(code)
  PROVE  ExportInv'
<1>1. PathIsWhole'
  BY DEF ExportInv, PathIsWhole
<1> QED BY <1>1, ExportEnds DEF Exits

LEMMA FileIsPlaced ==
  ASSUME ExportInv, FinishExport PROVE ExportInv'
<1>1. /\ exp.pc = "finish" /\ UNCHANGED <<bucket, out>>
      /\ Exits(IF exp.skipped = {} THEN 0 ELSE 2) /\ Going(exp, out, tmp, bucket)
  BY DEF FinishExport, ExportInv
<1>2. ASSUME exp.req.file PROVE PathIsWhole'
  <2>1. /\ path' = out
        /\ published' = [pc |-> "published", req |-> exp.req, began |-> exp.began,
                         skipped |-> exp.skipped, torn |-> exp.torn]
    BY <1>1, <1>2 DEF FinishExport, Going
  <2>2. \A k : ~Ahead(exp, k)
    <3>1. exp.page = {} /\ exp.prefixes = <<>> /\ 2..Len(exp.prefixes) = {}
      BY <1>1 DEF Going, Listing
    <3> QED BY <3>1 DEF Ahead
  <2>3. exp.torn \/ \A k \in Requested(exp.req, exp.began) \ exp.skipped : WholeIn(out, k)
    BY <1>1, <2>2 DEF Going, NoneMissing
  <2>4. \A i \in DOMAIN out : out[i][1] \in Requested(exp.req, DOMAIN Stored)
    BY <1>1 DEF Going, NoneStray, Requested, ExportInv
  <2>5. published'.torn \/ Complete(published', path')
    BY <2>1, <2>3, <2>4 DEF Complete
  <2>6. published' # NoExport
    BY <2>1 DEF NoExport
  <2> QED BY <2>5, <2>6 DEF PathIsWhole
<1>3. ASSUME ~exp.req.file PROVE PathIsWhole'
  BY <1>3 DEF FinishExport, ExportInv, PathIsWhole
<1>4. PathIsWhole'
  BY <1>2, <1>3
<1> QED BY <1>1, <1>4, ExportEnds DEF Exits

LEMMA ExportInvHolds == ExportSpec => []ExportInv
<1>1. bucket \subseteq DOMAIN Stored /\ ExportInit => ExportInv
  BY DEF ExportInit, ExportInv, ExitCodeTellsTruth, PathIsWhole, NoExport, NoFile
<1>2. ExportInv /\ [ExportNext]_<<bucket, exportVars>> => ExportInv'
  <2> SUFFICES ASSUME ExportInv, [ExportNext]_<<bucket, exportVars>> PROVE ExportInv'
    OBVIOUS
  <2>1. ASSUME NEW q \in Requests, StartExport(q) PROVE ExportInv'
    BY <2>1, ExportStarts
  <2>2. CASE ListPage
    BY <2>2, PageIsListed
  <2>3. CASE ListRaises
    BY <2>3, ExportGivesUp DEF ListRaises, Abort
  <2>4. CASE NextKeyOfPage
    BY <2>4, KeyIsTaken
  <2>5. CASE Get
    BY <2>5, GetAnswers DEF Get
  <2>6. CASE WriteRow
    BY <2>6, RowsAreWritten
  <2>7. CASE DiskFull
    <3>1. exp.page # {}
      BY <2>7 DEF DiskFull, ExportInv, Going, Listing
    <3>2. /\ exp' = [Skip(exp) EXCEPT !.torn = TRUE] /\ tmp' = out' /\ exp.pc # "idle"
          /\ \E n \in 0..Len(out) : out' = SubSeq(out, 1, n)
          /\ UNCHANGED <<bucket, path, ended, published>>
      BY <2>7 DEF DiskFull
    <3> QED BY <3>1, <3>2, KeyIsDone
  <2>8. CASE ReaderGone
    BY <2>8, ExportGivesUp DEF ReaderGone
  <2>9. CASE InterruptExport
    BY <2>9, ExportGivesUp DEF InterruptExport, Abort
  <2>10. CASE FinishExport
    BY <2>10, FileIsPlaced
  <2>11. CASE FinishFails
    BY <2>11, ExportGivesUp DEF FinishFails
  <2>12. CASE KillExport
    BY <2>12 DEF KillExport, ExportInv, NoExport, ExitCodeTellsTruth, PathIsWhole
  <2>13. ASSUME NEW failure \in Failures, GetFails(failure) PROVE ExportInv'
    <3>1. /\ exp.pc = "get" /\ UNCHANGED <<bucket, out, tmp, path, ended, published>>
          /\ exp' = Skip(exp) \/ exp' = [exp EXCEPT !.attempt = @ + 1]
      BY <2>13 DEF GetFails
    <3>2. exp.page # {} /\ exp.pc # "idle"
      BY <3>1 DEF ExportInv, Going, Listing
    <3>3. CASE exp' = Skip(exp)
      BY <3>1, <3>2, <3>3, KeyIsDone
    <3>4. CASE exp' = [exp EXCEPT !.attempt = @ + 1]
      BY <3>1, <3>4, GetAnswers
    <3> QED BY <3>1, <3>3, <3>4
  <2>14. ASSUME NEW k \in DOMAIN Stored, UploadKey(k) PROVE ExportInv'
    <3>1. bucket' = bucket \cup {k} /\ UNCHANGED exportVars
      BY <2>14 DEF UploadKey
    <3>2. bucket \subseteq bucket' /\ bucket' \subseteq DOMAIN Stored
      BY <3>1 DEF ExportInv
    <3>3. exp.pc # "idle" => Going(exp, out, tmp, bucket')
      BY <3>2, MoreKeys DEF ExportInv
    <3> QED BY <3>1, <3>2, <3>3 DEF ExportInv, exportVars, ExitCodeTellsTruth, PathIsWhole
  <2>15. CASE UNCHANGED <<bucket, exportVars>>
    BY <2>15 DEF ExportInv, exportVars, ExitCodeTellsTruth, PathIsWhole
  <2> QED BY <2>1, <2>2, <2>3, <2>4, <2>5, <2>6, <2>7, <2>8, <2>9, <2>10, <2>11, <2>12, <2>13,
             <2>14, <2>15 DEF ExportNext
<1> QED BY <1>1, <1>2, PTL DEF ExportSpec

(* An exporter that exits 0 has written out, whole and once, every object of the range    *)
(* that was there when it started, and nothing out of the range: whatever is uploaded     *)
(* meanwhile, however the keys fall into pages, and whatever fails on the way (export.py, *)
(* main: "Exit 2 means the export is incomplete").                                        *)
THEOREM ExportSpeaksTruth == ExportSpec => []ExitCodeTellsTruth
<1>1. ExportInv => ExitCodeTellsTruth
  BY DEF ExportInv
<1> QED BY <1>1, ExportInvHolds, PTL

(* The output path never holds a truncated file that does not say so: what is there lacks *)
(* only objects that its export counted as failed, or was finished after the disk refused *)
(* a write (export.py, main: the rename after fsync, the .tmp file dropped on any raise). *)
THEOREM OutputIsWhole == ExportSpec => []PathIsWhole
<1>1. ExportInv => PathIsWhole
  BY DEF ExportInv
<1> QED BY <1>1, ExportInvHolds, PTL

----------------------------------------------------------------------------
(* Positions. *)
Lat(type) == <<type, "latitude">>
Lon(type) == <<type, "longitude">>

\* Degrees and minutes at most the limit make hundredths at most the limit's.
LEMMA MinutesFit ==
  ASSUME NEW deg \in Nat, NEW min \in Nat, NEW limit \in Nat, deg * 60 + min <= limit * 60
  PROVE  /\ deg * 100 + (min * 100) \div 60 \in Nat
         /\ deg * 100 + (min * 100) \div 60 <= limit * 100
<1> DEFINE m == (min * 100) \div 60
<1>1. m \in Nat /\ 60 * m <= min * 100
  OBVIOUS
<1> HIDE DEF m
<1>2. deg * 100 + m <= limit * 100
  BY <1>1
<1> QED BY <1>1, <1>2 DEF m

LEMMA OneAngle ==
  ASSUME NEW p, IsAngle(p), NEW limit \in Nat, NEW v \in Degrees(p, limit)
  PROVE  Degrees(p, limit) = {v} /\ v \in Int /\ -(limit * 100) <= v /\ v <= limit * 100
<1>1. PICK q \in p : /\ q.min < 60 /\ q.deg * 60 + q.min <= limit * 60
                     /\ v = (IF q.negative THEN -1 ELSE 1) * (q.deg * 100 + (q.min * 100) \div 60)
  BY DEF Degrees
<1>2. q.deg \in Nat /\ q.min \in Nat /\ q.negative \in BOOLEAN
  BY <1>1 DEF IsAngle
<1> DEFINE n == q.deg * 100 + (q.min * 100) \div 60
<1>3. n \in Nat /\ n <= limit * 100
  BY <1>1, <1>2, MinutesFit
<1>4. v = n \/ v = -n
  <2> HIDE DEF n
  <2>1. v = (IF q.negative THEN -1 ELSE 1) * n
    BY <1>1 DEF n
  <2> QED BY <1>3, <2>1
<1>5. v \in Int /\ -(limit * 100) <= v /\ v <= limit * 100
  <2> HIDE DEF n
  <2> QED BY <1>3, <1>4
<1>6. Degrees(p, limit) = {v}
  <2> SUFFICES ASSUME NEW w \in Degrees(p, limit) PROVE w = v
    OBVIOUS
  <2>1. PICK x \in p : w = (IF x.negative THEN -1 ELSE 1) * (x.deg * 100 + (x.min * 100) \div 60)
    BY DEF Degrees
  <2>2. x = q
    BY <1>1, <2>1 DEF IsAngle
  <2> QED BY <1>1, <2>1, <2>2
<1> QED BY <1>5, <1>6

LEMMA PositionsInRange ==
  ASSUME NEW type \in PositionSentences, NEW v \in Int
  PROVE  /\ -9000 <= v /\ v <= 9000 => InRange(Lat(type), v)
         /\ -18000 <= v /\ v <= 18000 => InRange(Lon(type), v)
<1>1. /\ Lat(type)[1] # "n2k" /\ Lat(type)[2] = "latitude"
      /\ Lon(type)[1] # "n2k" /\ Lon(type)[2] = "longitude"
      /\ Lat(type)[1] # "XDR" /\ Lon(type)[1] # "XDR"
  BY DEF PositionSentences, Lat, Lon
<1>2. ASSUME NEW c, c \in {Lat(type), Lon(type)}
      PROVE  \A id, d : c # Column(id, d) /\ c # Referred(id, d) /\ c # N2k(id)
  <2>1. \A id, d : Column(id, d)[1] = "n2k"
    BY DEF Column
  <2> QED BY <1>1, <1>2, <2>1 DEF Referred, N2k
<1>3. ASSUME NEW g \in Ranges, Lat(type) \in g.cols PROVE g.low = -9000 /\ g.high = 9000
  <2>1. Lat(type) \notin FoldToSigned
    BY <1>1 DEF FoldToSigned
  <2> QED BY <1>1, <1>2, <1>3, <2>1 DEF Ranges
<1>4. ASSUME NEW g \in Ranges, Lon(type) \in g.cols PROVE g.low = -18000 /\ g.high = 18000
  <2>1. Lon(type) \notin FoldToSigned
    BY <1>1 DEF FoldToSigned
  <2> QED BY <1>1, <1>2, <1>4, <2>1 DEF Ranges
<1> QED BY <1>3, <1>4 DEF InRange

\* Nothing but a position sentence fills these columns.
LEMMA FrameHasNoPosition ==
  ASSUME NEW f, NEW pgn, NEW x \in DecodeFrame(f, pgn), NEW type \in PositionSentences
  PROVE  x[1] # Lat(type) /\ x[1] # Lon(type)
<1>1. x[1][1] = "n2k"
  BY DEF DecodeFrame
<1> QED BY <1>1 DEF PositionSentences, Lat, Lon

LEMMA FieldIsNoPosition ==
  ASSUME NEW s, NEW e \in SentenceFields, NEW x \in FieldOf(s, e), NEW type
  PROVE  x[1] # Lat(type) /\ x[1] # Lon(type)
<1>1. e.suffix \notin {"latitude", "longitude"}
  BY DEF SentenceFields, Plain
<1>2. x[1][2] = e.suffix
  BY DEF FieldOf
<1> QED BY <1>1, <1>2 DEF Lat, Lon

LEMMA SentenceHasOnePosition ==
  ASSUME NEW s, NEW ts, NEW type \in PositionSentences, NEW x \in DecodeSentence(s, ts),
         x[1] = Lat(type) \/ x[1] = Lon(type)
  PROVE  s.type = type /\ x \in Position(s) /\ Position(s) \subseteq DecodeSentence(s, ts)
<1>1. s.type # "XDR"
  <2> SUFFICES ASSUME s.type = "XDR" PROVE FALSE
    OBVIOUS
  <2>1. x[1][1] = "XDR"
    BY DEF DecodeSentence
  <2> QED BY <2>1 DEF PositionSentences, Lat, Lon
<1> DEFINE fields == UNION {FieldOf(s, e) : e \in {y \in SentenceFields : y.type = s.type}}
           clock == IF s.type = "RMC" THEN GpsClock(s, ts) ELSE {}
           place == IF s.type \in PositionSentences THEN Position(s) ELSE {}
<1>2. DecodeSentence(s, ts) = fields \cup place \cup clock
  <2>1. x \in DecodeSentence(s, ts)
    OBVIOUS
  <2>2. ~(~s.parses \/ (s.type \in StatusSentences /\ s.status # "A"))
    BY <1>1, <2>1 DEF DecodeSentence
  <2> QED BY <1>1, <2>2 DEF DecodeSentence
<1>3. x \notin fields
  BY FieldIsNoPosition
<1>4. x \notin clock
  <2> SUFFICES ASSUME x \in GpsClock(s, ts) PROVE FALSE
    OBVIOUS
  <2>1. x[1] = <<"RMC", "gps_time">> \/ x[1] = <<"RMC", "clock_offset">>
    BY DEF GpsClock
  <2>2. x[1][2] = "gps_time" \/ x[1][2] = "clock_offset"
    BY <2>1
  <2> QED BY <2>2 DEF Lat, Lon
<1> HIDE DEF fields, clock
<1>5. x \in Position(s) /\ s.type \in PositionSentences
  BY <1>2, <1>3, <1>4
<1>6. x[1][1] = s.type
  BY <1>5 DEF Position
<1>7. s.type = type
  BY <1>6 DEF Lat, Lon
<1> QED BY <1>2, <1>5, <1>7

\* A record that reports this position, and a sample of one of its halves.
Reports(r, type, a, b) ==
  r.proto = "n0183" /\ r.type = type /\ Degrees(r.lat, 90) = {a} /\ Degrees(r.lon, 180) = {b}
Half(col, v, r) == [col |-> col, value |-> v, prio |-> AnyPrio, src |-> AnySrc, ts |-> r.ts]

\* A record has both halves, or neither.
LEMMA HalvesComeTogether ==
  ASSUME NEW r \in Records, NEW open, NEW type \in PositionSentences,
         NEW s \in Samples(r, open), s.col \in {Lat(type), Lon(type)}
  PROVE  \E a, b \in Int :
           /\ Reports(r, type, a, b) /\ InRange(Lat(type), a) /\ InRange(Lon(type), b)
           /\ {x \in Samples(r, open) : x.col = Lat(type)} = {Half(Lat(type), a, r)}
           /\ {x \in Samples(r, open) : x.col = Lon(type)} = {Half(Lon(type), b, r)}
<1>1. r.proto # "n2k"
  <2> SUFFICES ASSUME r.proto = "n2k" PROVE FALSE
    OBVIOUS
  <2>1. PICK x \in DecodeFrame(r, DecodeCanId(r.canId).pgn) : s.col = x[1]
    BY DEF Samples
  <2> QED BY <2>1, FrameHasNoPosition
<1>2. r.proto = "n0183"
  BY <1>1 DEF Samples
<1>3. Samples(r, open) = {Half(x[1], x[2], r) : x \in DecodeSentence(r, r.ts)}
  BY <1>2 DEF Samples, Half
<1>4. PICK x \in DecodeSentence(r, r.ts) : s.col = x[1]
  BY <1>3 DEF Half
<1>5. r.type = type /\ x \in Position(r) /\ Position(r) \subseteq DecodeSentence(r, r.ts)
  BY <1>4, SentenceHasOnePosition
<1>6. PICK a \in Degrees(r.lat, 90), b \in Degrees(r.lon, 180) : TRUE
  BY <1>5 DEF Position
<1>7. IsAngle(r.lat) /\ IsAngle(r.lon)
  BY <1>2, BucketsAssumption
<1>8. /\ Degrees(r.lat, 90) = {a} /\ a \in Int /\ -9000 <= a /\ a <= 9000
      /\ Degrees(r.lon, 180) = {b} /\ b \in Int /\ -18000 <= b /\ b <= 18000
  BY <1>6, <1>7, OneAngle
<1>9. Position(r) = {<<Lat(type), a>>, <<Lon(type), b>>}
  <2>1. Degrees(r.lat, 90) \X Degrees(r.lon, 180) = {<<a, b>>}
    BY <1>8
  <2> QED BY <1>5, <2>1 DEF Position, Lat, Lon
<1>10. Lat(type) # Lon(type)
  BY DEF Lat, Lon
<1>11. \A y \in DecodeSentence(r, r.ts) : /\ y[1] = Lat(type) => y = <<Lat(type), a>>
                                          /\ y[1] = Lon(type) => y = <<Lon(type), b>>
  <2> SUFFICES ASSUME NEW y \in DecodeSentence(r, r.ts), y[1] = Lat(type) \/ y[1] = Lon(type)
               PROVE  /\ y[1] = Lat(type) => y = <<Lat(type), a>>
                      /\ y[1] = Lon(type) => y = <<Lon(type), b>>
    OBVIOUS
  <2>1. y \in Position(r)
    BY SentenceHasOnePosition
  <2> QED BY <1>9, <1>10, <2>1
<1>12. {y \in Samples(r, open) : y.col = Lat(type)} = {Half(Lat(type), a, r)}
  BY <1>3, <1>5, <1>9, <1>11 DEF Half
<1>13. {y \in Samples(r, open) : y.col = Lon(type)} = {Half(Lon(type), b, r)}
  BY <1>3, <1>5, <1>9, <1>11 DEF Half
<1> QED BY <1>2, <1>5, <1>8, <1>12, <1>13, PositionsInRange DEF Reports

\* A cell that one sample reaches at most.
LEMMA CellAfter ==
  ASSUME NEW old, NEW S, NEW c
  PROVE  /\ c \in DOMAIN RowsWith(old, S)
              <=> c \in DOMAIN old \/ \E s \in S : InRange(s.col, s.value) /\ CellOf(s) = c
         /\ (\A s \in S : CellOf(s) # c) /\ c \in DOMAIN old => RowsWith(old, S)[c] = old[c]
         /\ \A s : {x \in S : InRange(x.col, x.value) /\ CellOf(x) = c} = {s} =>
              RowsWith(old, S)[c] = IF c \in DOMAIN old => Beats(s, old[c]) THEN s ELSE old[c]
<1> DEFINE kept == {s \in S : InRange(s.col, s.value)}
           taken == {s \in kept : CellOf(s) \in DOMAIN old => Beats(s, old[CellOf(s)])}
           dom == DOMAIN old \cup {CellOf(s) : s \in kept}
<1>1. RowsWith(old, S) =
        [d \in dom |-> IF \E s \in taken : CellOf(s) = d THEN CHOOSE s \in taken : CellOf(s) = d ELSE old[d]]
  BY DEF RowsWith
<1>2. DOMAIN RowsWith(old, S) = dom
  BY <1>1
<1>3. c \in dom => RowsWith(old, S)[c] =
        IF \E s \in taken : CellOf(s) = c THEN CHOOSE s \in taken : CellOf(s) = c ELSE old[c]
  BY <1>1
<1>4. (\A s \in S : CellOf(s) # c) /\ c \in DOMAIN old => RowsWith(old, S)[c] = old[c]
  BY <1>3
<1>5. ASSUME NEW s, {x \in S : InRange(x.col, x.value) /\ CellOf(x) = c} = {s}
      PROVE  RowsWith(old, S)[c] = IF c \in DOMAIN old => Beats(s, old[c]) THEN s ELSE old[c]
  <2>1. s \in kept /\ CellOf(s) = c /\ c \in dom /\ \A x \in kept : CellOf(x) = c => x = s
    BY <1>5
  <2>2. \A x \in taken : CellOf(x) = c => x = s
    BY <2>1
  <2>3. s \in taken <=> (c \in DOMAIN old => Beats(s, old[c]))
    BY <2>1
  <2> HIDE DEF taken
  <2>4. (\E x \in taken : CellOf(x) = c) <=> s \in taken
    BY <2>1, <2>2
  <2>5. s \in taken => (CHOOSE x \in taken : CellOf(x) = c) = s
    BY <2>1, <2>2
  <2> QED BY <1>3, <2>1, <2>3, <2>4, <2>5
<1> QED BY <1>2, <1>4, <1>5

\* The cells of a position in bucket t are filled by one record since the object began.
Paired(w, f, from, type, t) ==
  LET lat == <<t, Lat(type)>>
      lon == <<t, Lon(type)>>
  IN  lat \in DOMAIN w \/ lon \in DOMAIN w =>
        /\ {lat, lon} \subseteq DOMAIN w
        /\ \E i \in from..Len(f) : \E a, b \in Int :
             /\ Reports(f[i], type, a, b)
             /\ w[lat] = Half(Lat(type), a, f[i]) /\ w[lon] = Half(Lon(type), b, f[i])
Positional ==
  /\ fed \in Seq(Records) /\ first \in 1..(Len(fed) + 1)
  /\ \A type \in PositionSentences : \A t : Paired(rows, fed, first, type, t)

\* The later of two halves is the later of the others, so a record wins both cells or neither.
LEMMA PairsStay ==
  ASSUME NEW old, NEW f \in Seq(Records), NEW from \in 1..(Len(f) + 1), NEW type \in PositionSentences,
         NEW t, Paired(old, f, from, type, t), NEW r \in Records, NEW open
  PROVE  Paired(RowsWith(old, Samples(r, open)), Append(f, r), from, type, t)
<1> DEFINE lat == <<t, Lat(type)>>
           lon == <<t, Lon(type)>>
           S == Samples(r, open)
           new == RowsWith(old, S)
           g == Append(f, r)
<1>1. /\ g \in Seq(Records) /\ Len(g) = Len(f) + 1 /\ g[Len(f) + 1] = r /\ Len(f) \in Nat
      /\ \A i \in from..Len(f) : i \in 1..Len(f) /\ g[i] = f[i] /\ i \in from..Len(g) /\ f[i] \in Records
      /\ Len(f) + 1 \in from..Len(g)
  OBVIOUS
<1>2. \A s : (CellOf(s) = lat <=> Truncate(s.ts) = t /\ s.col = Lat(type))
          /\ (CellOf(s) = lon <=> Truncate(s.ts) = t /\ s.col = Lon(type))
  BY DEF CellOf
<1>3. ASSUME lat \in DOMAIN old \/ lon \in DOMAIN old
      PROVE  /\ {lat, lon} \subseteq DOMAIN old
             /\ \E i \in from..Len(f) : \E a, b \in Int :
                  /\ Reports(f[i], type, a, b)
                  /\ old[lat] = Half(Lat(type), a, f[i]) /\ old[lon] = Half(Lon(type), b, f[i])
  BY <1>3 DEF Paired
<1> HIDE DEF lat, lon, g
<1>4. CASE \A s \in S : CellOf(s) # lat /\ CellOf(s) # lon
  <2>1. (lat \in DOMAIN new <=> lat \in DOMAIN old) /\ (lon \in DOMAIN new <=> lon \in DOMAIN old)
    BY <1>4, CellAfter
  <2>2. (lat \in DOMAIN old => new[lat] = old[lat]) /\ (lon \in DOMAIN old => new[lon] = old[lon])
    BY <1>4, CellAfter
  <2> HIDE DEF new
  <2> SUFFICES ASSUME lat \in DOMAIN new \/ lon \in DOMAIN new
               PROVE  /\ {lat, lon} \subseteq DOMAIN new
                      /\ \E i \in from..Len(g) : \E a, b \in Int :
                           /\ Reports(g[i], type, a, b)
                           /\ new[lat] = Half(Lat(type), a, g[i]) /\ new[lon] = Half(Lon(type), b, g[i])
    BY DEF Paired, lat, lon, g, new
  <2>3. PICK i \in from..Len(f) : \E a, b \in Int :
          /\ Reports(f[i], type, a, b)
          /\ old[lat] = Half(Lat(type), a, f[i]) /\ old[lon] = Half(Lon(type), b, f[i])
    BY <1>3, <2>1
  <2> QED BY <1>1, <1>3, <2>1, <2>2, <2>3
<1>5. CASE \E s \in S : CellOf(s) = lat \/ CellOf(s) = lon
  <2>1. PICK s \in S : Truncate(s.ts) = t /\ s.col \in {Lat(type), Lon(type)}
    BY <1>2, <1>5
  <2>2. PICK a \in Int, b \in Int :
          /\ Reports(r, type, a, b) /\ InRange(Lat(type), a) /\ InRange(Lon(type), b)
          /\ {x \in S : x.col = Lat(type)} = {Half(Lat(type), a, r)}
          /\ {x \in S : x.col = Lon(type)} = {Half(Lon(type), b, r)}
    BY <2>1, HalvesComeTogether
  <2> DEFINE p == Half(Lat(type), a, r)
             q == Half(Lon(type), b, r)
  <2>3. /\ p.ts = r.ts /\ p.prio = AnyPrio /\ p.src = AnySrc /\ p.col = Lat(type) /\ p.value = a
        /\ q.ts = r.ts /\ q.prio = AnyPrio /\ q.src = AnySrc /\ q.col = Lon(type) /\ q.value = b
    BY DEF Half
  <2> HIDE DEF p, q
  <2>4. {x \in S : x.col = Lat(type)} = {p} /\ {x \in S : x.col = Lon(type)} = {q} /\ Truncate(r.ts) = t
    <3>1. s = p \/ s = q
      BY <2>1, <2>2 DEF p, q
    <3> QED BY <2>1, <2>2, <2>3, <3>1 DEF p, q
  <2>5. /\ {x \in S : InRange(x.col, x.value) /\ CellOf(x) = lat} = {p}
        /\ {x \in S : InRange(x.col, x.value) /\ CellOf(x) = lon} = {q}
    BY <1>2, <2>2, <2>3, <2>4
  <2>6. {lat, lon} \subseteq DOMAIN new
    BY <2>5, CellAfter
  <2>7. /\ new[lat] = IF lat \in DOMAIN old => Beats(p, old[lat]) THEN p ELSE old[lat]
        /\ new[lon] = IF lon \in DOMAIN old => Beats(q, old[lon]) THEN q ELSE old[lon]
    <3>1. \A c : \A x : {y \in S : InRange(y.col, y.value) /\ CellOf(y) = c} = {x} =>
            new[c] = IF c \in DOMAIN old => Beats(x, old[c]) THEN x ELSE old[c]
      BY CellAfter
    <3> HIDE DEF new, S
    <3> QED BY <2>5, <3>1
  <2> HIDE DEF new
  <2> SUFFICES \E i \in from..Len(g) : \E c, d \in Int :
                 /\ Reports(g[i], type, c, d)
                 /\ new[lat] = Half(Lat(type), c, g[i]) /\ new[lon] = Half(Lon(type), d, g[i])
    BY <2>6 DEF Paired, lat, lon, g, new
  <2>8. CASE new[lat] = p /\ new[lon] = q
    BY <1>1, <2>2, <2>8 DEF p, q
  <2>9. CASE ~(new[lat] = p /\ new[lon] = q)
    <3>1. lat \in DOMAIN old \/ lon \in DOMAIN old
      BY <2>7, <2>9
    <3>2. PICK i \in from..Len(f) : \E c, d \in Int :
            /\ Reports(f[i], type, c, d)
            /\ old[lat] = Half(Lat(type), c, f[i]) /\ old[lon] = Half(Lon(type), d, f[i])
      BY <1>3, <3>1
    <3>3. /\ old[lat].ts = f[i].ts /\ old[lat].prio = AnyPrio /\ old[lat].src = AnySrc
          /\ old[lon].ts = f[i].ts /\ old[lon].prio = AnyPrio /\ old[lon].src = AnySrc
      BY <3>2 DEF Half
    <3>4. AnyPrio \in Int /\ AnySrc \in Int
      BY DEF AnyPrio, AnySrc
    <3>5. Beats(p, old[lat]) <=> Beats(q, old[lon])
      BY <2>3, <3>3, <3>4 DEF Beats
    <3>6. new[lat] = old[lat] /\ new[lon] = old[lon]
      BY <1>3, <2>7, <2>9, <3>1, <3>5
    <3> QED BY <1>1, <3>2, <3>6
  <2> QED BY <2>8, <2>9
<1> QED BY <1>4, <1>5

LEMMA PositionalHolds == BucketsSpec => []Positional
<1>1. BucketsInit => Positional
  <2> SUFFICES ASSUME BucketsInit PROVE Positional
    OBVIOUS
  <2>1. DOMAIN rows = {}
    BY DEF BucketsInit, NoRows
  <2> QED BY <2>1 DEF BucketsInit, Positional, Paired
<1>2. Positional /\ [BucketsNext]_bucketVars => Positional'
  <2> SUFFICES ASSUME Positional, [BucketsNext]_bucketVars PROVE Positional'
    OBVIOUS
  <2>1. ASSUME NEW r \in Records, Add(r) PROVE Positional'
    <3>1. /\ rows' = RowsWith(rows, Samples(r, held)) /\ fed' = Append(fed, r) /\ first' = first
          /\ fed \in Seq(Records) /\ first \in 1..(Len(fed) + 1)
      BY <2>1 DEF Add, Positional
    <3>2. fed' \in Seq(Records) /\ first' \in 1..(Len(fed') + 1)
      BY <3>1
    <3>3. ASSUME NEW type \in PositionSentences, NEW t PROVE Paired(rows', fed', first', type, t)
      <4>1. Paired(rows, fed, first, type, t)
        BY DEF Positional
      <4>2. Paired(RowsWith(rows, Samples(r, held)), Append(fed, r), first, type, t)
        BY <3>1, <4>1, PairsStay
      <4> QED BY <3>1, <4>2
    <3> QED BY <3>2, <3>3 DEF Positional
  <2>2. CASE NewBuckets
    <3>1. DOMAIN rows' = {}
      BY <2>2 DEF NewBuckets, NoRows
    <3> QED BY <2>2, <3>1 DEF NewBuckets, Positional, Paired
  <2>3. CASE UNCHANGED bucketVars
    BY <2>3 DEF bucketVars, Positional
  <2> QED BY <2>1, <2>2, <2>3 DEF BucketsNext
<1> QED BY <1>1, <1>2, PTL DEF BucketsSpec

(* A row's latitude and longitude are the two halves of one sentence of the object: for   *)
(* any sequence of records, whatever is malformed, out of range or later in the bucket    *)
(* (bucket.py, add: each column is won for itself).                                       *)
THEOREM PositionsStayWhole == BucketsSpec => []PositionIsOneReading
<1>1. Positional => PositionIsOneReading
  <2> SUFFICES ASSUME Positional, NEW type \in PositionSentences, NEW t,
                      <<t, Lat(type)>> \in DOMAIN rows \/ <<t, Lon(type)>> \in DOMAIN rows
               PROVE  /\ {<<t, Lat(type)>>, <<t, Lon(type)>>} \subseteq DOMAIN rows
                      /\ \E i \in first..Len(fed) :
                           /\ fed[i].proto = "n0183" /\ fed[i].type = type
                           /\ Degrees(fed[i].lat, 90) = {rows[<<t, Lat(type)>>].value}
                           /\ Degrees(fed[i].lon, 180) = {rows[<<t, Lon(type)>>].value}
    BY DEF PositionIsOneReading, Lat, Lon
  <2>1. Paired(rows, fed, first, type, t)
    BY DEF Positional
  <2> DEFINE lat == <<t, Lat(type)>>
             lon == <<t, Lon(type)>>
  <2>2. /\ {lat, lon} \subseteq DOMAIN rows
        /\ \E i \in first..Len(fed) : \E a, b \in Int :
             /\ Reports(fed[i], type, a, b)
             /\ rows[lat] = Half(Lat(type), a, fed[i]) /\ rows[lon] = Half(Lon(type), b, fed[i])
    BY <2>1 DEF Paired
  <2> HIDE DEF lat, lon
  <2>3. PICK i \in first..Len(fed) : \E a, b \in Int :
          /\ Reports(fed[i], type, a, b) /\ rows[lat].value = a /\ rows[lon].value = b
    BY <2>2 DEF Half
  <2>4. /\ fed[i].proto = "n0183" /\ fed[i].type = type
        /\ Degrees(fed[i].lat, 90) = {rows[lat].value} /\ Degrees(fed[i].lon, 180) = {rows[lon].value}
    BY <2>3 DEF Reports
  <2> QED BY <2>2, <2>4 DEF lat, lon
<1> QED BY <1>1, PositionalHolds, PTL
=============================================================================
