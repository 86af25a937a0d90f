------------------------------ MODULE Buckets -------------------------------
(***************************************************************************)
(* Archive records -> one wide row per time bucket (pg/bucket.py): per     *)
(* bucket and column the winning sample.  A run of nmea2s3-update-pg makes *)
(* a Buckets for each object, while the wire decoder lives as long as the  *)
(* process.                                                                *)
(***************************************************************************)
EXTENDS Decode, Functions, SequencesExt

CONSTANTS
  Records,      \* what the archive may hold
  Step,         \* --bucket, in seconds
  MaxRecords    \* bound: records of a behaviour

ASSUME BucketsAssumption ==
  /\ Step \in Nat \ {0}
  /\ \A r \in Records : /\ r.ts \in Int /\ (r.proto = "n2k" => r.canId \in Nat)
                        /\ r.proto = "n0183" => IsAngle(r.lat) /\ IsAngle(r.lon)

VARIABLES
  rows,         \* self._rows: <<bucket, column>> -> the winning sample
  droppedOutOfRange,   \* self.dropped_out_of_range
  held,         \* first parts held by wire_n2k._decoder
  fed,          \* history: records fed to the decoder, in order
  first         \* history: where in `fed' the current object begins

bucketVars == <<rows, droppedOutOfRange, held, fed, first>>

NoRows == [c \in {} |-> 0]

BucketsInit ==
  rows = NoRows /\ droppedOutOfRange = 0 /\ held = {} /\ fed = <<>> /\ first = 1

(* truncate: floored onto a grid anchored at the epoch.                   *)
Truncate(ts) == ts - (ts % Step)

CellOf(s) == <<Truncate(s.ts), s.col>>

\* Mutant: time first, then the device.
BeatsByTime(s, t) ==
  s.ts > t.ts \/ (s.ts = t.ts /\ (s.prio < t.prio \/ (s.prio = t.prio /\ s.src < t.src)))

(* key > current[:3]: device first, sample second; the first of equals stays. *)
Beats(s, t) ==
  \/ s.prio < t.prio
  \/ s.prio = t.prio /\ s.src < t.src
  \/ s.prio = t.prio /\ s.src = t.src /\ s.ts > t.ts

\* add: the samples of one record against the rows so far.
RowsWith(old, samples) ==
  LET kept == {s \in samples : InRange(s.col, s.value)}
      taken == {s \in kept : CellOf(s) \in DOMAIN old => Beats(s, old[CellOf(s)])}
  IN  [c \in DOMAIN old \cup {CellOf(s) : s \in kept} |->
         IF \E s \in taken : CellOf(s) = c THEN CHOOSE s \in taken : CellOf(s) = c ELSE old[c]]

(* Buckets.add, called by ingest_object for each record in turn.          *)
Add(r) ==
  /\ Len(fed) < MaxRecords
  /\ rows' = RowsWith(rows, Samples(r, held))
  /\ droppedOutOfRange' = droppedOutOfRange + Cardinality({s \in Samples(r, held) : ~InRange(s.col, s.value)})
  /\ held' = HeldAfterRecord(r, held)
  /\ fed' = Append(fed, r)
  /\ UNCHANGED first

(* run: a Buckets for the next object; _decoder goes on.                  *)
NewBuckets ==
  /\ first <= Len(fed)
  /\ rows' = NoRows /\ droppedOutOfRange' = 0
  /\ first' = Len(fed) + 1
  /\ UNCHANGED <<held, fed>>

BucketsNext == NewBuckets \/ \E r \in Records : Add(r)

BucketsSpec == BucketsInit /\ [][BucketsNext]_bucketVars

----------------------------------------------------------------------------
\* The messages whose first part came before record i, none of theirs since.
OpenAt(i) ==
  {m \in {fed[j].msg : j \in {k \in 1..(i - 1) : fed[k].proto = "n2k"}} :
     \E j \in 1..(i - 1) :
       /\ fed[j].proto = "n2k" /\ fed[j].msg = m /\ fed[j].part = "first"
       /\ \A k \in (j + 1)..(i - 1) :
            ~(fed[k].proto = "n2k" /\ fed[k].msg = m /\ fed[k].part = "last")}

\* Every possible reading of the current object, with its place.
Readings ==
  UNION {{<<i, s>> : s \in {x \in Samples(fed[i], OpenAt(i)) : InRange(x.col, x.value)}} :
           i \in first..Len(fed)}

\* "Choosing between devices": a row holds, per column, the latest sample of
\* the best device heard in that bucket, whatever order they came in, and a
\* message begun in the object before is among them.
BestDevice(c) ==
  {x \in Readings : CellOf(x[2]) = c /\
     \A y \in Readings : CellOf(y[2]) = c =>
       x[2].prio < y[2].prio \/ (x[2].prio = y[2].prio /\ x[2].src <= y[2].src)}
RowsAreBest ==
  /\ DOMAIN rows = {CellOf(x[2]) : x \in Readings}
  /\ \A c \in DOMAIN rows :
       \E x \in BestDevice(c) :
         /\ rows[c] = x[2]
         /\ \A y \in BestDevice(c) : y[2].ts < x[2].ts \/ (y[2].ts = x[2].ts /\ x[1] <= y[1])

\* "The two halves are one reading": a row's position is one that was reported.
PositionIsOneReading ==
  \A type \in PositionSentences, t \in {c[1] : c \in DOMAIN rows} :
    LET lat == <<t, <<type, "latitude">>>>
        lon == <<t, <<type, "longitude">>>>
    IN  lat \in DOMAIN rows \/ lon \in DOMAIN rows =>
          /\ {lat, lon} \subseteq DOMAIN rows
          /\ \E i \in first..Len(fed) :
               /\ fed[i].proto = "n0183" /\ fed[i].type = type
               /\ Degrees(fed[i].lat, 90) = {rows[lat].value}
               /\ Degrees(fed[i].lon, 180) = {rows[lon].value}
=============================================================================
