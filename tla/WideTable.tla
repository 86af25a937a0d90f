----------------------------- MODULE WideTable ------------------------------
(***************************************************************************)
(* The wide Postgres table of nmea2s3-update-pg (pg/table.py): one row per *)
(* time bucket, one column per decoded field, and what one object of the   *)
(* archive does to it.                                                     *)
(*                                                                         *)
(* An object is its rank in the order runs process keys in, that of (day,  *)
(* file name).  Ingested[o, h] is what bucket.py makes of object o when    *)
(* the wire decoder holds the first parts of the messages h: `rows' maps   *)
(* each (bucket, field) with a reading to it, `held' is what the decoder   *)
(* holds afterwards (pg/wire_n2k.py keeps it across objects).              *)
(***************************************************************************)
EXTENDS Naturals

CONSTANTS
  MaxObject,    \* bound: objects the archive may come to hold
  Message,      \* fast-packet messages split over two objects
  Bucket,       \* time buckets, by their ts
  Field,        \* decoded fields, the table's columns, by their sort order
  Null,         \* SQL NULL
  Ingested

Object == 1..MaxObject
Cell == Bucket \X Field

ASSUME WideTableAssumption ==
  /\ MaxObject \in Nat /\ Field \subseteq Nat
  /\ \A o \in Object, h \in SUBSET Message :
       /\ DOMAIN Ingested[o, h].rows \subseteq Cell
       /\ Ingested[o, h].held \subseteq Message

Rows(o, h) == Ingested[o, h].rows

RowTimes(rows) == {c[1] : c \in DOMAIN rows}
Columns(rows) == {c[2] : c \in DOMAIN rows}

\* The cells one write() assigns: every row of the batch, every column of it.
Region(rows) == RowTimes(rows) \X Columns(rows)

\* What it assigns there: an empty CSV field is NULL.
Written(rows, c) == IF c \in DOMAIN rows THEN rows[c] ELSE Null

\* Mutant: every column of the table is listed, NULL where the batch is silent.
MergedAllColumns(table, rows) ==
  [c \in Cell |-> IF c[1] \in RowTimes(rows) THEN Written(rows, c) ELSE table[c]]

(* write: INSERT ... ON CONFLICT (ts) DO UPDATE SET of the batch's columns. *)
Merged(table, rows) ==
  [c \in Cell |-> IF c \in Region(rows) THEN Written(rows, c) ELSE table[c]]

EmptyTable == [c \in Cell |-> Null]
=============================================================================
