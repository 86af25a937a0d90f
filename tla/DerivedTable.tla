--------------------------- MODULE DerivedTable -----------------------------
(***************************************************************************)
(* What nmea2s3-update-pg promises (pg/update.py, "exactly-once, by        *)
(* object"), whatever breaks, dies or runs beside it: the table changes    *)
(* only by whole objects, and an object enters the ledger only when it has *)
(* been written.                                                           *)
(***************************************************************************)
EXTENDS WideTable

VARIABLES
  table,     \* the wide table
  written,   \* objects written to it at least once
  ledger     \* objects a normal run skips

derivedVars == <<table, written, ledger>>

DerivedInit ==
  /\ table = EmptyTable
  /\ written = {} /\ ledger = {}

WriteObject(o) ==
  /\ \E h \in SUBSET Message : table' = Merged(table, Rows(o, h))
  /\ written' = written \cup {o}
  /\ UNCHANGED ledger

RecordObject(o) ==
  /\ o \in written
  /\ ledger' = ledger \cup {o}
  /\ UNCHANGED <<table, written>>

DerivedNext == \E o \in Object : WriteObject(o) \/ RecordObject(o)

DerivedSpec == DerivedInit /\ [][DerivedNext]_derivedVars
=============================================================================
