------------------------------ MODULE MCSpool -------------------------------
EXTENDS SpoolAlone

MCRank == [o \in Object |-> IF o = 1 THEN 1 ELSE 2]
MCSize == [o \in Object |-> IF o = 2 THEN 2 ELSE 1]
=============================================================================
