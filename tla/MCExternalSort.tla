--------------------------- MODULE MCExternalSort ---------------------------
(***************************************************************************)
(* Instances of ExternalSort for TLC: rows of two columns, the second of   *)
(* which sets the size of the row so that one to three rows make a run.    *)
(***************************************************************************)
EXTENDS ExternalSort

CONSTANTS
  KeyCount,   \* how many of the columns are sort keys
  SmallBytes, LargeBytes

Columns == 0..1

MCRowSet == {<<a, b>> : a \in Columns, b \in Columns}

MCRowBytes == [row \in MCRowSet |-> IF row[2] = 0 THEN SmallBytes ELSE LargeBytes]

MCSortKeys ==
  SubSeq(<<[idx |-> 1, ascending |-> FALSE], [idx |-> 2, ascending |-> TRUE]>>,
         1, KeyCount)
=============================================================================
