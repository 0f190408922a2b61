----------------------------- MODULE MCTempRuns -----------------------------
(* Instances of TempRuns for TLC: two rows, one of which fills a page. *)
EXTENDS TempRuns

CONSTANTS small, large

MCRows == {small, large}

MCRowSize == [row \in MCRows |-> IF row = small THEN 1 ELSE 2]
=============================================================================
