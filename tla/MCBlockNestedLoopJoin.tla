----------------------- MODULE MCBlockNestedLoopJoin -----------------------
(* An instance of BlockNestedLoopJoin for TLC: the join of l.value < r.value. *)
EXTENDS BlockNestedLoopJoin

MCPredicate(l, r) == l.value < r.value

MCRowBytes == [value \in Values |-> 1 + value]
=============================================================================
