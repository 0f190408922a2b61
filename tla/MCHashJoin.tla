----------------------------- MODULE MCHashJoin -----------------------------
(* Instances of HashJoin for TLC. *)
EXTENDS HashJoin

\* A residual predicate that some pairs with equal keys do not satisfy.
MCResidual(l, r) == l.id # 2 \/ r.id # 1

AllHashFunctions == [Keys \X (0..MaxDepth) -> 0..NumPartitions - 1]
=============================================================================
