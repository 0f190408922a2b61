--------------------------- MODULE MCScanOperator ---------------------------
(***************************************************************************)
(* An instance of ScanOperator for TLC: up to MaxBlocks blocks of one or   *)
(* two rows, all the ordered tables of these shapes and some unordered     *)
(* ones, and up to two predicates.                                         *)
(***************************************************************************)
EXTENDS ScanOperator

CONSTANTS MaxKey, MaxBlocks

Shapes == UNION {[1..n -> 1..2] : n \in 0..MaxBlocks}

\* The table of that shape whose rows have the keys, in this order.
TableOf(shape, keys) ==
  LET Before(b) == FoldLeft(+, 0, SubSeq(shape, 1, b - 1))
  IN [b \in DOMAIN shape |->
        [r \in 1..shape[b] |-> [key |-> keys[Before(b) + r], id |-> Before(b) + r]]]

Size(shape) == FoldLeft(+, 0, shape)

OrderedKeys(n) == {keys \in [1..n -> 0..MaxKey] : \A i, j \in 1..n : i <= j => keys[i] <= keys[j]}

MCTables ==
  UNION {{TableOf(shape, keys) : keys \in OrderedKeys(Size(shape))} : shape \in Shapes}
    \cup {TableOf(shape, [i \in 1..Size(shape) |-> MaxKey - (i % (MaxKey + 1))]) : shape \in Shapes}

Predicate == [op : Operators, value : 0..MaxKey]

MCPredicateLists ==
  {<< >>} \cup {<<p>> : p \in Predicate} \cup {<<p, q>> : p \in Predicate, q \in {r \in Predicate : r.value = 1}}

\* A predicate on another column, which the second row fails.
MCOtherHolds(row) == row.id # 2
=============================================================================
