----------------------------- MODULE JoinOrder ------------------------------
(***************************************************************************)
(* choose_left_deep_dp_order (database/src/executor.rs): the search for a  *)
(* left-deep order in which to join the leaves of a block.  It keeps the   *)
(* best order found for each set of leaves and extends one set after the   *)
(* other by a leaf that a predicate joins to it.  Costs are floating-point *)
(* estimates from statistics; here any set of leaves may be cheaper by     *)
(* either order, except that two leaves cost the same both ways.           *)
(***************************************************************************)
EXTENDS Naturals, Sequences, FiniteSets, FiniteSetsExt

CONSTANT MaxDpLeaves  \* the search is given up above it: 20 in the code

ASSUME JoinOrderAssumption == MaxDpLeaves \in Nat

VARIABLES
  leaf_count,  \* n: the leaves are 1..n
  joins,       \* the pairs of leaves that a predicate joins
  dp,          \* set of leaves -> the order kept for it, empty for None
  masks        \* the sets that the outer loop has not reached yet

orderVars == <<leaf_count, joins, dp, masks>>

Leaves == 1..leaf_count

Pairs(n) == {{i, j} : i, j \in 1..n} \ {{i} : i \in 1..n}

\* The loop takes the sets as numbers with a bit for each leaf: the greatest leaf
\* that only one of two sets has tells which of them is the smaller number.
SmallerMask(mask, other) ==
  mask # other /\ Max((mask \ other) \cup (other \ mask)) \in other

JoinedTo(leaf, mask) == \E other \in mask : {leaf, other} \in joins

\* Bug: a predicate is found from the side of its left leaf only.
NextLeavesRight(mask) == {leaf \in Leaves \ mask : \E other \in mask :
                            other < leaf /\ {leaf, other} \in joins}

\* The leaves for which step_join_predicates finds something.
NextLeaves(mask) == {leaf \in Leaves \ mask : JoinedTo(leaf, mask)}

\* The single leaves have a plan before the loop starts.
SinglePlans(n) ==
  [mask \in SUBSET (1..n) |-> IF \E leaf \in 1..n : mask = {leaf}
                                THEN <<CHOOSE leaf \in mask : TRUE>> ELSE << >>]

AllMasks(n) == (SUBSET (1..n)) \ {{}}

NoSearch ==
  /\ leaf_count = 0
  /\ joins = {}
  /\ dp = SinglePlans(0)
  /\ masks = {}

StartSearch(n, pairs) ==
  /\ leaf_count' = n
  /\ joins' = pairs
  /\ dp' = SinglePlans(n)
  /\ masks' = AllMasks(n)

\* Bug: the plan of a set is extended by leaves that nothing joins to it.
ExtendableByAny(mask) == IF dp[mask] = << >> THEN {} ELSE Leaves \ mask

Extendable(mask) == IF dp[mask] = << >> THEN {} ELSE NextLeaves(mask)

\* should_replace: a set without a plan takes the first, a set with one may
\* keep it; two leaves cost the same both ways and keep it.
MayReplace(mask, replaced) ==
  \A leaf \in Extendable(mask) :
    IF dp[mask \cup {leaf}] = << >> THEN leaf \in replaced
      ELSE Cardinality(mask) = 1 => leaf \notin replaced

UpdatedDp(mask, replaced) ==
  [set \in DOMAIN dp |->
     IF \E leaf \in replaced : set = mask \cup {leaf}
       THEN Append(dp[mask], CHOOSE leaf \in replaced : set = mask \cup {leaf})
       ELSE dp[set]]

\* One turn of the outer loop, with all turns of the inner one.
ExtendMask ==
  \E mask \in masks :
    /\ \A other \in masks \ {mask} : SmallerMask(mask, other)
    /\ \E replaced \in SUBSET Extendable(mask) :
         /\ MayReplace(mask, replaced)
         /\ dp' = UpdatedDp(mask, replaced)
    /\ masks' = masks \ {mask}
    /\ UNCHANGED <<leaf_count, joins>>

OrderNext ==
  \/ \E n \in 0..MaxDpLeaves : \E pairs \in SUBSET Pairs(n) : StartSearch(n, pairs)
  \/ ExtendMask

OrderSpec == NoSearch /\ [][OrderNext]_orderVars

-----------------------------------------------------------------------------

\* Every set of leaves has at most one order kept for it (executor.rs:1104).
OrderTypeOK ==
  /\ leaf_count \in 0..MaxDpLeaves
  /\ joins \subseteq Pairs(leaf_count)
  /\ dp \in [SUBSET Leaves -> Seq(Leaves)]
  /\ masks \subseteq SUBSET Leaves

WellJoined(order, mask) ==
  /\ \A leaf \in mask : \E k \in 1..Len(order) : order[k] = leaf
  /\ \A k \in 1..Len(order) : order[k] \in mask
  /\ \A j, k \in 1..Len(order) : order[j] = order[k] => j = k
  /\ \A k \in 2..Len(order) : \E j \in 1..(k - 1) : {order[k], order[j]} \in joins

\* An order kept for a set lists the leaves of the set, each once, and each of
\* them but the first is joined by a predicate to one before it: the inner loop
\* skips the others (executor.rs:1133), so no plan of the search has a cross product.
OrdersWellJoined ==
  \A mask \in SUBSET Leaves : dp[mask] # << >> => WellJoined(dp[mask], mask)
=============================================================================
