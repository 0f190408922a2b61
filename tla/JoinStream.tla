----------------------------- MODULE JoinStream -----------------------------
(***************************************************************************)
(* What a join promises: it delivers every pair of a row of one input and  *)
(* a row of the other that match, and no pair twice.  A join may name the  *)
(* pairs that it mistakes for matches: it delivers no other.  Rows carry   *)
(* their place in their input, so that equal rows are told apart.          *)
(***************************************************************************)
EXTENDS Sequences, SequencesExt

CONSTANTS Matches(_, _)  \* does a left row join a right row?

VARIABLES
  left, right,  \* the inputs
  mistaken,     \* pairs that do not match and may be delivered all the same
  output        \* the pairs delivered so far

Joined ==
  {pair \in ToSet(left) \X ToSet(right) : Matches(pair[1], pair[2])}

JoinInit == output = << >>

Deliver(pair) ==
  /\ pair \in (Joined \cup mistaken) \ ToSet(output)
  /\ output' = Append(output, pair)
  /\ UNCHANGED <<left, right, mistaken>>

JoinNext == \E pair \in Joined \cup mistaken : Deliver(pair)

JoinSpec == JoinInit /\ [][JoinNext]_<<left, right, mistaken, output>>

AllDelivered == Joined \subseteq ToSet(output)
=============================================================================
