---------------------------- MODULE SortedStream ----------------------------
(***************************************************************************)
(* What a sort promises: it delivers the rows of its input, each as often  *)
(* as the input has it, and never one row before another that is less.     *)
(***************************************************************************)
EXTENDS Naturals, Sequences, BagsExt, SequencesExt

CONSTANTS Less(_, _)  \* the order of the sort

VARIABLES
  source,  \* the rows of the input
  output   \* the rows delivered so far

Remaining == ToBag(source) (-) ToBag(output)

StreamInit == output = << >>

Deliver(row) ==
  /\ BagIn(row, Remaining)
  /\ \A other \in BagToSet(Remaining) : ~Less(other, row)
  /\ output' = Append(output, row)
  /\ UNCHANGED source

StreamNext == \E row \in BagToSet(Remaining) : Deliver(row)

StreamSpec == StreamInit /\ [][StreamNext]_<<source, output>>
=============================================================================
