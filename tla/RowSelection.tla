---------------------------- MODULE RowSelection ----------------------------
(* Choosing rows, for the joins that test each row of a list in a loop. *)
EXTENDS Naturals, Sequences

\* The elements of a sequence that are chosen, in their order: SelectSeq, with a
\* set for its test and a definition that proofs can unfold.
Among(s, chosen) ==
  LET kept[n \in Nat] ==
        IF n = 0 THEN << >>
        ELSE IF s[n] \in chosen THEN Append(kept[n - 1], s[n]) ELSE kept[n - 1]
  IN kept[Len(s)]
=============================================================================
