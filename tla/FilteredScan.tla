---------------------------- MODULE FilteredScan ----------------------------
(***************************************************************************)
(* What a scan promises: the rows of the table that satisfy the            *)
(* predicates, in the order of the table, and no others.                   *)
(***************************************************************************)
EXTENDS Naturals, Sequences

VARIABLES
  wanted,  \* the rows of the table that satisfy the predicates
  output   \* the rows delivered so far

ScanInit == output = << >>

Deliver ==
  /\ Len(output) < Len(wanted)
  /\ output' = Append(output, wanted[Len(output) + 1])
  /\ UNCHANGED wanted

ScanSpec == ScanInit /\ [][Deliver]_<<wanted, output>>

AllDelivered == output = wanted
=============================================================================
