--------------------------- MODULE MCTempStorage ---------------------------
(* Instances of TempStorage for TLC. *)
EXTENDS TempStorage, TLC

PageSymmetry == Permutations(Pages)
=============================================================================
