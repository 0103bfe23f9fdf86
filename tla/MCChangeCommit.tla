--------------------------- MODULE MCChangeCommit ---------------------------
(***************************************************************************)
(* Calls, investigations and keys are interchangeable.                     *)
(***************************************************************************)
EXTENDS ChangeCommit, TLC

Symmetry == Permutations(Callers) \cup Permutations(Investigations) \cup Permutations(Keys)

=============================================================================
