----------------------------- MODULE MCRunStore -----------------------------
(* The store for TLC: symmetry, for the runs that check no liveness.  Runs *)
(* are alike where none of them is an old row.                             *)
EXTENDS RunStoreProps, TLC

Symmetry == Permutations(Worker)

RunSymmetry == Symmetry \cup Permutations(Run)
=============================================================================
