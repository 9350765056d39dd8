-------------------------- MODULE MCDatasetExample --------------------------
(* Instance of DatasetExample for TLC. *)
EXTENDS DatasetExample, TLC

Symmetry == Permutations(Procs)
=============================================================================
