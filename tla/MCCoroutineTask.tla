--------------------------- MODULE MCCoroutineTask ---------------------------
(* Model checking instance of CoroutineTask.                                 *)
EXTENDS CoroutineTask, TLC

Symmetry == Permutations(Frames) \union Permutations(Tasks) \union Permutations(Threads)
=============================================================================
