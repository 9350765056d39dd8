--------------------------- MODULE MCResourceLimit ---------------------------
(* Model checking instance of ResourceLimit.                                 *)
EXTENDS ResourceLimit
=============================================================================
