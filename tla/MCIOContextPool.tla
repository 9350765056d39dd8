--------------------------- MODULE MCIOContextPool ---------------------------
(* Model checking instance of IOContextPool: the .cfg files give the sizes.  *)
EXTENDS IOContextPool
=============================================================================
