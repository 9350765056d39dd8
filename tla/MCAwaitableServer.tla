-------------------------- MODULE MCAwaitableServer --------------------------
(* Model checking instance of AwaitableServer.                               *)
EXTENDS AwaitableServer
=============================================================================
