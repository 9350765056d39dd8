------------------------------ MODULE MCEchoRpc ------------------------------
(* Instance of EchoRpc for TLC. *)
EXTENDS EchoRpc
=============================================================================
