---------------------------- MODULE MCTcpDaytime ----------------------------
(* Model checking instance of TcpDaytime.                                    *)
EXTENDS TcpDaytime
=============================================================================
