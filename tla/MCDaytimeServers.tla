-------------------------- MODULE MCDaytimeServers --------------------------
(* Model checking instance of DaytimeServers.                                *)
EXTENDS DaytimeServers
=============================================================================
