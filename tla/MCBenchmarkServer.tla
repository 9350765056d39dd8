-------------------------- MODULE MCBenchmarkServer --------------------------
(* Instance of BenchmarkServer for TLC.                                      *)
EXTENDS BenchmarkServer
=============================================================================
