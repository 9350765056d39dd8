--------------------------- MODULE MCFlightStorage ---------------------------
(* Model checking instance of FlightStorage.                                 *)
EXTENDS FlightStorage
=============================================================================
