---------------------------- MODULE MCTimerPrinter ----------------------------
(* Model checking instance of TimerPrinter.                                   *)
EXTENDS TimerPrinter
=============================================================================
