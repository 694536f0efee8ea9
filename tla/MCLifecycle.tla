---------------------------- MODULE MCLifecycle -----------------------------
(* The process with two requests; without symmetry, because SignalEndsWork *)
(* and SecondSignalEnds are liveness properties.                           *)
EXTENDS Lifecycle
=============================================================================
