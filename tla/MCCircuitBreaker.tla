-------------------------- MODULE MCCircuitBreaker --------------------------
(***************************************************************************)
(* Model checking of CircuitBreaker: the two goroutines of an endpoint and *)
(* one more.                                                               *)
(***************************************************************************)
EXTENDS CircuitBreaker
=============================================================================
