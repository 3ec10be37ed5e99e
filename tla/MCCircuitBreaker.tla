-------------------------- MODULE MCCircuitBreaker --------------------------
(* Small instances of CircuitBreaker; the configurations give the bounds.  *)
EXTENDS CircuitBreaker
=============================================================================
