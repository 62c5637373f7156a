-------------------------- MODULE MCCircuitBreaker --------------------------
(* Model values for model-checking CircuitBreaker.                         *)
EXTENDS CircuitBreaker

CONSTANTS c1, c2, c3

MCCalls == {c1, c2, c3}

=============================================================================
