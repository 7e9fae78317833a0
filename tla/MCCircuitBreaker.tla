-------------------------- MODULE MCCircuitBreaker --------------------------
(* Instances of CircuitBreaker for TLC.                                     *)
EXTENDS CircuitBreaker, TLC

\* Requests differ in nothing but their slots.
Symmetry == Permutations(Req)
=============================================================================
