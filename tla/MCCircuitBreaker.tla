------------------------- MODULE MCCircuitBreaker -------------------------
(***************************************************************************)
(* CircuitBreaker on small instances.                                      *)
(***************************************************************************)
EXTENDS CircuitBreaker, TLC

Symmetry == Permutations(Calls)

=============================================================================
