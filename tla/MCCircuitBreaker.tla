-------------------------- MODULE MCCircuitBreaker --------------------------
(***************************************************************************)
(* CircuitBreaker with the callers of MCCallers.                            *)
(***************************************************************************)
EXTENDS CircuitBreaker, MCCallers

=============================================================================
