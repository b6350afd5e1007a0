-------------------------- MODULE MCCircuitBreaker --------------------------
(***************************************************************************)
(* Instances of CircuitBreaker for TLC.                                    *)
(***************************************************************************)
EXTENDS CircuitBreaker, TLC

CONSTANTS c1, c2, c3

CallerSymmetry == Permutations(Caller)
=============================================================================
