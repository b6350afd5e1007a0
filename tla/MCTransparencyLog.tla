------------------------- MODULE MCTransparencyLog -------------------------
(***************************************************************************)
(* Instances of TransparencyLog for TLC.                                   *)
(***************************************************************************)
EXTENDS TransparencyLog, TLC

CONSTANTS c1, c2, c3, k1, k2, k3, p1, p2

\* Handlers, keys and payloads are only compared for equality.
LogSymmetry == Permutations(Task) \cup Permutations(Key) \cup Permutations(Payload)
=============================================================================
