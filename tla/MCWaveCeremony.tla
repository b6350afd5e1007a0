--------------------------- MODULE MCWaveCeremony ---------------------------
(***************************************************************************)
(* An instance of WaveCeremony for TLC.                                    *)
(***************************************************************************)
EXTENDS WaveCeremony, TLC

CONSTANTS p1, p2, s1, s2

MCPlan == {p1, p2}
MCSession == {s1, s2}

\* Nothing tells one plan from the other, nor one session id from the other.
Symmetry == Permutations(MCPlan) \cup Permutations(MCSession)

\* A document and a file of a gate.
MCSurfaceOf == [p \in {"doc", "gate"} |-> IF p = "gate" THEN "known" ELSE "none"]
MCVerdicts == {{"Pass", "Fail", "Partial"}}
=============================================================================
