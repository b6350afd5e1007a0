------------------------------ MODULE MCReaper ------------------------------
(***************************************************************************)
(* Instances of Reaper for TLC.                                            *)
(***************************************************************************)
EXTENDS Reaper, TLC

CONSTANTS r1, r2, r3, box, twin, vm1, vm2

\* Run ids are interchangeable: nothing orders or names them.
RidSymmetry == Permutations(Rid)

\* Every target has an instance name of its own.
OwnName == [t \in Target |-> IF t = box THEN vm1 ELSE vm2]

\* Two targets, in different zones, share an instance name.
SharedName == [t \in Target |-> vm1]

\* The kernel has a client: without one no append fails, and a decision takes
\* the same steps.
WithClient == {CHOOSE e \in Booted : HasClient(e)}
=============================================================================
