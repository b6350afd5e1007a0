------------------------------ MODULE MCMerkle ------------------------------
(***************************************************************************)
(* Instances of Merkle for TLC.                                            *)
(***************************************************************************)
EXTENDS Merkle, TLC

CONSTANTS p1, p2
=============================================================================
