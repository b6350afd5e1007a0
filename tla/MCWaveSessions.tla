--------------------------- MODULE MCWaveSessions ---------------------------
(***************************************************************************)
(* An instance of WaveSessions for TLC.                                    *)
(***************************************************************************)
EXTENDS WaveSessions, TLC

CONSTANTS c1, c2, s1, n1

Tests == [stage |-> "Tested", session |-> s1, surfaces |-> "none", note |-> n1]
Closes == [stage |-> "Closed", session |-> s1, surfaces |-> "recent", note |-> n1]

\* The first record is signed with Ed25519, with the HMAC or with a placeholder
\* for it: other bytes under the same key.  What a boot rebuilds of the former is
\* an HMAC side that verifies, of the latter one that does not.  The second
\* record cannot be read by an old binary.  The last two bodies are refused.
MCPosted ==
    {[rec |-> Tests, type |-> "ed25519", mac |-> TRUE, sig |-> TRUE, pinned |-> TRUE],
     [rec |-> Tests, type |-> "ed25519", mac |-> FALSE, sig |-> TRUE, pinned |-> TRUE],
     [rec |-> Closes, type |-> "hmac", mac |-> TRUE, sig |-> FALSE, pinned |-> TRUE],
     [rec |-> Tests, type |-> "hmac", mac |-> FALSE, sig |-> FALSE, pinned |-> TRUE],
     [rec |-> Tests, type |-> "hmac", mac |-> TRUE, sig |-> FALSE, pinned |-> FALSE]}

\* The only table that lets every skill through the shared key as well.
MCSkillKeys == [s \in {"Tested", "Closed"} |-> "secret"]

\* Production, with every optional key.
MCEnv == [prod |-> TRUE, sth |-> "good", kernelKey |-> "good", apiKey |-> "good",
          tls |-> "good", db |-> "good", ed25519 |-> "good", hmac |-> "good",
          mcp |-> "good", drift |-> "good"]

ClientSymmetry == Permutations(Client)
=============================================================================
