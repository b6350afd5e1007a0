---------------------------- MODULE MCAuthorize ----------------------------
(***************************************************************************)
(* Two requests about two actions, only one of which the api role may ask  *)
(* for: one request for each way through the checks.                       *)
(***************************************************************************)
EXTENDS Authorize, TLC

CONSTANTS r1, r2, chat, shell

Ask(tier, role, action, params, ttl) ==
    [tier |-> tier, role |-> role, action |-> action, params |-> params, ttl |-> ttl]

MCForms ==
    { Ask("gated", "worker", shell, "absent", 0),
      Ask("gated", "api", chat, "matching", TTLLimit + 1),
      Ask("gated", "api", shell, "absent", 0),
      Ask("gated", "worker", chat, "mismatched", 0),
      Ask("gated", "worker", chat, "absent", TTLLimit + 2),
      Ask("supervised", "worker", shell, "absent", 0) }

RequestSymmetry == Permutations({r1, r2})
=============================================================================
