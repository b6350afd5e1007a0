----------------------------- MODULE WaveStages -----------------------------
(***************************************************************************)
(* What the wave ceremony and the transparency log share about a wave: its *)
(* stages, the gate surfaces it may touch and when the records of its      *)
(* stages make a complete chain (crates/domain/src/wave: stage.rs,         *)
(* gate_surface.rs, session_record.rs).                                    *)
(***************************************************************************)
EXTENDS Naturals

Stage == <<"Planned", "Decomposed", "Tested", "PurpleTeamed", "Accepted", "Closed">>
Stages == {Stage[i] : i \in 1..6}
Rank(s) == CHOOSE i \in 1..6 : Stage[i] = s

\* The surfaces of a wave's paths: none, some, or some that an older binary
\* does not know.
Surfaces == {"none", "known", "recent"}

\* record_idempotency_key, for one wave.
KeyOf(rec) == <<rec.stage, rec.session>>

\* unconditionally_required.
Required == {"Tested", "Accepted", "Closed"}

AllRequiredStagesPresent(recs) ==
    /\ Required \subseteq {r.stage : r \in recs}
    /\ (\E r \in recs : r.surfaces # "none") => \E r \in recs : r.stage = "PurpleTeamed"
=============================================================================
