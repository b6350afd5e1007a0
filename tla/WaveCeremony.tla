---------------------------- MODULE WaveCeremony ----------------------------
(***************************************************************************)
(* The wave ceremony (crates/domain/src/wave: mod.rs, verifier.rs,         *)
(* context.rs, gate_surface.rs, learning.rs, session_record.rs).           *)
(*                                                                         *)
(* Wave<S> is a value whose type is its stage.  It is also passed around   *)
(* as JSON, which does not name the stage: whoever reads it decides, and   *)
(* only the audit fields stand in the way.  A wave may be planned anew     *)
(* under the same id, with other paths, and given up plans may have left   *)
(* records and JSON behind; the plan a record, a wave or its JSON belongs  *)
(* to is history that nothing in the code looks at.                        *)
(*                                                                         *)
(* The skills are not part of the repository.  A skill that ran a          *)
(* transition has a record of it, with the session id and the context's    *)
(* gate surfaces, and posts it to the log sooner, later, again or never.   *)
(* Here the log is the set of records it holds for this wave; the routes   *)
(* themselves are in WaveSessions.                                         *)
(***************************************************************************)
EXTENDS WaveStages, FiniteSets

CONSTANTS
    Plan,        \* the plans that may be made under the wave's id
    Session,     \* session ids
    Path,        \* files a wave may change
    SurfaceOf,   \* the gate surface of a path, or "none"
    Verdicts,    \* sets of UAT outcomes that acceptance may report
    MaxRuns      \* bound: the records of transitions that ran

None == "-"
NoUat == {None}
NoLearning == [plan |-> None, outcome |-> None, adv |-> None, pt |-> None]

UatOutcome == {"Pass", "Fail", "Partial", "NotTested"}

ASSUME CeremonyAssumption ==
    /\ None \notin Session
    /\ None \notin Plan
    /\ SurfaceOf \in [Path -> Surfaces]
    /\ Verdicts \subseteq SUBSET UatOutcome
    /\ MaxRuns \in Nat

VARIABLES
    wave,     \* the Wave<S> in hand: its stage and the fields it carries
    disk,     \* the JSON form that was written last
    learned,  \* the WaveLearningRecord of the last closeout
    chain,    \* the records the log holds
    ran,      \* history: the records of all transitions that ran
    planned   \* history: the plans made so far

vars == <<wave, disk, learned, chain, ran, planned>>

\* uat is NoUat or the set of outcomes among the verdicts.
Fields == [plan : Plan, surfaces : SUBSET Surfaces, adv : Session \cup {None},
           pt : Session \cup {None}, uat : {NoUat} \cup Verdicts]

\* detect_gate_surfaces.
DetectGateSurfaces(paths) == {SurfaceOf[p] : p \in paths} \ {"none"}

RequiresPurpleTeam(w) == w.surfaces # {}

\* Wave::new of a context with the surfaces of these paths.
NewWave(plan, paths) ==
    [stage |-> "Planned", plan |-> plan, surfaces |-> DetectGateSurfaces(paths),
     adv |-> None, pt |-> None, uat |-> NoUat]

FieldsOf(w) ==
    [plan |-> w.plan, surfaces |-> w.surfaces, adv |-> w.adv, pt |-> w.pt, uat |-> w.uat]

\* Mutant: a gate surface asks for no purple-team session.
ValidateNoPurpleTeam(s, w) ==
    /\ Rank(s) >= Rank("Tested") => w.adv # None
    /\ Rank(s) >= Rank("Accepted") => w.uat # NoUat

\* Mutant: only the Tested stage asks for an adversarial session.
ValidateNoAdversarial(s, w) ==
    /\ s = "Tested" => w.adv # None
    /\ Rank(s) >= Rank("PurpleTeamed") => (RequiresPurpleTeam(w) => w.pt # None)
    /\ Rank(s) >= Rank("Accepted") => w.uat # NoUat

\* validate_wire_fields of the six stages.
ValidateWireFields(s, w) ==
    /\ Rank(s) >= Rank("Tested") => w.adv # None
    /\ Rank(s) >= Rank("PurpleTeamed") => (RequiresPurpleTeam(w) => w.pt # None)
    /\ Rank(s) >= Rank("Accepted") => w.uat # NoUat

\* The record of a transition into stage s, WaveSessionRecord::new; the chain
\* check only asks whether it has surfaces.
Rec(s, w, session) ==
    [stage |-> s, plan |-> w.plan, session |-> session,
     surfaces |-> IF RequiresPurpleTeam(w) THEN "known" ELSE "none"]

Ran(s, session) ==
    /\ ran' = ran \cup {Rec(s, wave, session)}
    /\ Cardinality(ran') <= MaxRuns

Init ==
    \E plan \in Plan, paths \in SUBSET Path :
        /\ wave = NewWave(plan, paths)
        /\ planned = {plan}
        /\ disk = FieldsOf(wave)
        /\ learned = NoLearning
        /\ chain = {} /\ ran = {}

-----------------------------------------------------------------------------
(***************************************************************************)
(* The transitions.                                                        *)
(***************************************************************************)

Decompose ==
    /\ wave.stage = "Planned"
    /\ wave' = [wave EXCEPT !.stage = "Decomposed"]
    /\ UNCHANGED <<disk, learned, chain, ran, planned>>

RunAdversarialSuite(session) ==
    /\ wave.stage = "Decomposed"
    /\ wave' = [wave EXCEPT !.stage = "Tested", !.adv = session]
    /\ Ran("Tested", session)
    /\ UNCHANGED <<disk, learned, chain, planned>>

RunPurpleTeam(session) ==
    /\ wave.stage = "Tested"
    /\ wave' = [wave EXCEPT !.stage = "PurpleTeamed", !.pt = session]
    /\ Ran("PurpleTeamed", session)
    /\ UNCHANGED <<disk, learned, chain, planned>>

\* Mutant: the skip is open to every wave.
SkipPurpleTeamAlways ==
    /\ wave.stage = "Tested"
    /\ wave' = [wave EXCEPT !.stage = "PurpleTeamed", !.pt = None]
    /\ UNCHANGED <<disk, learned, chain, ran, planned>>

\* Otherwise the caller gets its wave back.
SkipPurpleTeamIfNoGateSurface ==
    /\ wave.stage = "Tested"
    /\ ~RequiresPurpleTeam(wave)
    /\ wave' = [wave EXCEPT !.stage = "PurpleTeamed", !.pt = None]
    /\ UNCHANGED <<disk, learned, chain, ran, planned>>

RunUserAcceptance(verdicts, session) ==
    /\ wave.stage = "PurpleTeamed"
    /\ wave' = [wave EXCEPT !.stage = "Accepted", !.uat = verdicts]
    /\ Ran("Accepted", session)
    /\ UNCHANGED <<disk, learned, chain, planned>>

\* build_from_closeout, with what closeout passes: no findings, no blockers
\* and an accepting constraint layer.
OutcomeOf(verdicts) ==
    IF "Fail" \in verdicts THEN "Fail"
    ELSE IF "Partial" \in verdicts THEN "Partial" ELSE "Pass"

\* adv falls back to the empty id, which None stands for.
Closeout(session) ==
    /\ wave.stage = "Accepted"
    /\ wave' = [wave EXCEPT !.stage = "Closed"]
    /\ learned' = [plan |-> wave.plan, outcome |-> OutcomeOf(wave.uat), adv |-> wave.adv, pt |-> wave.pt]
    /\ Ran("Closed", session)
    /\ UNCHANGED <<disk, chain, planned>>

\* Mutant: the new paths are put into the wave in hand.
ReplanInPlace(plan, paths) ==
    /\ wave.stage # "Planned"
    /\ plan \notin planned
    /\ planned' = planned \cup {plan}
    /\ wave' = [wave EXCEPT !.plan = plan, !.surfaces = DetectGateSurfaces(paths)]
    /\ UNCHANGED <<disk, learned, chain, ran>>

\* The skill starts over under the same wave id.
Replan(plan, paths) ==
    /\ wave.stage # "Planned"
    /\ plan \notin planned
    /\ planned' = planned \cup {plan}
    /\ wave' = NewWave(plan, paths)
    /\ UNCHANGED <<disk, learned, chain, ran>>

-----------------------------------------------------------------------------
(***************************************************************************)
(* The JSON form and the log.                                              *)
(***************************************************************************)

Serialize ==
    /\ disk' = FieldsOf(wave)
    /\ UNCHANGED <<wave, learned, chain, ran, planned>>

\* serde_json::from_str::<Wave<S>>.
Deserialize(s) ==
    /\ ValidateWireFields(s, disk)
    /\ wave' = [stage |-> s, plan |-> disk.plan, surfaces |-> disk.surfaces,
                adv |-> disk.adv, pt |-> disk.pt, uat |-> disk.uat]
    /\ UNCHANGED <<disk, learned, chain, ran, planned>>

\* Another record under the same key is refused with 409.
Post(rec) ==
    /\ rec \in ran \ chain
    /\ \A r \in chain : KeyOf(r) # KeyOf(rec)
    /\ chain' = chain \cup {rec}
    /\ UNCHANGED <<wave, disk, learned, ran, planned>>

-----------------------------------------------------------------------------
Next ==
    \/ Decompose
    \/ \E session \in Session :
          \/ RunAdversarialSuite(session) \/ RunPurpleTeam(session) \/ Closeout(session)
          \/ \E verdicts \in Verdicts : RunUserAcceptance(verdicts, session)
    \/ SkipPurpleTeamIfNoGateSurface
    \/ \E plan \in Plan, paths \in SUBSET Path : Replan(plan, paths)
    \/ Serialize
    \/ \E s \in Stages : Deserialize(s)
    \/ \E rec \in ran : Post(rec)

Spec == Init /\ [][Next]_vars

-----------------------------------------------------------------------------
(***************************************************************************)
(* Properties.                                                             *)
(***************************************************************************)

Records == [stage : Stages, plan : Plan, session : Session, surfaces : {"none", "known"}]

Learned == {NoLearning} \cup [plan : Plan, outcome : {"Pass", "Partial", "Fail"},
                        adv : Session \cup {None}, pt : Session \cup {None}]

\* Waves, JSON forms, learning records and session records are well formed;
\* in particular a learning record has one of the three outcomes
\* (learning.rs, WaveOutcome).
TypeOK ==
    /\ wave.stage \in Stages /\ FieldsOf(wave) \in Fields
    /\ disk \in Fields
    /\ learned \in Learned
    /\ ran \subseteq Records /\ chain \subseteq ran
    /\ planned \subseteq Plan

RanAs(plan, s, session) ==
    \E r \in ran : r.plan = plan /\ r.stage = s /\ r.session = session

\* A wave that touches a gate surface and is past the purple-team stage names
\* a purple-team session that was held under this very plan, by whatever mixture of
\* transitions, of new plans and of JSON written at one stage and read at another
\* it got there (mod.rs, skip_purple_team_if_no_gate_surface and Deserialize;
\* verifier.rs).
PurpleTeamHeld ==
    Rank(wave.stage) >= Rank("PurpleTeamed") /\ RequiresPurpleTeam(wave)
        => RanAs(wave.plan, "PurpleTeamed", wave.pt)

\* A learning record names an adversarial session that was held under the plan
\* it closes: the fallback of closeout to an empty id is never taken
\* ("guaranteed to be present at this state", mod.rs, closeout).
LearnedSessionHeld ==
    learned # NoLearning => RanAs(learned.plan, "Tested", learned.adv)

RanStage(plan, s) == \E r \in ran : r.plan = plan /\ r.stage = s

\* The sessions a wave at the stage of this record must have behind it were held
\* under the record's plan.
HeldBefore(r) ==
    /\ Rank(r.stage) > Rank("Tested") => RanStage(r.plan, "Tested")
    /\ Rank(r.stage) > Rank("PurpleTeamed") /\ r.surfaces # "none"
         => RanStage(r.plan, "PurpleTeamed")
    /\ Rank(r.stage) > Rank("Accepted") => RanStage(r.plan, "Accepted")

\* The chain check counts stages and takes records of different plans together.
\* Still, a chain it finds complete was not patched together from plans given
\* up halfway: the plan that was closed held all of its sessions itself, and when the
\* chain shows a gate surface, be it of a plan replaced by one without, it
\* has a purple-team session of a plan that was tested (session_record.rs,
\* all_required_stages_present; mod.rs).
CompleteIsOneCeremony ==
    AllRequiredStagesPresent(chain) =>
        /\ \E r \in chain : r.stage = "Closed" /\ HeldBefore(r)
        /\ (\E r \in chain : r.surfaces # "none")
             => \E r \in chain : r.stage = "PurpleTeamed" /\ HeldBefore(r)

\* Once a plan was closed and all of its records are in the log, the log finds
\* the wave's chain complete: the type states and the chain check ask for the
\* same sessions.  Records of other plans may be there too, as long as they show
\* no gate surface that the closed plan lacks (mod.rs; session_record.rs).
ClosedIsComplete ==
    \A r \in ran :
        /\ r.stage = "Closed"
        /\ {q \in ran : q.plan = r.plan} \subseteq chain
        /\ (\E q \in chain : q.surfaces # "none") => r.surfaces # "none"
        => AllRequiredStagesPresent(chain)
=============================================================================
