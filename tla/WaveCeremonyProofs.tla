------------------------- MODULE WaveCeremonyProofs -------------------------
(***************************************************************************)
(* The promises of the wave's type states, for any sessions, paths, gate   *)
(* surfaces and verdicts.                                                  *)
(*                                                                         *)
(* A wave in hand may come from a transition or from JSON, and the JSON    *)
(* may have been written at any stage.  The invariant therefore says the   *)
(* same of both: a session id they carry is that of a session that was     *)
(* held under the plan they belong to.  What a stage may rely on is        *)
(* exactly what validate_wire_fields checks, so the transitions must       *)
(* establish it as well.                                                   *)
(***************************************************************************)
EXTENDS WaveCeremony, TLAPS

WaveType == [stage : Stages, plan : Plan, surfaces : SUBSET Surfaces,
             adv : Session \cup {None}, pt : Session \cup {None}, uat : {NoUat} \cup Verdicts]

ShapeInv ==
    /\ wave \in WaveType
    /\ disk \in Fields
    /\ learned \in Learned
    /\ ran \subseteq Records
    /\ chain \subseteq ran
    /\ planned \subseteq Plan

HeldSessions(w) ==
    /\ w.adv # None => RanAs(w.plan, "Tested", w.adv)
    /\ w.pt # None => RanAs(w.plan, "PurpleTeamed", w.pt)

CeremonyInv ==
    /\ ShapeInv
    /\ HeldSessions(wave)
    /\ HeldSessions(disk)
    /\ ValidateWireFields(wave.stage, wave)
    /\ LearnedSessionHeld

-----------------------------------------------------------------------------
\* The stages are ranked in the order they are passed (stage.rs).
LEMMA Ranks ==
    /\ Rank("Planned") = 1 /\ Rank("Decomposed") = 2 /\ Rank("Tested") = 3
    /\ Rank("PurpleTeamed") = 4 /\ Rank("Accepted") = 5 /\ Rank("Closed") = 6
<1> DEFINE At(s, n) == n \in 1..6 /\ Stage[n] = s /\ \A i \in 1..6 : Stage[i] = s => i = n
<1>1. /\ At("Planned", 1) /\ At("Decomposed", 2) /\ At("Tested", 3)
      /\ At("PurpleTeamed", 4) /\ At("Accepted", 5) /\ At("Closed", 6)
  BY DEF Stage
<1>2. ASSUME NEW s, NEW n, At(s, n) PROVE Rank(s) = n
  BY <1>2 DEF Rank
<1> HIDE DEF At
<1>3. QED
  BY <1>1, <1>2

\* The names of the stages.
LEMMA StageNames ==
    Stages = {"Planned", "Decomposed", "Tested", "PurpleTeamed", "Accepted", "Closed"}
BY DEF Stages, Stage

\* A wave's fields alone decide what HeldSessions and ValidateWireFields say.
LEMMA NewWaveFits ==
    ASSUME NEW plan \in Plan, NEW paths \in SUBSET Path
    PROVE  /\ NewWave(plan, paths) \in WaveType
           /\ NewWave(plan, paths).stage = "Planned"
           /\ NewWave(plan, paths).adv = None /\ NewWave(plan, paths).pt = None
<1>1. DetectGateSurfaces(paths) \in SUBSET Surfaces
  BY CeremonyAssumption DEF DetectGateSurfaces
<1>2. QED
  BY <1>1, StageNames DEF NewWave, WaveType

\* Wave::new asks for nothing.
LEMMA EarlyStagesAskNothing ==
    ASSUME NEW w, NEW s \in {"Planned", "Decomposed"}
    PROVE  ValidateWireFields(s, w)
BY Ranks DEF ValidateWireFields

\* Writing a wave keeps its fields (Serialize for Wave<S>).
LEMMA FieldsKept ==
    ASSUME NEW w \in WaveType
    PROVE  /\ FieldsOf(w) \in Fields
           /\ FieldsOf(w).plan = w.plan
           /\ FieldsOf(w).adv = w.adv /\ FieldsOf(w).pt = w.pt
BY DEF FieldsOf, Fields, WaveType

\* A wave starts with nothing it could be held to.
LEMMA CeremonyInit == Init => CeremonyInv
<1> SUFFICES ASSUME Init PROVE CeremonyInv
  OBVIOUS
<1>1. PICK plan \in Plan, paths \in SUBSET Path : wave = NewWave(plan, paths)
  BY DEF Init
<1>2. disk = FieldsOf(wave) /\ learned = NoLearning /\ chain = {} /\ ran = {} /\ planned \subseteq Plan
  BY DEF Init
<1>3. wave \in WaveType /\ wave.stage = "Planned" /\ wave.adv = None /\ wave.pt = None
  BY <1>1, NewWaveFits
<1>4. disk \in Fields /\ disk.adv = None /\ disk.pt = None
  BY <1>2, <1>3, FieldsKept
<1>5. ValidateWireFields(wave.stage, wave)
  BY <1>3, EarlyStagesAskNothing
<1>6. QED
  BY <1>2, <1>3, <1>4, <1>5 DEF CeremonyInv, ShapeInv, HeldSessions, LearnedSessionHeld, Learned

-----------------------------------------------------------------------------
\* A session once held stays held.
LEMMA RanGrows ==
    ASSUME ran \subseteq ran', NEW plan, NEW s, NEW session, RanAs(plan, s, session)
    PROVE  RanAs(plan, s, session)'
BY DEF RanAs

\* The record of a transition that ran is a record, and RanAs finds it.
LEMMA RanRecorded ==
    ASSUME ran \subseteq Records, wave.plan \in Plan, wave'.plan = wave.plan, NEW s \in Stages, NEW session \in Session, Ran(s, session)
    PROVE  /\ ran \subseteq ran' /\ ran' \subseteq Records
           /\ RanAs(wave.plan, s, session)'
<1>1. Rec(s, wave, session) \in Records
  BY DEF Rec, Records
<1>2. /\ Rec(s, wave, session).stage = s /\ Rec(s, wave, session).session = session
      /\ Rec(s, wave, session).plan = wave.plan
  BY DEF Rec
<1>3. QED
  BY <1>1, <1>2 DEF Ran, RanAs

\* What the wave, the disk and the learning record name stays held; the latter
\* two while they are unchanged.
LEMMA RestKept ==
    ASSUME CeremonyInv, ran \subseteq ran'
    PROVE  /\ disk' = disk => HeldSessions(disk)'
           /\ learned' = learned => LearnedSessionHeld'
           /\ wave'.plan = wave.plan /\ wave'.adv = wave.adv /\ wave.adv # None
                => RanAs(wave.plan, "Tested", wave.adv)'
           /\ wave'.plan = wave.plan /\ wave'.pt = wave.pt /\ wave.pt # None
                => RanAs(wave.plan, "PurpleTeamed", wave.pt)'
           /\ \A plan, session :
                wave.plan = plan /\ wave.adv = session /\ session # None
                    => RanAs(plan, "Tested", session)'
           /\ \A plan, session :
                wave.plan = plan /\ wave.pt = session /\ session # None
                    => RanAs(plan, "PurpleTeamed", session)'
BY DEF CeremonyInv, HeldSessions, LearnedSessionHeld, RanAs

\* Each step keeps the invariant.
LEMMA CeremonyStep == CeremonyInv /\ [Next]_vars => CeremonyInv'
<1> SUFFICES ASSUME CeremonyInv, [Next]_vars PROVE CeremonyInv'
  OBVIOUS
<1>0. /\ wave \in WaveType /\ disk \in Fields /\ learned \in Learned
      /\ ran \subseteq Records /\ chain \subseteq ran /\ planned \subseteq Plan
      /\ wave.plan \in Plan
      /\ ValidateWireFields(wave.stage, wave)
      /\ HeldSessions(wave) /\ HeldSessions(disk) /\ LearnedSessionHeld
      /\ None \notin Session
  BY CeremonyAssumption DEF CeremonyInv, ShapeInv, WaveType
<1>1. CASE Decompose
  <2>1. ran \subseteq ran' /\ UNCHANGED <<disk, learned, chain, ran, planned>>
    BY <1>1 DEF Decompose
  <2>2. /\ wave' \in WaveType /\ wave'.stage = "Decomposed"
        /\ wave'.plan = wave.plan /\ wave'.adv = wave.adv /\ wave'.pt = wave.pt
    BY <1>0, <1>1, StageNames DEF Decompose, WaveType
  <2>3. ValidateWireFields(wave.stage, wave)'
    BY <2>2, EarlyStagesAskNothing
  <2>4. HeldSessions(wave)' /\ HeldSessions(disk)' /\ LearnedSessionHeld'
    BY <1>0, <2>1, <2>2 DEF HeldSessions, LearnedSessionHeld, RanAs
  <2>5. QED
    BY <1>0, <2>1, <2>2, <2>3, <2>4 DEF CeremonyInv, ShapeInv
<1>2. ASSUME NEW session \in Session, RunAdversarialSuite(session) PROVE CeremonyInv'
  <2>1. /\ UNCHANGED <<disk, learned, chain, planned>> /\ Ran("Tested", session)
        /\ wave'.plan = wave.plan
    BY <1>0, <1>2 DEF RunAdversarialSuite, WaveType
  <2>2. ran \subseteq ran' /\ ran' \subseteq Records /\ RanAs(wave.plan, "Tested", session)'
    BY <1>0, <2>1, StageNames, RanRecorded
  <2>3. /\ wave' \in WaveType /\ wave'.stage = "Tested"
        /\ wave'.adv = session /\ wave'.pt = wave.pt
    BY <1>0, <1>2, StageNames DEF RunAdversarialSuite, WaveType
  <2>4. ValidateWireFields(wave.stage, wave)'
    BY <1>0, <2>3, Ranks DEF ValidateWireFields
  <2>5. HeldSessions(wave)' /\ HeldSessions(disk)' /\ LearnedSessionHeld'
    BY <2>1, <2>2, <2>3, RestKept DEF HeldSessions
  <2>6. QED
    BY <1>0, <2>1, <2>2, <2>3, <2>4, <2>5 DEF CeremonyInv, ShapeInv
<1>3. ASSUME NEW session \in Session, RunPurpleTeam(session) PROVE CeremonyInv'
  <2>1. /\ UNCHANGED <<disk, learned, chain, planned>> /\ Ran("PurpleTeamed", session)
        /\ wave'.plan = wave.plan
    BY <1>0, <1>3 DEF RunPurpleTeam, WaveType
  <2>2. ran \subseteq ran' /\ ran' \subseteq Records /\ RanAs(wave.plan, "PurpleTeamed", session)'
    BY <1>0, <2>1, StageNames, RanRecorded
  <2>3. /\ wave' \in WaveType /\ wave.stage = "Tested" /\ wave'.stage = "PurpleTeamed"
        /\ wave'.adv = wave.adv /\ wave'.pt = session
    BY <1>0, <1>3, StageNames DEF RunPurpleTeam, WaveType
  <2>4. ValidateWireFields(wave.stage, wave)'
    BY <1>0, <2>3, Ranks DEF ValidateWireFields
  <2>5. HeldSessions(wave)' /\ HeldSessions(disk)' /\ LearnedSessionHeld'
    BY <2>1, <2>2, <2>3, RestKept DEF HeldSessions
  <2>6. QED
    BY <1>0, <2>1, <2>2, <2>3, <2>4, <2>5 DEF CeremonyInv, ShapeInv
<1>4. CASE SkipPurpleTeamIfNoGateSurface
  <2>1. ran \subseteq ran' /\ UNCHANGED <<disk, learned, chain, ran, planned>>
    BY <1>4 DEF SkipPurpleTeamIfNoGateSurface
  <2>2. /\ wave' \in WaveType /\ wave.stage = "Tested" /\ wave'.stage = "PurpleTeamed"
        /\ wave'.plan = wave.plan /\ wave'.adv = wave.adv /\ wave'.pt = None
        /\ wave'.surfaces = wave.surfaces /\ wave.surfaces = {}
    BY <1>0, <1>4, StageNames DEF SkipPurpleTeamIfNoGateSurface, WaveType, RequiresPurpleTeam
  <2>3. ValidateWireFields(wave.stage, wave)'
    BY <1>0, <2>2, Ranks DEF ValidateWireFields, RequiresPurpleTeam
  <2>4. HeldSessions(wave)' /\ HeldSessions(disk)' /\ LearnedSessionHeld'
    BY <2>1, <2>2, RestKept DEF HeldSessions
  <2>5. QED
    BY <1>0, <2>1, <2>2, <2>3, <2>4 DEF CeremonyInv, ShapeInv
<1>5. ASSUME NEW session \in Session, NEW verdicts \in Verdicts,
             RunUserAcceptance(verdicts, session)
      PROVE  CeremonyInv'
  <2>1. /\ UNCHANGED <<disk, learned, chain, planned>> /\ Ran("Accepted", session)
        /\ wave'.plan = wave.plan
    BY <1>0, <1>5 DEF RunUserAcceptance, WaveType
  <2>2. ran \subseteq ran' /\ ran' \subseteq Records
    BY <1>0, <2>1, StageNames, RanRecorded
  <2>3. /\ wave' \in WaveType /\ wave.stage = "PurpleTeamed" /\ wave'.stage = "Accepted"
        /\ wave'.adv = wave.adv /\ wave'.pt = wave.pt
        /\ wave'.surfaces = wave.surfaces /\ wave'.uat = verdicts
    BY <1>0, <1>5, StageNames DEF RunUserAcceptance, WaveType
  <2>4. verdicts # NoUat
    BY CeremonyAssumption DEF UatOutcome, NoUat, None
  <2>5. ValidateWireFields(wave.stage, wave)'
    BY <1>0, <2>3, <2>4, Ranks DEF ValidateWireFields, RequiresPurpleTeam
  <2>6. HeldSessions(wave)' /\ HeldSessions(disk)' /\ LearnedSessionHeld'
    BY <2>1, <2>2, <2>3, RestKept DEF HeldSessions
  <2>7. QED
    BY <1>0, <2>1, <2>2, <2>3, <2>5, <2>6 DEF CeremonyInv, ShapeInv
<1>6. ASSUME NEW session \in Session, Closeout(session) PROVE CeremonyInv'
  <2>1. /\ UNCHANGED <<disk, chain, planned>> /\ Ran("Closed", session)
        /\ wave'.plan = wave.plan
    BY <1>0, <1>6 DEF Closeout, WaveType
  <2>2. ran \subseteq ran' /\ ran' \subseteq Records
    BY <1>0, <2>1, StageNames, RanRecorded
  <2>3. /\ wave' \in WaveType /\ wave.stage = "Accepted" /\ wave'.stage = "Closed"
        /\ wave'.adv = wave.adv /\ wave'.pt = wave.pt
        /\ wave'.surfaces = wave.surfaces /\ wave'.uat = wave.uat
    BY <1>0, <1>6, StageNames DEF Closeout, WaveType
  <2>4. wave.adv # None
    BY <1>0, <2>3, Ranks DEF ValidateWireFields
  <2>5. ValidateWireFields(wave.stage, wave)'
    BY <1>0, <2>3, Ranks DEF ValidateWireFields, RequiresPurpleTeam
  <2>6. learned'.plan = wave.plan /\ learned'.adv = wave.adv /\ learned' \in Learned
    BY <1>0, <1>6 DEF Closeout, WaveType, Learned, OutcomeOf
  <2>7. HeldSessions(wave)' /\ HeldSessions(disk)'
    BY <2>1, <2>2, <2>3, RestKept DEF HeldSessions
  <2>8. LearnedSessionHeld'
    <3>1. PICK plan0, session0 : plan0 = wave.plan /\ session0 = wave.adv
      OBVIOUS
    <3>2. RanAs(plan0, "Tested", session0)'
      BY <2>2, <2>4, <3>1, RestKept
    <3>3. QED
      BY <2>6, <3>1, <3>2 DEF LearnedSessionHeld
  <2>9. QED
    BY <1>0, <2>1, <2>2, <2>3, <2>5, <2>6, <2>7, <2>8 DEF CeremonyInv, ShapeInv
<1>7. ASSUME NEW plan \in Plan, NEW paths \in SUBSET Path, Replan(plan, paths) PROVE CeremonyInv'
  <2>1. /\ ran \subseteq ran' /\ UNCHANGED <<disk, learned, chain, ran>>
        /\ wave' = NewWave(plan, paths) /\ planned' \subseteq Plan
    BY <1>0, <1>7 DEF Replan
  <2>2. wave' \in WaveType /\ wave'.stage = "Planned" /\ wave'.adv = None /\ wave'.pt = None
    BY <2>1, NewWaveFits
  <2>3. ValidateWireFields(wave.stage, wave)'
    BY <2>2, EarlyStagesAskNothing
  <2>4. HeldSessions(wave)' /\ HeldSessions(disk)' /\ LearnedSessionHeld'
    BY <2>1, <2>2, RestKept DEF HeldSessions
  <2>5. QED
    BY <1>0, <2>1, <2>2, <2>3, <2>4 DEF CeremonyInv, ShapeInv
<1>8. CASE Serialize
  <2>1. ran \subseteq ran' /\ UNCHANGED <<wave, learned, chain, ran, planned>> /\ disk' = FieldsOf(wave)
    BY <1>8 DEF Serialize
  <2>2. disk' \in Fields /\ disk'.plan = wave.plan /\ disk'.adv = wave.adv /\ disk'.pt = wave.pt
    BY <1>0, <2>1, FieldsKept
  <2>3. ValidateWireFields(wave.stage, wave)' /\ wave' \in WaveType
    BY <1>0, <2>1
  <2>4. HeldSessions(wave)' /\ HeldSessions(disk)' /\ LearnedSessionHeld'
    BY <2>1, <2>2, RestKept DEF HeldSessions
  <2>5. QED
    BY <1>0, <2>1, <2>2, <2>3, <2>4 DEF CeremonyInv, ShapeInv
<1>9. ASSUME NEW s \in Stages, Deserialize(s) PROVE CeremonyInv'
  <2>1. ran \subseteq ran' /\ UNCHANGED <<disk, learned, chain, ran, planned>>
    BY <1>9 DEF Deserialize
  <2>2. /\ wave' \in WaveType /\ wave'.stage = s /\ wave'.plan = disk.plan
        /\ wave'.surfaces = disk.surfaces
        /\ wave'.adv = disk.adv /\ wave'.pt = disk.pt /\ wave'.uat = disk.uat
    BY <1>0, <1>9 DEF Deserialize, WaveType, Fields
  <2>3. ValidateWireFields(wave.stage, wave)'
    BY <1>9, <2>2 DEF Deserialize, ValidateWireFields, RequiresPurpleTeam
  <2>4. HeldSessions(wave)' /\ HeldSessions(disk)' /\ LearnedSessionHeld'
    BY <1>0, <2>1, <2>2, RestKept, RanGrows DEF HeldSessions
  <2>5. QED
    BY <1>0, <2>1, <2>2, <2>3, <2>4 DEF CeremonyInv, ShapeInv
<1>10. ASSUME NEW rec \in ran, Post(rec) PROVE CeremonyInv'
  <2>1. ran \subseteq ran' /\ UNCHANGED <<wave, disk, learned, ran, planned>> /\ chain' \subseteq ran
    BY <1>0, <1>10 DEF Post
  <2>2. ValidateWireFields(wave.stage, wave)' /\ wave' \in WaveType
    BY <1>0, <2>1
  <2>3. HeldSessions(wave)' /\ HeldSessions(disk)' /\ LearnedSessionHeld'
    BY <2>1, RestKept DEF HeldSessions
  <2>4. QED
    BY <1>0, <2>1, <2>2, <2>3 DEF CeremonyInv, ShapeInv
<1>11. CASE UNCHANGED vars
  BY <1>0, <1>11 DEF vars, CeremonyInv, ShapeInv, HeldSessions, LearnedSessionHeld, RanAs
<1>12. QED
  BY <1>1, <1>2, <1>3, <1>4, <1>5, <1>6, <1>7, <1>8, <1>9, <1>10, <1>11 DEF Next

-----------------------------------------------------------------------------
\* The invariant holds in every reachable state.
LEMMA CeremonyAlways == Spec => []CeremonyInv
BY CeremonyInit, CeremonyStep, PTL DEF Spec

\* Waves, JSON forms, learning records and session records stay well formed,
\* for any sessions, paths and verdicts (learning.rs, WaveOutcome).
THEOREM CeremonyTypeCorrect == Spec => []TypeOK
<1>1. CeremonyInv => TypeOK
  BY FieldsKept DEF CeremonyInv, ShapeInv, TypeOK, WaveType
<1>2. QED
  BY <1>1, CeremonyAlways, PTL

\* However transitions and JSON written at one stage and read at another are
\* mixed, a wave with a gate surface that is past the purple-team stage names a
\* purple-team session that was held (mod.rs, verifier.rs).
THEOREM PurpleTeamHeldCorrect == Spec => []PurpleTeamHeld
<1>1. CeremonyInv => PurpleTeamHeld
  BY Ranks DEF CeremonyInv, HeldSessions, ValidateWireFields, PurpleTeamHeld
<1>2. QED
  BY <1>1, CeremonyAlways, PTL

\* Every learning record names an adversarial session that was held: closeout
\* never falls back to an empty id (mod.rs, closeout).
THEOREM LearnedSessionHeldCorrect == Spec => []LearnedSessionHeld
<1>1. CeremonyInv => LearnedSessionHeld
  BY DEF CeremonyInv
<1>2. QED
  BY <1>1, CeremonyAlways, PTL

-----------------------------------------------------------------------------
(* What the records in the log stand for.                                  *)

\* Verdicts come from an acceptance that ran under the same plan, wherever they
\* are carried.
AcceptedHeld(w) == w.uat # NoUat => RanStage(w.plan, "Accepted")

HeldInv == \A r \in ran : HeldBefore(r)

CloseInv == AcceptedHeld(wave) /\ AcceptedHeld(disk) /\ HeldInv

\* Before any acceptance nothing carries verdicts.
LEMMA CloseInit == Init => CloseInv
BY DEF Init, CloseInv, AcceptedHeld, HeldInv, NewWave, FieldsOf

\* Records are never taken back.
LEMMA StagesStay ==
    ASSUME ran \subseteq ran'
    PROVE  \A plan, s : RanStage(plan, s) => RanStage(plan, s)'
BY DEF RanStage

\* A record once stood on sessions that were held, and still does.
LEMMA HeldStays ==
    ASSUME ran \subseteq ran', NEW r, HeldBefore(r)
    PROVE  HeldBefore(r)'
BY StagesStay DEF HeldBefore

\* A transition takes a wave that has the fields of its stage, so the sessions
\* its record stands on were held under the same plan.
LEMMA NewRecordHeld ==
    ASSUME CeremonyInv, CloseInv, ran \subseteq ran', NEW r, r.plan = wave.plan,
           r.surfaces # "none" => RequiresPurpleTeam(wave),
           \/ r.stage = "Tested"
           \/ r.stage = "PurpleTeamed" /\ wave.stage = "Tested"
           \/ r.stage = "Accepted" /\ wave.stage = "PurpleTeamed"
           \/ r.stage = "Closed" /\ wave.stage = "Accepted"
    PROVE  HeldBefore(r)'
<1>1. /\ wave.adv # None => RanStage(wave.plan, "Tested")
      /\ wave.pt # None => RanStage(wave.plan, "PurpleTeamed")
      /\ wave.uat # NoUat => RanStage(wave.plan, "Accepted")
  BY DEF CeremonyInv, CloseInv, HeldSessions, AcceptedHeld, RanAs, RanStage
<1>2. /\ Rank(wave.stage) >= Rank("Tested") => wave.adv # None
      /\ Rank(wave.stage) >= Rank("PurpleTeamed") /\ RequiresPurpleTeam(wave) => wave.pt # None
      /\ Rank(wave.stage) >= Rank("Accepted") => wave.uat # NoUat
  BY DEF CeremonyInv, ValidateWireFields
<1>3. HeldBefore(r)
  BY <1>1, <1>2, Ranks DEF HeldBefore
<1>4. QED
  BY <1>3, HeldStays

\* A step whose new records stand on sessions that were held, and whose wave
\* carries no verdicts that were not there before under the same plan.
LEMMA CloseKept ==
    ASSUME CloseInv, ran \subseteq ran',
           \A r \in ran' \ ran : HeldBefore(r)',
           \/ wave'.uat = NoUat
           \/ wave'.uat = wave.uat /\ wave'.plan = wave.plan
           \/ wave'.uat = disk.uat /\ wave'.plan = disk.plan
           \/ RanStage(wave.plan, "Accepted")',
           \/ disk'.uat = wave.uat /\ disk'.plan = wave.plan
           \/ disk'.uat = disk.uat /\ disk'.plan = disk.plan
    PROVE  CloseInv'
<1>1. \A plan : RanStage(plan, "Accepted") => RanStage(plan, "Accepted")'
  BY StagesStay
<1>2. ASSUME NEW plan, RanStage(plan, "Accepted")', plan = wave'.plan PROVE AcceptedHeld(wave)'
  BY <1>2 DEF AcceptedHeld
<1>3. ASSUME NEW plan, RanStage(plan, "Accepted")', plan = disk'.plan PROVE AcceptedHeld(disk)'
  BY <1>3 DEF AcceptedHeld
<1>4. /\ wave.uat # NoUat => RanStage(wave.plan, "Accepted")
      /\ disk.uat # NoUat => RanStage(disk.plan, "Accepted")
  BY DEF CloseInv, AcceptedHeld
<1>5. AcceptedHeld(wave)'
  <2>1. CASE wave'.uat = NoUat \/ RanStage(wave.plan, "Accepted")'
    BY <2>1 DEF AcceptedHeld
  <2>2. CASE wave'.uat = wave.uat /\ wave'.plan = wave.plan /\ wave.uat # NoUat
    BY <2>2, <1>1, <1>2, <1>4
  <2>3. CASE wave'.uat = disk.uat /\ wave'.plan = disk.plan /\ disk.uat # NoUat
    BY <2>3, <1>1, <1>2, <1>4
  <2>4. QED
    BY <2>1, <2>2, <2>3
<1>6. AcceptedHeld(disk)'
  <2>1. CASE disk'.uat = NoUat
    BY <2>1 DEF AcceptedHeld
  <2>2. CASE disk'.uat = wave.uat /\ disk'.plan = wave.plan /\ wave.uat # NoUat
    BY <2>2, <1>1, <1>3, <1>4
  <2>3. CASE disk'.uat = disk.uat /\ disk'.plan = disk.plan /\ disk.uat # NoUat
    BY <2>3, <1>1, <1>3, <1>4
  <2>4. QED
    BY <2>1, <2>2, <2>3
<1>7. HeldInv'
  BY HeldStays DEF CloseInv, HeldInv
<1>8. QED
  BY <1>5, <1>6, <1>7 DEF CloseInv

\* Each step keeps it.
LEMMA CloseStep == CeremonyInv /\ CloseInv /\ [Next]_vars => CloseInv'
<1> SUFFICES ASSUME CeremonyInv, CloseInv, [Next]_vars PROVE CloseInv'
  OBVIOUS
<1>0. wave \in WaveType /\ disk \in Fields /\ ran \subseteq Records
  BY DEF CeremonyInv, ShapeInv
<1>1. CASE Decompose \/ SkipPurpleTeamIfNoGateSurface
  <2>1. ran' = ran /\ disk' = disk /\ wave'.uat = wave.uat /\ wave'.plan = wave.plan
    BY <1>0, <1>1 DEF Decompose, SkipPurpleTeamIfNoGateSurface, WaveType
  <2>2. QED
    BY <2>1, CloseKept
<1>2. ASSUME NEW session \in Session, NEW s \in {"Tested", "PurpleTeamed", "Accepted", "Closed"},
             NEW r, r = Rec(s, wave, session), ran' = ran \cup {r}, disk' = disk,
             s = "PurpleTeamed" => wave.stage = "Tested",
             s = "Accepted" => wave.stage = "PurpleTeamed",
             s = "Closed" => wave.stage = "Accepted",
             wave'.plan = wave.plan, s = "Accepted" \/ wave'.uat = wave.uat
      PROVE  CloseInv'
  <2>1. r.stage = s /\ r.plan = wave.plan /\ (r.surfaces # "none" => RequiresPurpleTeam(wave))
    BY <1>2 DEF Rec
  <2>2. HeldBefore(r)'
    BY <1>2, <2>1, NewRecordHeld
  <2>3. ran \subseteq ran' /\ \A q \in ran' \ ran : HeldBefore(q)'
    BY <1>2, <2>2
  <2>4. CASE s = "Accepted"
    <3>1. r \in ran' /\ r.plan = wave'.plan /\ r.stage = "Accepted"
      BY <1>2, <2>1, <2>4
    <3>2. RanStage(wave.plan, "Accepted")'
      BY <3>1 DEF RanStage
    <3>3. QED
      BY <1>2, <2>3, <3>2, CloseKept
  <2>5. CASE wave'.uat = wave.uat
    BY <1>2, <2>3, <2>5, CloseKept
  <2>6. QED
    BY <1>2, <2>4, <2>5
<1>3. ASSUME NEW session \in Session,
             \/ RunAdversarialSuite(session) \/ RunPurpleTeam(session) \/ Closeout(session)
             \/ \E verdicts \in Verdicts : RunUserAcceptance(verdicts, session)
      PROVE  CloseInv'
  <2>1. PICK s \in {"Tested", "PurpleTeamed", "Accepted", "Closed"} :
            /\ ran' = ran \cup {Rec(s, wave, session)} /\ disk' = disk
            /\ s = "PurpleTeamed" => wave.stage = "Tested"
            /\ s = "Accepted" => wave.stage = "PurpleTeamed"
            /\ s = "Closed" => wave.stage = "Accepted"
            /\ wave'.plan = wave.plan /\ (s = "Accepted" \/ wave'.uat = wave.uat)
    BY <1>0, <1>3
       DEF RunAdversarialSuite, RunPurpleTeam, Closeout, RunUserAcceptance, Ran, WaveType
  <2>2. QED
    BY <1>2, <2>1
<1>5. ASSUME NEW plan \in Plan, NEW paths \in SUBSET Path, Replan(plan, paths) PROVE CloseInv'
  <2>1. ran' = ran /\ disk' = disk /\ wave'.uat = NoUat
    BY <1>5 DEF Replan, NewWave
  <2>2. QED
    BY <2>1, CloseKept
<1>6. CASE Serialize
  <2>1. ran' = ran /\ disk'.uat = wave.uat /\ disk'.plan = wave.plan /\ wave' = wave
    BY <1>6 DEF Serialize, FieldsOf
  <2>2. QED
    BY <2>1, CloseKept
<1>7. ASSUME NEW s \in Stages, Deserialize(s) PROVE CloseInv'
  <2>1. ran' = ran /\ disk' = disk /\ wave'.uat = disk.uat /\ wave'.plan = disk.plan
    BY <1>7 DEF Deserialize
  <2>2. QED
    BY <2>1, CloseKept
<1>8. CASE (\E rec \in ran : Post(rec)) \/ UNCHANGED vars
  <2>1. ran' = ran /\ disk' = disk /\ wave' = wave
    BY <1>8 DEF Post, vars
  <2>2. QED
    BY <2>1, CloseKept
<1>9. QED
  BY <1>1, <1>3, <1>5, <1>6, <1>7, <1>8 DEF Next

\* Every record stands on sessions that were held under its plan.
LEMMA CloseAlways == Spec => []CloseInv
BY CloseInit, CloseStep, CeremonyAlways, PTL DEF Spec

\* A chain that the log finds complete holds the closing record of a plan that
\* went through the whole ceremony itself, and a purple-team session of a tested
\* plan if it shows a gate surface, however often the wave was planned again and
\* whatever was posted of the plans given up (session_record.rs, mod.rs).
THEOREM CompleteIsOneCeremonyCorrect == Spec => []CompleteIsOneCeremony
<1>1. CeremonyInv /\ CloseInv => CompleteIsOneCeremony
  <2> SUFFICES ASSUME CeremonyInv, CloseInv, AllRequiredStagesPresent(chain)
               PROVE  /\ \E r \in chain : r.stage = "Closed" /\ HeldBefore(r)
                      /\ (\E r \in chain : r.surfaces # "none")
                           => \E r \in chain : r.stage = "PurpleTeamed" /\ HeldBefore(r)
    BY DEF CompleteIsOneCeremony
  <2>1. \A r \in chain : HeldBefore(r)
    BY DEF CeremonyInv, ShapeInv, CloseInv, HeldInv
  <2>2. /\ \E r \in chain : r.stage = "Closed"
        /\ (\E r \in chain : r.surfaces # "none") => \E r \in chain : r.stage = "PurpleTeamed"
    BY DEF AllRequiredStagesPresent, Required
  <2>3. QED
    BY <2>1, <2>2
<1>2. QED
  BY <1>1, CeremonyAlways, CloseAlways, PTL

\* Whatever mixture of transitions, JSON and new plans led to the closeout of a
\* plan: with all of its records in the log the chain is complete, unless another
\* plan left a record with a gate surface that this one lacks (mod.rs;
\* session_record.rs).
THEOREM ClosedIsCompleteCorrect == Spec => []ClosedIsComplete
<1>1. CeremonyInv /\ CloseInv => ClosedIsComplete
  <2> SUFFICES ASSUME CloseInv, NEW r \in ran, r.stage = "Closed",
                      {q \in ran : q.plan = r.plan} \subseteq chain,
                      (\E q \in chain : q.surfaces # "none") => r.surfaces # "none"
               PROVE  AllRequiredStagesPresent(chain)
    BY DEF ClosedIsComplete
  <2>1. /\ RanStage(r.plan, "Tested") /\ RanStage(r.plan, "Accepted")
        /\ r.surfaces # "none" => RanStage(r.plan, "PurpleTeamed")
    BY Ranks DEF CloseInv, HeldInv, HeldBefore
  <2>2. \A s : RanStage(r.plan, s) => \E q \in chain : q.stage = s
    BY DEF RanStage
  <2>3. Required \subseteq {x.stage : x \in chain}
    BY <2>1, <2>2 DEF Required
  <2>4. QED
    BY <2>1, <2>2, <2>3 DEF AllRequiredStagesPresent
<1>2. QED
  BY <1>1, CeremonyAlways, CloseAlways, PTL
=============================================================================
