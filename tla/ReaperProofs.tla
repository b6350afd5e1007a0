---------------------------- MODULE ReaperProofs ----------------------------
(***************************************************************************)
(* Proofs about the kernel and the reaper, for any number of decisions,    *)
(* targets and instance names and for every TTL, leeway and deadline.      *)
(***************************************************************************)
EXTENDS Reaper, TLAPS

\* The age of a decision stays within the range that matters.
LEMMA AgedType ==
    ASSUME KernelTypeOK
    PROVE  Aged \in [Rid -> 0..AgeCap]
BY KernelAssumption DEF KernelTypeOK, Aged, AgeCap

\* The saturating counters of the poll loop stay within range.
LEMMA LaterType ==
    ASSUME NEW n \in 0..(Deadline + 1)
    PROVE  Later(n) \in 0..(Deadline + 1)
BY ReaperAssumption DEF Later

\* A freshly booted kernel and reaper are well typed.
LEMMA TypeInit == Init => TypeOK
<1> SUFFICES ASSUME Init PROVE TypeOK
  OBVIOUS
<1> USE KernelAssumption, ReaperAssumption
<1>1. client \in BOOLEAN
  BY DEF Init, KernelInit, HasClient
<1>2. KernelTypeOK
  BY <1>1 DEF Init, KernelInit, KernelTypeOK, Claims, Kind, Phase, AgeCap
<1>3. QED
  BY <1>2 DEF Init, TypeOK, LoopState, Cause

\* Handlers of the kernel keep the kernel's state well typed.
LEMMA KernelHandlersType ==
    ASSUME KernelTypeOK, KernelHandlers
    PROVE  KernelTypeOK'
<1> USE KernelAssumption DEF KernelTypeOK
<1> PICK r \in Rid :
        \/ \E caller \in Role, t \in Target :
              \/ \E tier \in RevocationTier : MintRevoke(caller, tier, r, t)
              \/ RestoreRevoke(caller, r, t)
        \/ TlogAppend(r)
        \/ RefuseUnrecorded(r)
        \/ EnqueueKill(r)
        \/ IncrementGeneration(r)
        \/ EnqueueRestore(r)
  BY DEF KernelHandlers
<1>1. ASSUME NEW caller \in Role, NEW t \in Target, NEW tier \in RevocationTier,
             MintRevoke(caller, tier, r, t)
      PROVE  KernelTypeOK'
  BY <1>1 DEF MintRevoke, Claims, Kind, Phase
<1>2. ASSUME NEW caller \in Role, NEW t \in Target, RestoreRevoke(caller, r, t)
      PROVE  KernelTypeOK'
  BY <1>2 DEF RestoreRevoke, Claims, Kind, Phase
<1>3. CASE TlogAppend(r)
  BY <1>3 DEF TlogAppend, Phase
<1>4. CASE RefuseUnrecorded(r)
  BY <1>4 DEF RefuseUnrecorded, Phase
<1>5. CASE EnqueueKill(r)
  BY <1>5 DEF EnqueueKill, EnqueuePending, Phase, Claims
<1>6. CASE IncrementGeneration(r)
  BY <1>6 DEF IncrementGeneration, Phase, Claims
<1>7. CASE EnqueueRestore(r)
  BY <1>7 DEF EnqueueRestore, EnqueuePending, Phase, Claims
<1>8. QED
  BY <1>1, <1>2, <1>3, <1>4, <1>5, <1>6, <1>7

\* Pulls and acks of the operator keep the kernel's state well typed.
LEMMA OperatorQueueCallsType ==
    ASSUME KernelTypeOK, OperatorQueueCalls
    PROVE  KernelTypeOK'
BY DEF KernelTypeOK, OperatorQueueCalls, PendingRevoke, AckRevoke, LiveTokens

\* A step that leaves the kernel alone leaves it well typed.
LEMMA KernelUnchangedType ==
    ASSUME KernelTypeOK, UNCHANGED kernelVars
    PROVE  KernelTypeOK'
BY DEF KernelTypeOK, kernelVars

\* The executor's effect, or none, leaves the instances well typed.
LEMMA EffectType ==
    ASSUME TypeOK, NEW t \in Target, NEW state \in {"running", "stopped"}, NEW c \in Cause,
           Effect(t, state, c) \/ UNCHANGED <<vm, cause, executed>>
    PROVE  /\ vm' \in [Target -> {"running", "stopped"}]
           /\ cause' \in [Target -> Cause]
           /\ executed' \in SUBSET Rid
BY DEF Effect, TypeOK

\* Every step keeps the whole state well typed.
LEMMA TypeStep ==
    ASSUME TypeOK, [Next]_vars
    PROVE  TypeOK'
<1> USE KernelAssumption, ReaperAssumption
<1>0. KernelTypeOK
  BY DEF TypeOK
<1>1. CASE KernelStep
  BY <1>0, <1>1, KernelHandlersType, OperatorQueueCallsType
     DEF KernelStep, TypeOK, reaperVars, computeVars
<1>2. CASE PullDrain
  BY <1>2 DEF PullDrain, PendingRevoke, LiveTokens, TypeOK, KernelTypeOK, LoopState, computeVars
<1>3. CASE PullAnswer
  <2>1. live' \in Nat
    BY <1>3 DEF PullAnswer, Generations, TypeOK, KernelTypeOK
  <2>2. QED
    BY <1>3, <2>1 DEF PullAnswer, TypeOK, KernelTypeOK, kernelVars, LoopState, computeVars
<1>4. CASE FailedPull
  <2>1. UNCHANGED kernelVars
    BY <1>4 DEF FailedPull, WithinDeadline, FailClosedStop, FailClosedStopError
  <2>2. KernelTypeOK'
    BY <1>0, <2>1, KernelUnchangedType
  <2>3. CASE WithinDeadline
    BY <2>2, <2>3 DEF WithinDeadline, BackToPoll, TypeOK, LoopState, computeVars
  <2>4. ASSUME FailClosedStop \/ FailClosedStopError PROVE TypeOK'
    <3>1. Effect(Watched, "stopped", "failclosed") \/ UNCHANGED <<vm, cause, executed>>
      BY <2>4 DEF FailClosedStop, FailClosedStopError, InstanceOpError, computeVars
    <3>2. /\ vm' \in [Target -> {"running", "stopped"}]
          /\ cause' \in [Target -> Cause]
          /\ executed' \in SUBSET Rid
      BY <3>1, EffectType DEF Cause
    <3>3. QED
      BY <2>2, <2>4, <3>2
         DEF FailClosedStop, FailClosedStopError, BackToPoll, TypeOK, LoopState
  <2>5. QED
    BY <1>4, <2>3, <2>4 DEF FailedPull
<1>5. CASE HandleCandidate
  <2>1. ASSUME NEW r \in Rid, RejectCandidate(r) PROVE TypeOK'
    BY <1>0, <2>1, KernelUnchangedType DEF RejectCandidate, TypeOK, computeVars
  <2>2. ASSUME NEW r \in Rid, ExecuteCandidate(r) \/ ExecutorError(r) PROVE TypeOK'
    <3> DEFINE t == claims[r].target
    <3>1. t \in Target /\ Wanted(r) \in {"running", "stopped"} /\ r \in Cause
      BY <1>0 DEF KernelTypeOK, Claims, Wanted, Cause
    <3>2. Effect(t, Wanted(r), r) \/ UNCHANGED <<vm, cause, executed>>
      BY <2>2 DEF ExecuteCandidate, ExecutorError, InstanceOpError, computeVars
    <3>3. KernelTypeOK'
      BY <1>0, <2>2, KernelUnchangedType DEF ExecuteCandidate, ExecutorError
    <3> HIDE DEF t
    <3>4. /\ vm' \in [Target -> {"running", "stopped"}]
          /\ cause' \in [Target -> Cause]
          /\ executed' \in SUBSET Rid
      BY <3>1, <3>2, EffectType
    <3>5. QED
      BY <2>2, <3>3, <3>4 DEF ExecuteCandidate, ExecutorError, TypeOK, LoopState
  <2>3. ASSUME NEW r \in Rid, RecordNonce(r) PROVE TypeOK'
    BY <1>0, <2>3, KernelUnchangedType DEF RecordNonce, TypeOK, LoopState, computeVars
  <2>4. ASSUME NEW r \in Rid, RecordAndAck(r) PROVE TypeOK'
    BY <2>4 DEF RecordAndAck, computeVars, AckRevoke, TypeOK, KernelTypeOK, LoopState
  <2>5. CASE EndBatch
    BY <1>0, <2>5, KernelUnchangedType DEF EndBatch, TypeOK, LoopState, computeVars
  <2>6. QED
    BY <1>5, <2>1, <2>2, <2>3, <2>4, <2>5 DEF HandleCandidate
<1>6. CASE ReaperCrash
  BY <1>6 DEF ReaperCrash, TypeOK, KernelTypeOK, kernelVars, LoopState, computeVars
<1>7. CASE KernelCrash
  BY <1>7 DEF KernelCrash, KernelRestart, TypeOK, KernelTypeOK, Phase, LoopState, computeVars
<1>8. CASE Tick
  BY <1>0, <1>8, AgedType, LaterType DEF Tick, TypeOK, KernelTypeOK, computeVars
<1>9. CASE UNCHANGED vars
  BY <1>9 DEF vars, reaperVars, computeVars, kernelVars, TypeOK, KernelTypeOK
<1>10. QED
  BY <1>1, <1>2, <1>3, <1>4, <1>5, <1>6, <1>7, <1>8, <1>9 DEF Next

\* The state of the kernel and of the reaper is always well typed.
THEOREM TypeCorrect == Spec => []TypeOK
<1>1. Init => TypeOK
  BY TypeInit
<1>2. TypeOK /\ [Next]_vars => TypeOK'
  BY TypeStep
<1>3. QED
  BY <1>1, <1>2, PTL DEF Spec

-----------------------------------------------------------------------------
(***************************************************************************)
(* The fence.                                                              *)
(***************************************************************************)

\* Nothing has been decided at boot, so the fence has nothing to hold yet.
LEMMA FenceInit == Init => FenceInv
<1> SUFFICES ASSUME Init PROVE FenceInv
  OBVIOUS
<1>1. TypeOK
  BY TypeInit
<1>2. PhaseInv /\ RoutingInv /\ EchoInv
  BY DEF Init, KernelInit, PhaseInv, RoutingInv, EchoInv, QueuedRids
<1>3. StampInv
  BY DEF Init, KernelInit, StampInv, StampedHere, IsKill
<1>4. CauseInv /\ FenceHolds
  BY ReaperAssumption DEF Init, CauseInv, FenceHolds
<1>5. QED
  BY <1>1, <1>2, <1>3, <1>4 DEF FenceInv

\* A kernel step that leaves alone what the decisions in the batch, or
\* executed, bind keeps what is said of the reaper.
LEMMA ReaperFrame ==
    ASSUME TypeOK, EchoInv, CauseInv, FenceHolds, UNCHANGED <<reaperVars, computeVars>>,
           \A s \in batch \cup executed : claims'[s] = claims[s] /\ order'[s] = order[s]
    PROVE  EchoInv' /\ CauseInv' /\ FenceHolds'
<1> USE DEF reaperVars, computeVars
<1>1. \A q, k \in batch \cup executed : Supersedes(q, k)' <=> Supersedes(q, k)
  BY DEF Supersedes
<1>2. EchoInv'
  BY <1>1 DEF EchoInv
<1>3. CauseInv'
  BY DEF CauseInv
<1>4. FenceHolds'
  BY <1>1 DEF FenceHolds, CauseInv
<1>5. QED
  BY <1>2, <1>3, <1>4

\* A step of a kernel handler keeps the invariant.
LEMMA FenceHandlers ==
    ASSUME FenceInv, TypeOK', KernelHandlers, UNCHANGED <<reaperVars, computeVars>>
    PROVE  FenceInv'
<1> USE KernelAssumption
<1> USE DEF FenceInv, TypeOK, KernelTypeOK, reaperVars, computeVars
<1> PICK r \in Rid :
        \/ \E caller \in Role, t \in Target :
              \/ \E tier \in RevocationTier : MintRevoke(caller, tier, r, t)
              \/ RestoreRevoke(caller, r, t)
        \/ TlogAppend(r)
        \/ RefuseUnrecorded(r)
        \/ EnqueueKill(r)
        \/ IncrementGeneration(r)
        \/ EnqueueRestore(r)
  BY DEF KernelHandlers
<1>1. ASSUME NEW caller \in Role, NEW t \in Target, NEW tier \in RevocationTier,
             MintRevoke(caller, tier, r, t)
      PROVE  FenceInv'
  <2> USE <1>1 DEF MintRevoke, Claims
  <2>1. PhaseInv'
    BY DEF PhaseInv, QueuedRids, IsKill
  <2>2. RoutingInv'
    BY DEF RoutingInv, PhaseInv, QueuedRids
  <2>3. StampInv'
    BY DEF StampInv, StampedHere, PhaseInv, Supersedes, QueuedRids, IsKill
  <2>4. EchoInv' /\ CauseInv' /\ FenceHolds'
    BY ReaperFrame DEF PhaseInv
  <2>5. QED
    BY <2>1, <2>2, <2>3, <2>4
<1>2. ASSUME NEW caller \in Role, NEW t \in Target, RestoreRevoke(caller, r, t)
      PROVE  FenceInv'
  <2> USE <1>2 DEF RestoreRevoke, Claims
  <2>1. PhaseInv'
    BY DEF PhaseInv, QueuedRids, IsKill
  <2>2. RoutingInv'
    BY DEF RoutingInv, PhaseInv, QueuedRids
  <2>3. StampInv'
    BY DEF StampInv, StampedHere, PhaseInv, Supersedes, QueuedRids, IsKill
  <2>4. EchoInv' /\ CauseInv' /\ FenceHolds'
    BY ReaperFrame DEF PhaseInv
  <2>5. QED
    BY <2>1, <2>2, <2>3, <2>4
<1>3. CASE TlogAppend(r) \/ RefuseUnrecorded(r)
  <2> USE <1>3 DEF TlogAppend, RefuseUnrecorded
  <2>1. PhaseInv'
    BY DEF PhaseInv, QueuedRids, IsKill
  <2>2. RoutingInv' /\ EchoInv' /\ CauseInv' /\ FenceHolds'
    BY DEF RoutingInv, EchoInv, CauseInv, FenceHolds, Supersedes
  <2>3. StampInv'
    BY DEF StampInv, StampedHere, Supersedes, QueuedRids, IsKill
  <2>4. QED
    BY <2>1, <2>2, <2>3
<1>4. CASE EnqueueKill(r) \/ EnqueueRestore(r)
  <2>1. /\ phase' = [phase EXCEPT ![r] = "queued"]
        /\ phase[r] = "passed" \/ phase[r] = "granted"
        /\ phase[r] = "passed" => IsKill(r)
        /\ client' = client /\ claims' = claims /\ tlog' = tlog /\ generation' = generation
        /\ order' = order /\ grants' = grants
    BY <1>4 DEF EnqueueKill, EnqueueRestore, IsKill
  <2>2. \A i \in Instance : \A p \in pending'[i] :
            p \in pending[i] \/ (p = r /\ i = InstanceOf[claims[r].target])
    BY <1>4 DEF EnqueueKill, EnqueueRestore, EnqueuePending, Claims
  <2>3. QueuedRids' \subseteq QueuedRids \cup {r}
    BY <2>2 DEF QueuedRids
  <2>4. PhaseInv'
    BY <2>1, <2>3 DEF PhaseInv, IsKill
  <2>5. RoutingInv'
    BY <2>1, <2>2 DEF RoutingInv
  <2>6. EchoInv' /\ CauseInv' /\ FenceHolds'
    BY <2>1 DEF EchoInv, CauseInv, FenceHolds, Supersedes
  <2>7. \A k \in Rid : StampedHere(k)' => StampedHere(k)
    BY <2>1, <2>3 DEF StampedHere, PhaseInv, IsKill
  <2>8. StampInv'
    BY <2>1, <2>7 DEF StampInv, Supersedes
  <2>9. QED
    BY <2>4, <2>5, <2>6, <2>8
<1>5. CASE IncrementGeneration(r)
  <2> USE <1>5 DEF IncrementGeneration, Claims
  <2>1. PhaseInv'
    BY DEF PhaseInv, QueuedRids, IsKill
  <2>2. RoutingInv'
    BY DEF RoutingInv
  <2>3. \A q \in Rid : order'[q] <= grants'
    BY DEF StampInv
  <2>4. \A k \in Rid : StampedHere(k)' => StampedHere(k)
    BY DEF StampedHere, QueuedRids, IsKill
  <2>5. ASSUME NEW k \in Rid, StampedHere(k)'
        PROVE  /\ claims[k].gen <= generation'[claims[k].target]
               /\ \A q \in Rid : Supersedes(q, k)' =>
                      claims[k].gen < generation'[claims[k].target]
    <3>1. IsKill(k) /\ k # r
      BY <2>4, <2>5 DEF StampedHere, IsKill
    <3>2. /\ claims[k].gen \in Nat
          /\ claims[k].target \in Target
          /\ claims[k].gen <= generation[claims[k].target]
          /\ \A q \in Rid : Supersedes(q, k) => claims[k].gen < generation[claims[k].target]
      BY <2>4, <2>5 DEF StampInv
    <3>3. generation'[claims[k].target] = generation[claims[k].target]
          \/ generation'[claims[k].target] = generation[claims[k].target] + 1
      BY <3>2
    <3>4. ASSUME NEW q \in Rid, Supersedes(q, k)'
          PROVE  claims[k].gen < generation'[claims[k].target]
      <4>1. CASE q = r
        BY <3>2, <3>4, <4>1 DEF Supersedes
      <4>2. CASE q # r
        BY <3>1, <3>2, <3>3, <3>4, <4>2 DEF Supersedes
      <4>3. QED
        BY <4>1, <4>2
    <3>5. QED
      BY <3>2, <3>3, <3>4
  <2>6. StampInv'
    BY <2>3, <2>5 DEF StampInv
  <2>7. EchoInv' /\ CauseInv' /\ FenceHolds'
    BY ReaperFrame DEF PhaseInv
  <2>8. QED
    BY <2>1, <2>2, <2>6, <2>7
<1>6. QED
  BY <1>1, <1>2, <1>3, <1>4, <1>5

\* Entries leave the queues and the rest of the kernel stands still: sweeps,
\* acks and ticks.  The batch may only shrink or be dropped.
LEMMA ShrinkFrame ==
    ASSUME FenceInv, TypeOK',
           UNCHANGED <<client, claims, phase, tlog, generation, grants, order>>,
           \A i \in Instance : pending'[i] \subseteq pending[i],
           batch' \subseteq batch,
           rpc' = "drained" => rpc = "drained",
           UNCHANGED <<cause, executed>>,
           rpc' \in {"batch", "acted", "marked"} =>
               rpc \in {"batch", "acted", "marked"} /\ live' = live
    PROVE  FenceInv'
<1> USE DEF FenceInv, TypeOK, KernelTypeOK
<1>1. QueuedRids' \subseteq QueuedRids
  BY DEF QueuedRids
<1>2. PhaseInv'
  BY <1>1 DEF PhaseInv, IsKill
<1>3. RoutingInv'
  BY DEF RoutingInv
<1>4. \A k \in Rid : StampedHere(k)' => StampedHere(k)
  BY <1>1 DEF StampedHere, IsKill
<1>5. StampInv'
  BY <1>4 DEF StampInv, Supersedes
<1>6. EchoInv'
  BY DEF EchoInv, Supersedes
<1>7. CauseInv' /\ FenceHolds'
  BY DEF CauseInv, FenceHolds, Supersedes
<1>8. QED
  BY <1>2, <1>3, <1>5, <1>6, <1>7

\* An instance is stopped or started on behalf of an admitted candidate.
LEMMA EffectStep ==
    ASSUME FenceInv, TypeOK', UNCHANGED kernelVars,
           NEW r \in batch, rpc = "batch", Admitted(r),
           Effect(claims[r].target, Wanted(r), r),
           batch' \subseteq batch, live' = live, rpc' # "drained"
    PROVE  FenceInv'
<1> USE DEF FenceInv, TypeOK, KernelTypeOK, kernelVars
<1>1. r \in Rid /\ claims[r].target \in Target
  BY DEF Claims
<1>2. /\ cause' = [cause EXCEPT ![claims[r].target] = r]
      /\ executed' = executed \cup {r}
  BY <1>1 DEF Effect
<1>3. \A q, k \in Rid : Supersedes(q, k)' <=> Supersedes(q, k)
  BY DEF Supersedes
<1>4. PhaseInv'
  BY <1>2 DEF PhaseInv, QueuedRids, IsKill
<1>5. RoutingInv'
  BY DEF RoutingInv
<1>6. \A k \in Rid : StampedHere(k)' => StampedHere(k)
  BY DEF StampedHere, QueuedRids, IsKill
<1>7. StampInv'
  BY <1>3, <1>6 DEF StampInv
<1>8. EchoInv'
  BY <1>1, <1>2, <1>3 DEF EchoInv
<1>9. CauseInv'
  BY <1>1, <1>2 DEF CauseInv
<1>10. ASSUME NEW t \in Target, NEW q \in executed', cause'[t] \in Rid, Supersedes(q, cause'[t])
       PROVE  FALSE
  <2>1. CASE t = claims[r].target
    <3>1. cause'[t] = r /\ IsKill(r) /\ claims[r].gen = live
      BY <1>2, <1>10, <2>1 DEF Supersedes, IsKill, Admitted, HonourRevocation
    <3>2. q \in executed \cup batch /\ Supersedes(q, r)
      BY <1>2, <1>10, <3>1
    <3>3. claims[r].gen < live
      BY <3>2 DEF EchoInv
    <3>4. QED
      BY <3>1, <3>3
  <2>2. CASE t # claims[r].target
    <3>1. cause'[t] = cause[t] /\ claims[cause[t]].target = t
      BY <1>2, <1>10, <2>2 DEF CauseInv
    <3>2. q # r
      BY <1>10, <2>2, <3>1 DEF Supersedes
    <3>3. QED
      BY <1>2, <1>10, <3>1, <3>2 DEF FenceHolds
  <2>3. QED
    BY <2>1, <2>2
<1>11. FenceHolds'
  BY <1>3, <1>10 DEF FenceHolds
<1>12. QED
  BY <1>4, <1>5, <1>7, <1>8, <1>9, <1>11

\* The fail-closed stop names no decision.
LEMMA FailClosedStep ==
    ASSUME FenceInv, TypeOK', UNCHANGED kernelVars, BackToPoll,
           \/ UNCHANGED computeVars
           \/ Effect(Watched, "stopped", "failclosed")
    PROVE  FenceInv'
<1> USE ReaperAssumption DEF FenceInv, TypeOK, KernelTypeOK, kernelVars, BackToPoll
<1>1. /\ executed' = executed
      /\ \A t \in Target : cause'[t] \in Rid => cause'[t] = cause[t]
  <2>0. "failclosed" \notin Rid
    OBVIOUS
  <2>1. CASE UNCHANGED computeVars
    BY <2>1 DEF computeVars
  <2>2. CASE Effect(Watched, "stopped", "failclosed")
    <3>1. executed' = executed \cup ({"failclosed"} \cap Rid)
      BY <2>2 DEF Effect
    <3>2. cause' = [cause EXCEPT ![Watched] = "failclosed"]
      BY <2>2 DEF Effect
    <3>3. executed' = executed
      BY <2>0, <3>1
    <3>4. QED
      BY <2>0, <3>2, <3>3
  <2>3. QED
    BY <2>1, <2>2
<1>2. PhaseInv' /\ RoutingInv' /\ EchoInv'
  BY <1>1 DEF PhaseInv, RoutingInv, EchoInv, QueuedRids, IsKill
<1>3. \A k \in Rid : StampedHere(k)' => StampedHere(k)
  BY DEF StampedHere, QueuedRids, IsKill
<1>4. StampInv'
  BY <1>3 DEF StampInv, Supersedes
<1>5. CauseInv' /\ FenceHolds'
  BY <1>1 DEF CauseInv, FenceHolds, Supersedes
<1>6. QED
  BY <1>2, <1>4, <1>5

\* The answer to a pull: the queue was read before the generation, so every
\* kill in the answer that has been superseded is behind what is echoed.
LEMMA PullAnswerStep ==
    ASSUME FenceInv, TypeOK', PullAnswer
    PROVE  FenceInv'
<1> USE KernelAssumption, ReaperAssumption
<1> USE DEF FenceInv, TypeOK, KernelTypeOK, kernelVars, PullAnswer, computeVars
<1>1. PhaseInv' /\ RoutingInv'
  BY DEF PhaseInv, RoutingInv, QueuedRids, IsKill
<1>2. \A k \in Rid : StampedHere(k)' => StampedHere(k)
  BY DEF StampedHere, QueuedRids, IsKill
<1>3. StampInv'
  BY <1>2 DEF StampInv, Supersedes
<1>4. ASSUME NEW k \in batch, NEW q \in Rid, Supersedes(q, k)
      PROVE  claims[k].gen < live'
  <2>1. StampedHere(k) /\ k \in Rid
    BY <1>4 DEF StampedHere, Supersedes, IsKill
  <2>2. claims[k].gen < generation[claims[k].target]
    BY <1>4, <2>1 DEF StampInv
  <2>3. claims[k].target \in Target /\ InstanceOf[claims[k].target] = InstanceOf[Watched]
    BY <2>1 DEF RoutingInv, Claims
  <2>4. generation[claims[k].target] \in Generations(InstanceOf[Watched])
    BY <2>3 DEF Generations
  <2>5. generation[claims[k].target] <= live'
    BY <2>4
  <2>6. claims[k].gen \in Nat /\ generation[claims[k].target] \in Nat /\ live' \in Nat
    BY <2>1, <2>3 DEF Claims
  <2>7. QED
    BY <2>2, <2>5, <2>6
<1>5. EchoInv'
  <2> SUFFICES ASSUME NEW k \in batch, NEW q \in executed \cup batch, Supersedes(q, k)
               PROVE  claims[k].gen < live'
    BY DEF EchoInv, Supersedes
  <2> QED
    BY <1>4
<1>6. CauseInv' /\ FenceHolds'
  BY DEF CauseInv, FenceHolds, Supersedes
<1>7. QED
  BY <1>1, <1>3, <1>5, <1>6

\* Every step keeps the invariant.
LEMMA FenceStep ==
    ASSUME FenceInv, [Next]_vars
    PROVE  FenceInv'
<1>0. TypeOK /\ TypeOK'
  BY TypeStep DEF FenceInv
<1>1. CASE KernelStep
  <2>1. CASE KernelHandlers
    BY <1>0, <1>1, <2>1, FenceHandlers DEF KernelStep
  <2>2. CASE OperatorQueueCalls
    <3>1. \A i \in Instance : pending'[i] \subseteq pending[i]
      BY <1>0, <2>2 DEF OperatorQueueCalls, PendingRevoke, AckRevoke, LiveTokens, TypeOK, KernelTypeOK
    <3>2. QED
      BY <1>0, <1>1, <2>2, <3>1, ShrinkFrame
         DEF KernelStep, OperatorQueueCalls, reaperVars, computeVars
  <2>3. QED
    BY <1>1, <2>1, <2>2 DEF KernelStep
<1>2. CASE PullDrain
  <2> USE <1>0, <1>2, KernelAssumption, ReaperAssumption
  <2> USE DEF FenceInv, TypeOK, KernelTypeOK, PullDrain, PendingRevoke, LiveTokens, computeVars
  <2>1. QueuedRids' \subseteq QueuedRids /\ batch' \subseteq QueuedRids
    BY DEF QueuedRids
  <2>2. PhaseInv'
    BY <2>1 DEF PhaseInv, IsKill
  <2>3. RoutingInv'
    BY DEF RoutingInv
  <2>4. \A k \in Rid : StampedHere(k)' => StampedHere(k)
    BY <2>1 DEF StampedHere, IsKill
  <2>5. StampInv'
    BY <2>4 DEF StampInv, Supersedes
  <2>6. EchoInv' /\ CauseInv' /\ FenceHolds'
    BY DEF EchoInv, CauseInv, FenceHolds, Supersedes
  <2>7. QED
    BY <2>2, <2>3, <2>5, <2>6
<1>3. CASE PullAnswer
  BY <1>0, <1>3, PullAnswerStep
<1>4. CASE FailedPull
  BY <1>0, <1>4, FailClosedStep
     DEF FailedPull, WithinDeadline, FailClosedStop, FailClosedStopError, InstanceOpError
<1>5. CASE HandleCandidate
  <2>1. ASSUME NEW r \in Rid, RejectCandidate(r) PROVE FenceInv'
    BY <1>0, <2>1, ShrinkFrame DEF RejectCandidate, kernelVars, computeVars
  <2>2. ASSUME NEW r \in Rid, ExecuteCandidate(r) PROVE FenceInv'
    BY <1>0, <2>2, EffectStep DEF ExecuteCandidate, IsNext
  <2>3. ASSUME NEW r \in Rid, ExecutorError(r) PROVE FenceInv'
    <3>1. CASE UNCHANGED computeVars
      BY <1>0, <2>3, <3>1, ShrinkFrame DEF ExecutorError, kernelVars, computeVars
    <3>2. CASE Effect(claims[r].target, Wanted(r), r)
      BY <1>0, <2>3, <3>2, EffectStep DEF ExecutorError, IsNext
    <3>3. QED
      BY <2>3, <3>1, <3>2 DEF ExecutorError, InstanceOpError
  <2>4. ASSUME NEW r \in Rid, RecordNonce(r) PROVE FenceInv'
    BY <1>0, <2>4, ShrinkFrame DEF RecordNonce, kernelVars, computeVars
  <2>5. ASSUME NEW r \in Rid, RecordAndAck(r) PROVE FenceInv'
    <3>1. \A i \in Instance : pending'[i] \subseteq pending[i]
      BY <2>5 DEF RecordAndAck, AckRevoke
    <3>2. QED
      BY <1>0, <2>5, <3>1, ShrinkFrame DEF RecordAndAck, computeVars
  <2>6. CASE EndBatch
    BY <1>0, <2>6, ShrinkFrame DEF EndBatch, kernelVars, computeVars
  <2>7. QED
    BY <1>5, <2>1, <2>2, <2>3, <2>4, <2>5, <2>6 DEF HandleCandidate
<1>6. CASE ReaperCrash
  BY <1>0, <1>6, ShrinkFrame DEF ReaperCrash, kernelVars, computeVars
<1>7. CASE KernelCrash
  <2> USE <1>0, <1>7
  <2> USE DEF FenceInv, TypeOK, KernelTypeOK, KernelCrash, KernelRestart, computeVars
  <2>1. QueuedRids' = {}
    BY DEF QueuedRids
  <2>2. PhaseInv'
    BY <2>1 DEF PhaseInv, IsKill
  <2>3. RoutingInv'
    BY DEF RoutingInv
  <2>4. \A k \in Rid : ~StampedHere(k)'
    BY <2>1 DEF StampedHere
  <2>5. StampInv'
    BY <2>4 DEF StampInv
  <2>6. EchoInv' /\ CauseInv' /\ FenceHolds'
    BY DEF EchoInv, CauseInv, FenceHolds, Supersedes
  <2>7. QED
    BY <2>2, <2>3, <2>5, <2>6
<1>8. CASE Tick
  BY <1>0, <1>8, ShrinkFrame DEF Tick, computeVars
<1>9. CASE UNCHANGED vars
  BY <1>0, <1>9, ShrinkFrame DEF vars, kernelVars, reaperVars, computeVars
<1>10. QED
  BY <1>1, <1>2, <1>3, <1>4, <1>5, <1>6, <1>7, <1>8, <1>9 DEF Next

\* The invariant holds in every reachable state.
LEMMA FenceInvariant == Spec => []FenceInv
<1>1. Init => FenceInv
  BY FenceInit
<1>2. FenceInv /\ [Next]_vars => FenceInv'
  BY FenceStep
<1>3. QED
  BY <1>1, <1>2, PTL DEF Spec

\* honour_revocation's promise, for every interleaving of kills, restores,
\* pulls, crashes and lost answers: a kill never undoes a restore that was
\* granted after the kill was stamped.
THEOREM FenceCorrect == Spec => []FenceHolds
<1>1. FenceInv => FenceHolds
  BY DEF FenceInv
<1>2. QED
  BY <1>1, FenceInvariant, PTL

\* tlog_append_failclosed's promise: a kernel with a client for the log, and
\* so every production kernel that was not told to do without it, queues no
\* decision that the log does not hold, and the reaper pulls and acts on none.
THEOREM LogCorrect == Spec => []NothingUnlogged
<1>1. ObligedClients \subseteq {TRUE}
  <2>1. ASSUME NEW e \in KernelEnv, Boots(e), Obliged(e) PROVE HasClient(e)
    <3>1. TransparencyEnabled(e)
      BY <2>1 DEF Obliged, TransparencyEnabled, KernelEnv
    <3>2. QED
      BY <2>1, <3>1 DEF Obliged, Boots, ClientBuilt, HasClient
  <2>2. \A e \in Booted : Obliged(e) => HasClient(e) = TRUE
    BY <2>1 DEF Booted, HasClient
  <2>3. QED
    BY <2>2 DEF ObligedClients
<1>2. FenceInv => NothingUnlogged
  <2> SUFFICES ASSUME FenceInv, client \/ client \in ObligedClients
               PROVE  executed \subseteq tlog /\ QueuedRids \subseteq tlog /\ batch \subseteq tlog
    BY DEF NothingUnlogged
  <2>1. client
    BY <1>1
  <2>2. \A r \in Rid : phase[r] = "queued" => r \in tlog
    BY <2>1 DEF FenceInv, PhaseInv
  <2>3. \A r \in QueuedRids \cup batch \cup executed : r \in Rid /\ phase[r] = "queued"
    BY DEF FenceInv, PhaseInv, TypeOK, QueuedRids
  <2>4. QED
    BY <2>2, <2>3
<1>3. QED
  BY <1>2, FenceInvariant, PTL

-----------------------------------------------------------------------------
(***************************************************************************)
(* The fence is precise.  Where two targets share a name, a grant of one   *)
(* raises the generation that is echoed for both, and a kill of the other  *)
(* is turned away too: that is the one exception.                          *)
(***************************************************************************)

\* q has established a grant.
Granted(q) == claims[q].kind = "restore" /\ order[q] > 0

\* A target whose generation has moved was granted one.
GrantInv ==
    \A t \in Target : generation[t] > 0 =>
        \E q \in Rid : Granted(q) /\ claims[q].target = t

\* A kill that is behind its target's generation was overtaken by a grant; one
\* that is not what was echoed was overtaken, or a namesake was granted.
PreciseInv ==
    /\ \A k \in Rid : StampedHere(k) /\ claims[k].gen # generation[claims[k].target]
          => \E q \in Rid : Supersedes(q, k)
    /\ rpc \in {"batch", "acted", "marked"} =>
          \A k \in batch : IsKill(k) /\ claims[k].gen # live
              => \E q \in Rid : Supersedes(q, k) \/ GrantedNamesake(q, k)

\* What was decided stays decided: no step changes the claims of a run id in
\* use, or takes a grant back.
LEMMA DecidedKept ==
    ASSUME FenceInv, [Next]_vars, NEW q \in Rid, phase[q] # "free"
    PROVE  claims'[q] = claims[q] /\ (Granted(q) => Granted(q)')
<1>0. KernelTypeOK
  BY DEF FenceInv, TypeOK
<1>1. ASSUME KernelHandlers PROVE claims'[q] = claims[q] /\ (order'[q] = order[q] \/ order'[q] > 0)
  <2> PICK r \in Rid :
        \/ \E caller \in Role, t \in Target :
              \/ \E tier \in RevocationTier : MintRevoke(caller, tier, r, t)
              \/ RestoreRevoke(caller, r, t)
        \/ TlogAppend(r)
        \/ RefuseUnrecorded(r)
        \/ EnqueueKill(r)
        \/ IncrementGeneration(r)
        \/ EnqueueRestore(r)
    BY <1>1 DEF KernelHandlers
  <2>1. ASSUME NEW caller \in Role, NEW t \in Target,
               \/ \E tier \in RevocationTier : MintRevoke(caller, tier, r, t)
               \/ RestoreRevoke(caller, r, t)
        PROVE  claims'[q] = claims[q] /\ order'[q] = order[q]
    <3>1. r # q /\ claims \in [Rid -> Claims] /\ order \in [Rid -> Nat]
      BY <1>0, <2>1 DEF MintRevoke, RestoreRevoke, KernelTypeOK
    <3>2. QED
      BY <2>1, <3>1 DEF MintRevoke, RestoreRevoke
  <2>2. CASE IncrementGeneration(r)
    BY <1>0, <2>2 DEF IncrementGeneration, KernelTypeOK
  <2>3. CASE TlogAppend(r) \/ RefuseUnrecorded(r) \/ EnqueueKill(r) \/ EnqueueRestore(r)
    BY <2>3 DEF TlogAppend, RefuseUnrecorded, EnqueueKill, EnqueueRestore
  <2>4. QED
    BY <2>1, <2>2, <2>3
<1>2. ASSUME ~KernelHandlers PROVE claims' = claims /\ order' = order
  BY <1>2 DEF Next, KernelStep, OperatorQueueCalls, PullDrain, PullAnswer, FailedPull,
       WithinDeadline, FailClosedStop, FailClosedStopError, HandleCandidate, RejectCandidate,
       ExecuteCandidate, ExecutorError, RecordNonce, RecordAndAck, EndBatch, ReaperCrash,
       KernelCrash, KernelRestart, Tick, vars, kernelVars
<1>3. QED
  BY <1>1, <1>2 DEF Granted

\* Each step keeps the grants behind the generations.
LEMMA GrantStep ==
    ASSUME FenceInv, GrantInv, [Next]_vars
    PROVE  GrantInv'
<1> SUFFICES ASSUME NEW t \in Target, generation'[t] > 0
             PROVE  \E q \in Rid : Granted(q)' /\ claims'[q].target = t
  BY DEF GrantInv
<1>0. KernelTypeOK
  BY DEF FenceInv, TypeOK
<1>1. CASE generation'[t] = generation[t]
  <2>1. PICK q \in Rid : Granted(q) /\ claims[q].target = t
    BY <1>1 DEF GrantInv
  <2>2. phase[q] # "free"
    BY <2>1 DEF Granted, FenceInv, PhaseInv
  <2>3. QED
    BY <2>1, <2>2, DecidedKept
<1>2. CASE generation'[t] # generation[t]
  <2>1. \E r \in Rid : IncrementGeneration(r)
    <3>1. ASSUME KernelHandlers, ~\E r \in Rid : IncrementGeneration(r)
          PROVE  generation' = generation
      BY <3>1 DEF KernelHandlers, MintRevoke, RestoreRevoke, TlogAppend, RefuseUnrecorded,
                  EnqueueKill, EnqueueRestore
    <3>2. ASSUME ~KernelHandlers, ~KernelCrash PROVE generation' = generation
      BY <3>2 DEF Next, KernelStep, OperatorQueueCalls, PullDrain, PullAnswer, FailedPull,
           WithinDeadline, FailClosedStop, FailClosedStopError, HandleCandidate,
           RejectCandidate, ExecuteCandidate, ExecutorError, RecordNonce, RecordAndAck,
           EndBatch, ReaperCrash, Tick, vars, kernelVars
    <3>3. ~KernelCrash
      BY DEF KernelCrash, KernelRestart
    <3>4. QED
      BY <1>2, <3>1, <3>2, <3>3
  <2>2. PICK r \in Rid : IncrementGeneration(r)
    BY <2>1
  <2>3. claims[r].target = t
    BY <1>0, <1>2, <2>2 DEF IncrementGeneration, KernelTypeOK
  <2>4. Granted(r)' /\ claims' = claims
    BY <1>0, <2>2 DEF IncrementGeneration, KernelTypeOK, Granted
  <2>5. QED
    BY <2>3, <2>4
<1>3. QED
  BY <1>1, <1>2

\* Nothing is stamped at boot.
LEMMA PreciseInit == Init => PreciseInv /\ GrantInv
BY DEF Init, KernelInit, PreciseInv, GrantInv, StampedHere, IsKill

\* A step that leaves the stamps and the generations alone, and hands out no
\* batch, keeps it.
LEMMA PreciseKept ==
    ASSUME FenceInv, PreciseInv, generation' = generation,
           \A k, q \in Rid : Supersedes(q, k) => Supersedes(q, k)',
           \A k \in Rid : StampedHere(k)' => StampedHere(k) /\ claims'[k] = claims[k],
           batch' \subseteq batch, batch' \subseteq Rid,
           \A k \in batch : claims'[k] = claims[k],
           \A k \in batch, q \in Rid : GrantedNamesake(q, k) => GrantedNamesake(q, k)',
           rpc' \in {"batch", "acted", "marked"} =>
               rpc \in {"batch", "acted", "marked"} /\ live' = live
    PROVE  PreciseInv'
BY DEF PreciseInv, IsKill

\* Each step keeps it.
LEMMA PreciseStep ==
    ASSUME FenceInv, FenceInv', GrantInv, PreciseInv, [Next]_vars
    PROVE  PreciseInv'
<1> USE KernelAssumption, ReaperAssumption
<1>0. TypeOK /\ TypeOK' /\ KernelTypeOK /\ batch \subseteq Rid /\ batch' \subseteq Rid
  BY DEF FenceInv, TypeOK
<1>a. \A r \in QueuedRids \cup batch : phase[r] = "queued"
  BY DEF FenceInv, PhaseInv
<1>b. \A q, k \in Rid : UNCHANGED <<claims, order>> => (Supersedes(q, k) <=> Supersedes(q, k)')
  BY DEF Supersedes
<1>c. \A k \in batch, q \in Rid : GrantedNamesake(q, k) => GrantedNamesake(q, k)'
  <2> SUFFICES ASSUME NEW k \in batch, NEW q \in Rid, GrantedNamesake(q, k)
               PROVE  GrantedNamesake(q, k)'
    OBVIOUS
  <2>1. Granted(q) /\ phase[q] # "free"
    BY DEF GrantedNamesake, Granted, FenceInv, PhaseInv
  <2>2. k \in Rid /\ phase[k] # "free"
    BY <1>0, <1>a
  <2>3. claims'[q] = claims[q] /\ Granted(q)' /\ claims'[k] = claims[k]
    BY <2>1, <2>2, DecidedKept
  <2>4. QED
    BY <2>3 DEF GrantedNamesake, Granted
<1>1. CASE KernelHandlers /\ UNCHANGED <<reaperVars, computeVars>>
  <2> PICK r \in Rid :
        \/ \E caller \in Role, t \in Target :
              \/ \E tier \in RevocationTier : MintRevoke(caller, tier, r, t)
              \/ RestoreRevoke(caller, r, t)
        \/ TlogAppend(r)
        \/ RefuseUnrecorded(r)
        \/ EnqueueKill(r)
        \/ IncrementGeneration(r)
        \/ EnqueueRestore(r)
    BY <1>1 DEF KernelHandlers
  <2>0. rpc' = rpc /\ batch' = batch /\ live' = live
    BY <1>1 DEF reaperVars
  <2>1. ASSUME NEW caller \in Role, NEW t \in Target, NEW tier \in RevocationTier,
               MintRevoke(caller, tier, r, t)
        PROVE  PreciseInv'
    <3>1. /\ phase[r] = "free" /\ claims[r].kind = "none" /\ r \notin QueuedRids \cup batch
          /\ claims'[r].gen = generation'[claims'[r].target]
          /\ \A k \in Rid \ {r} : claims'[k] = claims[k] /\ order'[k] = order[k]
          /\ phase' = [phase EXCEPT ![r] = "appending"]
          /\ pending' = pending /\ generation' = generation
      BY <1>0, <1>a, <2>1 DEF MintRevoke, FenceInv, PhaseInv, KernelTypeOK
    <3>2. \A k, q \in Rid : Supersedes(q, k) => Supersedes(q, k)'
      BY <3>1 DEF Supersedes
    <3>3. \A k \in Rid \ {r} : StampedHere(k)' => StampedHere(k)
      BY <1>0, <2>0, <3>1 DEF StampedHere, IsKill, QueuedRids, KernelTypeOK
    <3>4. \A k \in batch : claims'[k] = claims[k]
      BY <1>0, <3>1
    <3>5. QED
      BY <1>0, <1>c, <2>0, <3>1, <3>2, <3>3, <3>4 DEF PreciseInv, IsKill
  <2>2. ASSUME NEW caller \in Role, NEW t \in Target, RestoreRevoke(caller, r, t)
        PROVE  PreciseInv'
    <3>1. /\ phase[r] = "free" /\ claims[r].kind = "none" /\ r \notin QueuedRids \cup batch
          /\ claims'[r].kind = "restore"
          /\ \A k \in Rid \ {r} : claims'[k] = claims[k] /\ order'[k] = order[k]
          /\ phase' = [phase EXCEPT ![r] = "appending"]
          /\ pending' = pending /\ generation' = generation
      BY <1>0, <1>a, <2>2 DEF RestoreRevoke, FenceInv, PhaseInv, KernelTypeOK
    <3>2. \A k, q \in Rid : Supersedes(q, k) => Supersedes(q, k)'
      BY <3>1 DEF Supersedes
    <3>3. \A k \in Rid : StampedHere(k)' => StampedHere(k) /\ claims'[k] = claims[k]
      BY <1>0, <2>0, <3>1 DEF StampedHere, IsKill, QueuedRids, KernelTypeOK
    <3>4. \A k \in batch : claims'[k] = claims[k]
      BY <1>0, <3>1
    <3>5. QED
      BY <1>0, <2>0, <3>1, <3>2, <3>3, <3>4, <1>c, PreciseKept
  <2>3. CASE TlogAppend(r) \/ RefuseUnrecorded(r)
    <3>1. UNCHANGED <<claims, order, pending, generation>>
      BY <2>3 DEF TlogAppend, RefuseUnrecorded
    <3>2. \A k \in Rid : StampedHere(k)' => StampedHere(k)
      BY <1>0, <2>0, <2>3, <3>1
         DEF TlogAppend, RefuseUnrecorded, StampedHere, IsKill, QueuedRids, KernelTypeOK
    <3>3. QED
      BY <1>0, <1>b, <2>0, <3>1, <3>2, <1>c, PreciseKept
  <2>4. CASE EnqueueKill(r) \/ EnqueueRestore(r)
    <3>1. /\ phase' = [phase EXCEPT ![r] = "queued"]
          /\ phase[r] = "passed" \/ phase[r] = "granted"
          /\ UNCHANGED <<claims, order, generation>>
      BY <2>4 DEF EnqueueKill, EnqueueRestore
    <3>2. QueuedRids' \subseteq QueuedRids \cup {r}
      BY <1>0, <2>4 DEF EnqueueKill, EnqueueRestore, EnqueuePending, QueuedRids, KernelTypeOK,
                        Claims
    <3>3. phase[r] = "granted" => ~IsKill(r)
      BY DEF FenceInv, PhaseInv
    <3>4. \A k \in Rid : StampedHere(k)' => StampedHere(k)
      BY <1>0, <2>0, <3>1, <3>2, <3>3 DEF StampedHere, IsKill, KernelTypeOK
    <3>5. QED
      BY <1>0, <1>b, <2>0, <3>1, <3>4, <1>c, PreciseKept
  <2>5. CASE IncrementGeneration(r)
    <3>1. /\ claims[r].kind = "restore" /\ phase[r] = "passed"
          /\ generation' = [generation EXCEPT ![claims[r].target] = @ + 1]
          /\ order' = [order EXCEPT ![r] = grants + 1]
          /\ phase' = [phase EXCEPT ![r] = "granted"]
          /\ UNCHANGED <<claims, pending>>
      BY <2>5 DEF IncrementGeneration
    <3>2. /\ order \in [Rid -> Nat] /\ grants \in Nat /\ \A k \in Rid : order[k] <= grants
          /\ order[r] = 0 /\ generation \in [Target -> Nat]
          /\ \A k \in Rid : claims[k].target \in Target
      BY <1>0, <3>1 DEF FenceInv, StampInv, PhaseInv, KernelTypeOK, IsKill, Claims
    <3>3. \A k, q \in Rid : Supersedes(q, k) => Supersedes(q, k)'
      BY <3>1, <3>2 DEF Supersedes
    <3>4. \A k \in Rid : StampedHere(k)' => StampedHere(k)
      BY <1>0, <2>0, <3>1 DEF StampedHere, IsKill, QueuedRids, KernelTypeOK
    <3>5. \A k \in Rid : IsKill(k) /\ claims[k].target = claims[r].target => Supersedes(r, k)'
      BY <3>1, <3>2 DEF Supersedes, IsKill
    <3>6. \A k \in Rid : claims[k].target # claims[r].target
             => generation'[claims[k].target] = generation[claims[k].target]
      BY <3>1, <3>2
    <3>7. ASSUME NEW k \in Rid, StampedHere(k)', claims[k].gen # generation'[claims[k].target]
          PROVE  \E q \in Rid : Supersedes(q, k)'
      <4>1. IsKill(k) /\ StampedHere(k)
        BY <3>4, <3>7 DEF StampedHere
      <4>2. CASE claims[k].target = claims[r].target
        BY <3>5, <4>1, <4>2
      <4>3. CASE claims[k].target # claims[r].target
        BY <3>3, <3>6, <3>7, <4>1, <4>3 DEF PreciseInv
      <4>4. QED
        BY <4>2, <4>3
    <3>8. QED
      BY <1>0, <1>c, <2>0, <3>1, <3>3, <3>7 DEF PreciseInv, IsKill
  <2>6. QED
    BY <2>1, <2>2, <2>3, <2>4, <2>5
<1>2. CASE OperatorQueueCalls /\ UNCHANGED <<reaperVars, computeVars>>
  <2>1. QueuedRids' \subseteq QueuedRids
    BY <1>0, <1>2 DEF OperatorQueueCalls, PendingRevoke, AckRevoke, LiveTokens, QueuedRids,
                      KernelTypeOK
  <2>2. \A k \in Rid : StampedHere(k)' => StampedHere(k)
    BY <1>2, <2>1 DEF StampedHere, IsKill, OperatorQueueCalls, reaperVars
  <2>3. QED
    BY <1>0, <1>2, <1>b, <2>2, <1>c, PreciseKept DEF OperatorQueueCalls, reaperVars
<1>3. CASE PullDrain
  <2>1. QueuedRids' \subseteq QueuedRids /\ batch' \subseteq QueuedRids
    BY <1>0, <1>3 DEF PullDrain, PendingRevoke, LiveTokens, QueuedRids, KernelTypeOK
  <2>2. \A k \in Rid : StampedHere(k)' => StampedHere(k)
    BY <1>3, <2>1 DEF StampedHere, IsKill, PullDrain
  <2>3. QED
    <3>1. rpc' = "drained" /\ UNCHANGED <<claims, order, generation>>
      BY <1>3 DEF PullDrain
    <3>2. QED
      BY <1>b, <2>2, <3>1 DEF PreciseInv
<1>4. CASE PullAnswer
  <2>1. /\ rpc = "drained" /\ rpc' = "batch" /\ batch' = batch
        /\ UNCHANGED <<claims, order, phase, pending, generation>>
    BY <1>4 DEF PullAnswer, kernelVars
  <2>2. \A k \in Rid : StampedHere(k)' => StampedHere(k)
    BY <2>1 DEF StampedHere, IsKill, QueuedRids
  <2>3. ASSUME NEW k \in batch, IsKill(k), claims[k].gen # live'
        PROVE  \E q \in Rid : Supersedes(q, k) \/ GrantedNamesake(q, k)
    <3> DEFINE t == claims[k].target
    <3>1. StampedHere(k) /\ k \in Rid
      BY <1>0, <2>1, <2>3 DEF StampedHere
    <3>2. t \in Target /\ InstanceOf[t] = InstanceOf[Watched]
      BY <1>0, <3>1 DEF FenceInv, RoutingInv, KernelTypeOK, Claims
    <3>3. generation \in [Target -> Nat]
      BY <1>0 DEF KernelTypeOK
    <3>4. CASE claims[k].gen # generation[t]
      BY <3>1, <3>4 DEF PreciseInv
    <3>5. CASE claims[k].gen = generation[t]
      <4>1. /\ live' \in Generations(InstanceOf[Watched])
            /\ \A g \in Generations(InstanceOf[Watched]) : g <= live'
        BY <1>4 DEF PullAnswer
      <4>2. generation[t] <= live' /\ generation[t] # live'
        BY <2>3, <3>2, <3>5, <4>1 DEF Generations
      <4>3. PICK u \in Target : InstanceOf[u] = InstanceOf[Watched] /\ live' = generation[u]
        BY <3>2, <3>3, <4>1, <4>2 DEF Generations
      <4>4. u # t /\ generation[u] > 0
        BY <3>2, <3>3, <4>2, <4>3
      <4>5. PICK q \in Rid : Granted(q) /\ claims[q].target = u
        BY <4>4 DEF GrantInv
      <4>6. GrantedNamesake(q, k)
        BY <3>2, <4>3, <4>4, <4>5 DEF GrantedNamesake, Granted
      <4>7. QED
        BY <4>6
    <3>6. QED
      BY <3>4, <3>5
  <2>4. ASSUME NEW k \in Rid, StampedHere(k)',
               claims'[k].gen # generation'[claims'[k].target]
        PROVE  \E q \in Rid : Supersedes(q, k)'
    <3>1. \E q \in Rid : Supersedes(q, k)
      BY <1>0, <2>1, <2>2, <2>4 DEF PreciseInv
    <3>2. QED
      BY <1>b, <2>1, <3>1
  <2>5. ASSUME NEW k \in batch', IsKill(k)', claims'[k].gen # live'
        PROVE  \E q \in Rid : Supersedes(q, k)' \/ GrantedNamesake(q, k)'
    <3>1. k \in batch /\ k \in Rid /\ IsKill(k)
      BY <1>0, <2>1, <2>5 DEF IsKill
    <3>2. \E q \in Rid : Supersedes(q, k) \/ GrantedNamesake(q, k)
      BY <2>1, <2>3, <2>5, <3>1
    <3>3. QED
      BY <1>b, <1>c, <2>1, <3>1, <3>2
  <2>6. QED
    BY <2>4, <2>5 DEF PreciseInv
<1>5. CASE FailedPull
  <2>1. UNCHANGED kernelVars /\ BackToPoll
    BY <1>5 DEF FailedPull, WithinDeadline, FailClosedStop, FailClosedStopError
  <2>2. \A k \in Rid : StampedHere(k)' => StampedHere(k)
    BY <2>1 DEF StampedHere, IsKill, QueuedRids, kernelVars, BackToPoll
  <2>3. QED
    BY <1>0, <1>b, <2>1, <2>2, <1>c, PreciseKept DEF kernelVars, BackToPoll
<1>6. CASE HandleCandidate \/ ReaperCrash \/ Tick \/ UNCHANGED vars
  <2>1. /\ UNCHANGED <<claims, order, phase, generation>>
        /\ QueuedRids' \subseteq QueuedRids
    BY <1>0, <1>6 DEF HandleCandidate, RejectCandidate, ExecuteCandidate, ExecutorError,
         RecordNonce, RecordAndAck, AckRevoke, EndBatch, ReaperCrash, Tick, vars,
         kernelVars, QueuedRids, KernelTypeOK
  <2>2. /\ batch' \subseteq batch /\ (rpc' = "drained" => rpc = "drained")
        /\ rpc' \in {"batch", "acted", "marked"} =>
              rpc \in {"batch", "acted", "marked"} /\ live' = live
    BY <1>6 DEF HandleCandidate, RejectCandidate, ExecuteCandidate, ExecutorError,
         RecordNonce, RecordAndAck, EndBatch, ReaperCrash, Tick, vars, reaperVars
  <2>3. \A k \in Rid : StampedHere(k)' => StampedHere(k)
    BY <2>1, <2>2 DEF StampedHere, IsKill
  <2>4. QED
    BY <1>0, <1>b, <2>1, <2>2, <2>3, <1>c, PreciseKept
<1>7. CASE KernelCrash
  <2>1. /\ UNCHANGED <<claims, order, batch, live>> /\ QueuedRids' = {}
        /\ \A k \in Rid : phase'[k] \notin {"appending", "passed"}
        /\ rpc' # "drained" /\ (rpc' = rpc \/ rpc' = "failed")
    BY <1>7 DEF KernelCrash, KernelRestart, QueuedRids
  <2>2. \A k \in Rid : ~StampedHere(k)'
    BY <2>1 DEF StampedHere
  <2>3. QED
    BY <1>0, <1>b, <1>c, <2>1, <2>2 DEF PreciseInv, IsKill
<1>8. QED
  BY <1>1, <1>2, <1>3, <1>4, <1>5, <1>6, <1>7 DEF Next, KernelStep

\* "It never lets a current-generation kill be skipped" (honour_revocation),
\* for every interleaving, any number of decisions and any sharing of names:
\* a kill is turned away only if it was superseded or a namesake was granted.
THEOREM FencePrecise == Spec => []FenceIsPrecise
<1>1. FenceInv /\ PreciseInv => FenceIsPrecise
  BY DEF FenceInv, TypeOK, PreciseInv, FenceIsPrecise, HonourRevocation
<1>2. FenceInv /\ FenceInv' /\ GrantInv /\ PreciseInv /\ [Next]_vars
         => GrantInv' /\ PreciseInv'
  BY GrantStep, PreciseStep
<1>3. QED
  BY <1>1, <1>2, PreciseInit, FenceInvariant, PTL DEF Spec

-----------------------------------------------------------------------------
(***************************************************************************)
(* At-least-once delivery.                                                 *)
(***************************************************************************)

\* The order of arrival tells queued decisions apart, so the decision that is
\* acknowledged is the one that was executed.
AckInv ==
    /\ \A r \in Rid : arrival[r] <= pushes
    /\ \A r, q \in Rid : phase[r] = "queued" /\ phase[q] = "queued"
                           /\ arrival[r] = arrival[q] => r = q
    /\ rpc \in {"acted", "marked"} => \A r \in batch : IsNext(r) => r \in executed

\* Nothing has been pushed at boot.
LEMMA AckInit == Init => AckInv
BY DEF Init, KernelInit, AckInv

\* A step that pushes and executes nothing keeps it.
LEMMA AckKept ==
    ASSUME AckInv, TypeOK, arrival' = arrival, pushes' = pushes,
           \A r \in Rid : phase'[r] = "queued" => phase[r] = "queued",
           rpc' \in {"acted", "marked"} =>
               rpc \in {"acted", "marked"} /\ batch' = batch /\ executed' = executed
    PROVE  AckInv'
<1>1. rpc' \in {"acted", "marked"} => \A r \in batch' : IsNext(r)' => r \in executed'
  BY DEF AckInv, IsNext
<1>2. QED
  BY <1>1 DEF AckInv

\* Each step keeps it.
LEMMA AckStep ==
    ASSUME FenceInv, AckInv, [Next]_vars
    PROVE  AckInv'
<1> USE KernelAssumption, ReaperAssumption
<1>0. /\ TypeOK /\ KernelTypeOK /\ batch \subseteq Rid
      /\ \A r \in batch : phase[r] = "queued"
  BY DEF FenceInv, TypeOK, PhaseInv
<1>1. CASE KernelHandlers /\ UNCHANGED <<reaperVars, computeVars>>
  <2> PICK r \in Rid :
        \/ \E caller \in Role, t \in Target :
              \/ \E tier \in RevocationTier : MintRevoke(caller, tier, r, t)
              \/ RestoreRevoke(caller, r, t)
        \/ TlogAppend(r)
        \/ RefuseUnrecorded(r)
        \/ EnqueueKill(r)
        \/ IncrementGeneration(r)
        \/ EnqueueRestore(r)
    BY <1>1 DEF KernelHandlers
  <2>0. rpc' = rpc /\ batch' = batch /\ executed' = executed
    BY <1>1 DEF reaperVars, computeVars
  <2>1. CASE ~(EnqueueKill(r) \/ EnqueueRestore(r))
    <3>1. arrival' = arrival /\ pushes' = pushes
      BY <2>1 DEF MintRevoke, RestoreRevoke, TlogAppend, RefuseUnrecorded, IncrementGeneration
    <3>2. \A p \in Rid : phase'[p] = "queued" => phase[p] = "queued"
      BY <1>0, <2>1 DEF MintRevoke, RestoreRevoke, TlogAppend, RefuseUnrecorded,
                        IncrementGeneration, KernelTypeOK
    <3>3. QED
      BY <1>0, <2>0, <3>1, <3>2, AckKept
  <2>2. CASE EnqueueKill(r) \/ EnqueueRestore(r)
    <3>1. /\ phase[r] # "queued" /\ phase' = [phase EXCEPT ![r] = "queued"]
          /\ arrival' = [arrival EXCEPT ![r] = pushes + 1] /\ pushes' = pushes + 1
      BY <2>2 DEF EnqueueKill, EnqueueRestore, EnqueuePending
    <3>2. arrival \in [Rid -> Nat] /\ pushes \in Nat /\ phase \in [Rid -> Phase]
      BY <1>0 DEF KernelTypeOK
    <3>3. \A p \in Rid : arrival'[p] <= pushes'
      BY <3>1, <3>2 DEF AckInv
    <3>4. \A p, q \in Rid : phase'[p] = "queued" /\ phase'[q] = "queued"
                              /\ arrival'[p] = arrival'[q] => p = q
      BY <3>1, <3>2 DEF AckInv
    <3>5. \A p \in batch : arrival'[p] = arrival[p]
      BY <1>0, <3>1, <3>2
    <3>6. \A p \in batch : IsNext(p)' => IsNext(p)
      BY <2>0, <3>5 DEF IsNext
    <3>7. QED
      BY <2>0, <3>3, <3>4, <3>6 DEF AckInv
  <2>3. QED
    BY <2>1, <2>2
<1>2. CASE OperatorQueueCalls /\ UNCHANGED <<reaperVars, computeVars>>
  BY <1>0, <1>2, AckKept DEF OperatorQueueCalls, reaperVars, computeVars
<1>3. CASE PullDrain \/ PullAnswer \/ ReaperCrash \/ Tick \/ UNCHANGED vars
  <2>1. arrival' = arrival /\ pushes' = pushes /\ phase' = phase
    BY <1>3 DEF PullDrain, PullAnswer, ReaperCrash, Tick, vars, kernelVars
  <2>2. rpc' \in {"acted", "marked"} =>
           rpc \in {"acted", "marked"} /\ batch' = batch /\ executed' = executed
    BY <1>3 DEF PullDrain, PullAnswer, ReaperCrash, Tick, vars, reaperVars, computeVars
  <2>3. QED
    BY <1>0, <2>1, <2>2, AckKept
<1>4. CASE FailedPull
  <2>1. UNCHANGED kernelVars /\ rpc' = "poll"
    BY <1>4 DEF FailedPull, WithinDeadline, FailClosedStop, FailClosedStopError, BackToPoll
  <2>2. QED
    BY <1>0, <2>1, AckKept DEF kernelVars
<1>5. CASE HandleCandidate
  <2>0. arrival' = arrival /\ pushes' = pushes /\ phase' = phase
    BY <1>5 DEF HandleCandidate, RejectCandidate, ExecuteCandidate, ExecutorError,
         RecordNonce, RecordAndAck, EndBatch, kernelVars
  <2>1. ASSUME NEW r \in Rid, ExecuteCandidate(r) PROVE AckInv'
    <3>1. IsNext(r) /\ batch' = batch /\ r \in executed'
      BY <2>1 DEF ExecuteCandidate, Effect
    <3>2. \A p \in batch : IsNext(p) => p = r
      <4>1. ASSUME NEW p \in batch, IsNext(p) PROVE p = r
        <5>1. /\ r \in batch /\ arrival[r] <= arrival[p] /\ arrival[p] <= arrival[r]
              /\ arrival[r] \in Nat /\ arrival[p] \in Nat
          BY <1>0, <3>1, <4>1 DEF IsNext, KernelTypeOK
        <5>2. arrival[r] = arrival[p]
          BY <5>1
        <5>3. QED
          BY <1>0, <5>1, <5>2 DEF AckInv
      <4>2. QED
        BY <4>1
    <3>3. \A p \in batch' : IsNext(p)' => p \in executed'
      BY <2>0, <3>1, <3>2 DEF IsNext
    <3>4. QED
      BY <2>0, <3>3 DEF AckInv
  <2>2. CASE ~\E r \in Rid : ExecuteCandidate(r)
    <3>1. rpc' \in {"acted", "marked"} =>
             rpc \in {"acted", "marked"} /\ batch' = batch /\ executed' = executed
      BY <1>5, <2>2 DEF HandleCandidate, RejectCandidate, ExecutorError,
           RecordNonce, RecordAndAck, EndBatch, computeVars
    <3>2. QED
      BY <1>0, <2>0, <3>1, AckKept
  <2>3. QED
    BY <2>1, <2>2
<1>6. CASE KernelCrash
  BY <1>0, <1>6, AckKept DEF KernelCrash, KernelRestart, computeVars
<1>7. QED
  BY <1>1, <1>2, <1>3, <1>4, <1>5, <1>6 DEF Next, KernelStep

\* A decision leaves the queue because it took effect, expired, was cleared by
\* the operator or went with the kernel's memory.
LEMMA LeavesQueue ==
    ASSUME FenceInv, AckInv, Next, NEW r \in QueuedRids \ QueuedRids'
    PROVE  \/ r \in executed
           \/ ~Unexpired(r)
           \/ OperatorQueueCalls /\ UNCHANGED reaperVars
           \/ KernelCrash
<1> USE KernelAssumption, ReaperAssumption
<1>0. /\ KernelTypeOK /\ r \in Rid /\ pending \in [Instance -> SUBSET Rid]
      /\ age \in [Rid -> 0..AgeCap]
  BY DEF FenceInv, TypeOK, KernelTypeOK, QueuedRids
<1>1. PICK i \in Instance : r \in pending[i] /\ r \notin pending'[i]
  BY DEF QueuedRids
<1>2. CASE KernelStep
  <2>1. CASE OperatorQueueCalls
    BY <1>2, <2>1 DEF KernelStep
  <2>2. ASSUME NEW s \in Rid, EnqueueKill(s) \/ EnqueueRestore(s)
        PROVE  ~Unexpired(r)
    <3>1. EnqueuePending(s)
      BY <2>2 DEF EnqueueKill, EnqueueRestore
    <3>2. ~(age[r] < TTL + age[s])
      BY <1>0, <1>1, <3>1 DEF EnqueuePending
    <3>3. age[r] \in Nat /\ age[s] \in Nat /\ TTL \in Nat
      BY <1>0 DEF AgeCap
    <3>4. QED
      BY <3>2, <3>3 DEF Unexpired
  <2>3. CASE KernelHandlers
    <3>1. PICK s \in Rid :
            \/ EnqueueKill(s) \/ EnqueueRestore(s)
            \/ pending' = pending
      BY <2>3 DEF KernelHandlers, MintRevoke, RestoreRevoke, TlogAppend, RefuseUnrecorded,
                  IncrementGeneration
    <3>2. QED
      BY <1>1, <2>2, <3>1
  <2>4. QED
    BY <1>2, <2>1, <2>3 DEF KernelStep
<1>3. CASE PullDrain
  BY <1>0, <1>1, <1>3 DEF PullDrain, PendingRevoke, LiveTokens
<1>4. CASE HandleCandidate
  <2>1. PICK s \in Rid : RecordAndAck(s) \/ pending' = pending
    BY <1>1, <1>4 DEF HandleCandidate, RejectCandidate, ExecuteCandidate, ExecutorError,
                 RecordNonce, EndBatch, kernelVars
  <2>2. RecordAndAck(s) /\ AckRevoke("reaper", s)
    BY <1>1, <2>1 DEF RecordAndAck
  <2>3. s = r
    BY <1>0, <1>1, <2>2 DEF AckRevoke
  <2>4. QED
    BY <2>2, <2>3 DEF RecordAndAck, IsNext, AckInv
<1>5. CASE PullAnswer \/ FailedPull \/ ReaperCrash \/ Tick
  <2>1. pending' = pending
    BY <1>5 DEF PullAnswer, FailedPull, WithinDeadline, FailClosedStop, FailClosedStopError,
                ReaperCrash, Tick, kernelVars
  <2>2. QED
    BY <1>1, <2>1
<1>6. QED
  BY <1>2, <1>3, <1>4, <1>5 DEF Next

\* At-least-once delivery (F-6a), for any queue and every failure of the pull,
\* the executor, the marker, the record and the ack.
THEOREM QueueKeepsDecisions == Spec => QueueLosesNothing
<1>1. Spec => [](FenceInv /\ AckInv)
  BY AckInit, AckStep, FenceInvariant, PTL DEF Spec
<1>2. FenceInv /\ AckInv /\ [Next]_vars =>
         [\A r \in QueuedRids \ QueuedRids' :
             \/ r \in executed
             \/ ~Unexpired(r)
             \/ OperatorQueueCalls /\ UNCHANGED reaperVars
             \/ KernelCrash]_vars
  BY LeavesQueue
<1>3. QED
  BY <1>1, <1>2, PTL DEF Spec, QueueLosesNothing

-----------------------------------------------------------------------------
(***************************************************************************)
(* The fail-closed stop.                                                   *)
(***************************************************************************)

\* The loop's tracker never runs ahead of the true silence: what it forgets,
\* in a crash or after a stop, it forgets towards "just now".
SilenceInv == quiet <= silence

\* "A blip shorter than the deadline does not fire" (docs/architecture.md),
\* for every deadline.
THEOREM BlipsDoNotFire == Spec => BlipDoesNotFire
<1>1. Init => SilenceInv
  BY DEF Init, SilenceInv
<1>2. TypeOK /\ SilenceInv /\ [Next]_vars => SilenceInv'
  <2> SUFFICES ASSUME TypeOK, SilenceInv, [Next]_vars PROVE SilenceInv'
    OBVIOUS
  <2>1. quiet \in Nat /\ silence \in Nat /\ Deadline \in Nat
    BY ReaperAssumption DEF TypeOK
  <2>2. CASE Tick
    BY <2>1, <2>2 DEF Tick, Later, SilenceInv
  <2>3. CASE ~Tick
    <3>1. quiet' \in {0, quiet} /\ (silence' = silence \/ (silence' = 0 /\ quiet' = 0))
      BY <2>3 DEF Next, KernelStep, PullDrain, PullAnswer, FailedPull, WithinDeadline,
           FailClosedStop, FailClosedStopError, HandleCandidate, RejectCandidate,
           ExecuteCandidate, ExecutorError, RecordNonce, RecordAndAck, EndBatch,
           ReaperCrash, KernelCrash, vars, reaperVars
    <3>2. QED
      BY <2>1, <3>1 DEF SilenceInv
  <2>4. QED
    BY <2>2, <2>3
<1>3. TypeOK /\ SilenceInv /\ [Next]_vars =>
         [cause'[Watched] = "failclosed" /\ cause[Watched] # "failclosed"
             => silence > Deadline]_vars
  <2> SUFFICES ASSUME TypeOK, SilenceInv, Next, cause'[Watched] = "failclosed",
                      cause[Watched] # "failclosed"
               PROVE  silence > Deadline
    OBVIOUS
  <2>0. /\ "failclosed" \notin Rid /\ Watched \in Target
        /\ quiet \in Nat /\ silence \in Nat /\ Deadline \in Nat
        /\ cause \in [Target -> Cause]
    BY ReaperAssumption DEF TypeOK
  <2>1. ASSUME NEW r \in Rid, NEW t, NEW state, Effect(t, state, r) PROVE FALSE
    <3>1. cause' = [cause EXCEPT ![t] = r]
      BY <2>1 DEF Effect
    <3>2. QED
      BY <2>0, <3>1
  <2>2. CASE FailedPull
    BY <2>0, <2>2 DEF FailedPull, WithinDeadline, FailClosedStop, FailClosedStopError,
         LivenessExpired, SilenceInv, computeVars
  <2>3. CASE HandleCandidate
    BY <2>1, <2>3 DEF HandleCandidate, RejectCandidate, ExecuteCandidate, ExecutorError,
         InstanceOpError, RecordNonce, RecordAndAck, EndBatch, computeVars
  <2>4. CASE KernelStep \/ PullDrain \/ PullAnswer \/ ReaperCrash \/ KernelCrash \/ Tick
    BY <2>4 DEF KernelStep, PullDrain, PullAnswer, ReaperCrash, KernelCrash, Tick, computeVars
  <2>5. QED
    BY <2>2, <2>3, <2>4 DEF Next
<1>4. QED
  BY <1>1, <1>2, <1>3, TypeCorrect, PTL DEF Spec, BlipDoesNotFire
=============================================================================
