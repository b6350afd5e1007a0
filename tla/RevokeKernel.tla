---------------------------- MODULE RevokeKernel ----------------------------
(***************************************************************************)
(* The decider half of coercive shutdown: the /kernel/v1/revoke/* handlers *)
(* of the safety kernel (crates/services/safety-kernel/src/routes/         *)
(* revoke.rs).                                                             *)
(*                                                                         *)
(* A run id stands for one signed decision: the handler makes it up, so it *)
(* is used once, and what the signature binds is claims[r].  The handlers  *)
(* of different requests interleave at every await and between the two     *)
(* process-global locks (PENDING and GENERATIONS), so a handler is a       *)
(* sequence of steps and phase[r] is where it stands.                      *)
(*                                                                         *)
(* A queue is a set: retain keeps the order of a Vec, so the order is the  *)
(* one in which the entries were pushed, and arrival[r] records that.      *)
(*                                                                         *)
(* Time is kept as the age of every decision, which stops counting once it *)
(* can no longer change an outcome.                                        *)
(***************************************************************************)
EXTENDS Naturals, KernelSettings

CONSTANTS
    Rid,         \* run ids: one per mint or restore request
    Target,      \* project/zone/instance triples an operator may name
    Instance,    \* instance names
    InstanceOf,  \* the instance component of a target
    Deployed,    \* the environments the kernel may have been started in
    TTL,         \* revoke_token_ttl_s, in ticks
    Leeway       \* leeway of the pinned-key verifier, in ticks

ASSUME KernelAssumption ==
    /\ InstanceOf \in [Target -> Instance]
    /\ Deployed \subseteq Booted
    /\ TTL \in Nat \ {0}
    /\ Leeway \in Nat

VARIABLES
    client,      \* transparency_client: whether the kernel has one
    claims,      \* what the signed token of a run id binds
    phase,       \* how far the handler of a run id has come
    tlog,        \* decisions recorded in the transparency log
    pending,     \* PENDING: instance name -> queued decisions
    arrival,     \* the position at which a decision was pushed
    pushes,      \* number of pushes so far
    generation,  \* GENERATIONS: target -> number of grants since kernel boot
    age,         \* ticks since the decision was issued
    grants,      \* history: number of grants ever established
    order        \* history: grants when a kill was stamped, rank of a restore's

kernelVars ==
    <<client, claims, phase, tlog, pending, arrival, pushes, generation, age, grants, order>>

Role == {"worker", "api", "operator", "reaper"}

RevocationTier == {"Sigterm", "Sigkill", "CgroupKill", "VmStop"}

Kind == {"none", "kill", "restore"}

Claims == [kind : Kind, target : Target, gen : Nat]

Phase == {"free", "appending", "passed", "granted", "queued", "refused"}

\* An older decision is past both the kernel's sweep and the verifier.
AgeCap == TTL + Leeway + 1

KernelTypeOK ==
    /\ client \in BOOLEAN
    /\ claims \in [Rid -> Claims]
    /\ phase \in [Rid -> Phase]
    /\ tlog \in SUBSET Rid
    /\ pending \in [Instance -> SUBSET Rid]
    /\ arrival \in [Rid -> Nat]
    /\ pushes \in Nat
    /\ generation \in [Target -> Nat]
    /\ age \in [Rid -> 0..AgeCap]
    /\ grants \in Nat
    /\ order \in [Rid -> Nat]

KernelInit ==
    /\ client \in {HasClient(e) : e \in Deployed}
    /\ \E t \in Target : claims = [r \in Rid |-> [kind |-> "none", target |-> t, gen |-> 0]]
    /\ phase = [r \in Rid |-> "free"]
    /\ tlog = {}
    /\ pending = [i \in Instance |-> {}]
    /\ arrival = [r \in Rid |-> 0]
    /\ pushes = 0
    /\ generation = [t \in Target |-> 0]
    /\ age = [r \in Rid |-> 0]
    /\ grants = 0
    /\ order = [r \in Rid |-> 0]

-----------------------------------------------------------------------------
(***************************************************************************)
(* The pending store.                                                      *)
(***************************************************************************)

\* expires_at > now, by the clock of whoever sweeps.
Unexpired(r) == age[r] < TTL

\* enqueue_pending: the sweep uses the time the handler read when it began,
\* so what it drops had expired before r was issued.
EnqueuePending(r) ==
    /\ LET i == InstanceOf[claims[r].target]
       IN  pending' = [pending EXCEPT ![i] = {p \in @ : age[p] < TTL + age[r]} \cup {r}]
    /\ arrival' = [arrival EXCEPT ![r] = pushes + 1]
    /\ pushes' = pushes + 1

\* drain_live_tokens: sweeps, and leaves the live tokens where they are.
LiveTokens(i) == {r \in pending[i] : Unexpired(r)}

QueuedRids == {r \in Rid : \E i \in Instance : r \in pending[i]}

\* What current_for_instance takes the maximum of: the generations of every
\* target that shares the instance name (an unknown name counts as 0).
Generations(i) == {generation[t] : t \in {u \in Target : InstanceOf[u] = i}} \cup {0}

-----------------------------------------------------------------------------
(***************************************************************************)
(* POST /revoke/compute and POST /revoke/restore, up to the await.         *)
(***************************************************************************)

\* Mutant: stamps every kill with generation 0.
MintRevokeUnstamped(caller, tier, r, t) ==
    /\ caller = "operator"
    /\ tier = "VmStop"
    /\ phase[r] = "free"
    /\ phase' = [phase EXCEPT ![r] = "appending"]
    /\ claims' = [claims EXCEPT ![r] = [kind |-> "kill", target |-> t, gen |-> 0]]
    /\ order' = [order EXCEPT ![r] = grants]
    /\ UNCHANGED <<client, tlog, pending, arrival, pushes, generation, age, grants>>

\* Mutant: stamps the generation before the current one.
MintRevokePrevious(caller, tier, r, t) ==
    /\ caller = "operator"
    /\ tier = "VmStop"
    /\ phase[r] = "free"
    /\ phase' = [phase EXCEPT ![r] = "appending"]
    /\ claims' = [claims EXCEPT ![r] = [kind |-> "kill", target |-> t, gen |-> generation[t] - 1]]
    /\ order' = [order EXCEPT ![r] = grants]
    /\ UNCHANGED <<client, tlog, pending, arrival, pushes, generation, age, grants>>

\* The kill is stamped with the generation its target has now.
MintRevoke(caller, tier, r, t) ==
    /\ caller = "operator"
    /\ tier = "VmStop"
    /\ phase[r] = "free"
    /\ phase' = [phase EXCEPT ![r] = "appending"]
    /\ claims' = [claims EXCEPT ![r] = [kind |-> "kill", target |-> t, gen |-> generation[t]]]
    /\ order' = [order EXCEPT ![r] = grants]
    /\ UNCHANGED <<client, tlog, pending, arrival, pushes, generation, age, grants>>

\* A restore carries no generation: gen stays 0.
RestoreRevoke(caller, r, t) ==
    /\ caller = "operator"
    /\ phase[r] = "free"
    /\ phase' = [phase EXCEPT ![r] = "appending"]
    /\ claims' = [claims EXCEPT ![r] = [kind |-> "restore", target |-> t, gen |-> 0]]
    /\ UNCHANGED <<client, tlog, pending, arrival, pushes, generation, age, grants, order>>

-----------------------------------------------------------------------------
(***************************************************************************)
(* tlog_append_failclosed: the append, and what the handler does after it. *)
(***************************************************************************)

\* Without a client the handler goes on at once, and nothing is logged.
TlogAppend(r) ==
    /\ phase[r] = "appending"
    /\ phase' = [phase EXCEPT ![r] = "passed"]
    /\ tlog' = IF client THEN tlog \cup {r} ELSE tlog
    /\ UNCHANGED <<client, claims, pending, arrival, pushes, generation, age, grants, order>>

\* An error or the timeout, before or after the append took effect: 503
\* revoke_not_recorded.
RefuseUnrecorded(r) ==
    /\ client
    /\ phase[r] \in {"appending", "passed"}
    /\ phase' = [phase EXCEPT ![r] = "refused"]
    /\ UNCHANGED <<client, claims, tlog, pending, arrival, pushes, generation, age, grants, order>>

\* Mutant: queues the kill without waiting for the log.
EnqueueKillUnlogged(r) ==
    /\ claims[r].kind = "kill"
    /\ phase[r] \in {"appending", "passed"}
    /\ phase' = [phase EXCEPT ![r] = "queued"]
    /\ EnqueuePending(r)
    /\ UNCHANGED <<client, claims, tlog, generation, age, grants, order>>

EnqueueKill(r) ==
    /\ claims[r].kind = "kill"
    /\ phase[r] = "passed"
    /\ phase' = [phase EXCEPT ![r] = "queued"]
    /\ EnqueuePending(r)
    /\ UNCHANGED <<client, claims, tlog, generation, age, grants, order>>

\* Mutant: forgets to advance the generation.
IncrementGenerationForgotten(r) ==
    /\ claims[r].kind = "restore"
    /\ phase[r] = "passed"
    /\ phase' = [phase EXCEPT ![r] = "granted"]
    /\ grants' = grants + 1
    /\ order' = [order EXCEPT ![r] = grants + 1]
    /\ UNCHANGED <<client, claims, tlog, pending, arrival, pushes, generation, age>>

\* A restore establishes a new grant before it is queued.
IncrementGeneration(r) ==
    /\ claims[r].kind = "restore"
    /\ phase[r] = "passed"
    /\ phase' = [phase EXCEPT ![r] = "granted"]
    /\ generation' = [generation EXCEPT ![claims[r].target] = @ + 1]
    /\ grants' = grants + 1
    /\ order' = [order EXCEPT ![r] = grants + 1]
    /\ UNCHANGED <<client, claims, tlog, pending, arrival, pushes, age>>

EnqueueRestore(r) ==
    /\ phase[r] = "granted"
    /\ phase' = [phase EXCEPT ![r] = "queued"]
    /\ EnqueuePending(r)
    /\ UNCHANGED <<client, claims, tlog, generation, age, grants, order>>

-----------------------------------------------------------------------------
(***************************************************************************)
(* GET /revoke/pending and POST /revoke/ack.                               *)
(***************************************************************************)

MayPull == {"reaper", "operator"}

\* The sweep a pull leaves behind; the answer is LiveTokens(i).
PendingRevoke(caller, i) ==
    /\ caller \in MayPull
    /\ pending' = [pending EXCEPT ![i] = LiveTokens(i)]

\* Mutant: drops the whole queue the run id is found in.
AckRevokeWhole(caller, r) ==
    /\ caller \in MayPull
    /\ pending' = [i \in Instance |-> IF r \in pending[i] THEN {} ELSE pending[i]]

\* clear_pending: the run id leaves every queue.
AckRevoke(caller, r) ==
    /\ caller \in MayPull
    /\ pending' = [i \in Instance |-> pending[i] \ {r}]

-----------------------------------------------------------------------------
(***************************************************************************)
(* The process: both stores live in memory, the log does not.              *)
(***************************************************************************)

KernelRestart ==
    /\ pending' = [i \in Instance |-> {}]
    /\ generation' = [t \in Target |-> 0]
    /\ phase' = [r \in Rid |-> IF phase[r] \in {"appending", "passed", "granted"}
                               THEN "refused" ELSE phase[r]]
    /\ UNCHANGED <<client, claims, tlog, arrival, pushes, age, grants, order>>

\* One tick of the clock; an id nobody will use any more keeps its age.
Aged == [r \in Rid |-> IF phase[r] \in {"free", "refused"} \/ age[r] = AgeCap
                       THEN age[r] ELSE age[r] + 1]

KernelHandlers ==
    \E r \in Rid :
        \/ \E caller \in Role, t \in Target :
              \/ \E tier \in RevocationTier : MintRevoke(caller, tier, r, t)
              \/ RestoreRevoke(caller, r, t)
        \/ TlogAppend(r)
        \/ RefuseUnrecorded(r)
        \/ EnqueueKill(r)
        \/ IncrementGeneration(r)
        \/ EnqueueRestore(r)

\* The operator may read and clear the queues too.
OperatorQueueCalls ==
    /\ \/ \E i \in Instance : PendingRevoke("operator", i)
       \/ \E r \in Rid : AckRevoke("operator", r)
    /\ UNCHANGED <<client, claims, phase, tlog, arrival, pushes, generation, age, grants, order>>

\* A restore has superseded a kill of the same target when its grant was
\* established after the kill was stamped.
Supersedes(q, k) ==
    /\ claims[q].kind = "restore"
    /\ claims[k].kind = "kill"
    /\ claims[q].target = claims[k].target
    /\ order[q] > order[k]

=============================================================================
