------------------------------- MODULE Reaper -------------------------------
(***************************************************************************)
(* The executor half of coercive shutdown, composed with the kernel that   *)
(* decides: the reaper's poll loop (crates/services/safety-kernel-reaper,  *)
(* main.rs and reaper.rs), its replay markers (nonce_store.rs), its guarded *)
(* executor (executor.rs) and the instances it stops and starts.           *)
(*                                                                         *)
(* One reaper handles one candidate at a time.  Everything it awaits may   *)
(* fail: the pull, the executor, the marker, the kill record and the ack.  *)
(* A call that reports an error may still have taken effect.               *)
(***************************************************************************)
EXTENDS RevokeKernel

CONSTANTS
    Watched,     \* cfg.target: the instance that is polled and fail-closed
    Scratch,     \* the only coordinate the armed executor acts on
    Protected,   \* the reaper's own host and the operator's denylist
    Deadline,    \* liveness_deadline_s, in ticks
    Expiry       \* bound: FALSE keeps every decision young, in runs about liveness

ASSUME ReaperAssumption ==
    /\ Watched \in Target
    /\ Scratch \in Target
    /\ Protected \subseteq Target
    /\ Deadline \in Nat
    /\ Expiry \in BOOLEAN
    /\ Rid \cap {"boot", "failclosed"} = {}

VARIABLES
    rpc,         \* where the poll loop stands
    batch,       \* pull.tokens still to be handled, in order of arrival
    live,        \* pull.current_grant_generation
    quiet,       \* ticks since last_success, as the loop counts them
    silence,     \* history: ticks since a pull last succeeded
    seen,        \* the marker file, mirrored by the in-memory set
    vm,          \* whether an instance runs
    cause,       \* history: what last stopped or started an instance
    executed     \* history: decisions that took effect

reaperVars == <<rpc, batch, live, quiet, silence, seen>>
computeVars == <<vm, cause, executed>>
vars == <<kernelVars, reaperVars, computeVars>>

LoopState == {"poll", "drained", "failed", "batch", "acted", "marked"}

Cause == Rid \cup {"boot", "failclosed"}

TypeOK ==
    /\ KernelTypeOK
    /\ rpc \in LoopState
    /\ batch \in SUBSET Rid
    /\ live \in Nat
    /\ quiet \in 0..(Deadline + 1)
    /\ silence \in 0..(Deadline + 1)
    /\ seen \in SUBSET Rid
    /\ vm \in [Target -> {"running", "stopped"}]
    /\ cause \in [Target -> Cause]
    /\ executed \in SUBSET Rid

Init ==
    /\ KernelInit
    /\ rpc = "poll"
    /\ batch = {}
    /\ live = 0
    /\ quiet = 0
    /\ silence = 0
    /\ seen = {}
    /\ vm = [t \in Target |-> "running"]
    /\ cause = [t \in Target |-> "boot"]
    /\ executed = {}

-----------------------------------------------------------------------------
(***************************************************************************)
(* pull_pending.  The kernel drains the queue and only then reads the      *)
(* generation it echoes, under a second lock.                              *)
(***************************************************************************)

PullDrain ==
    /\ rpc = "poll"
    /\ PendingRevoke("reaper", InstanceOf[Watched])
    /\ rpc' = "drained"
    /\ batch' = LiveTokens(InstanceOf[Watched])
    /\ UNCHANGED <<client, claims, phase, tlog, arrival, pushes, generation, age, grants, order>>
    /\ UNCHANGED <<live, quiet, silence, seen, computeVars>>

\* Mutant: an empty queue does not count as a successful pull.
PullAnswerBusyOnly ==
    /\ rpc = "drained"
    /\ rpc' = "batch"
    /\ LET gens == IF batch = {} THEN {0} ELSE Generations(InstanceOf[Watched])
       IN  live' \in gens /\ \A g \in gens : g <= live'
    /\ quiet' = IF batch = {} THEN quiet ELSE 0
    /\ silence' = 0
    /\ UNCHANGED <<kernelVars, batch, seen, computeVars>>

\* A 204 carries no generation; either answer is a success.
PullAnswer ==
    /\ rpc = "drained"
    /\ rpc' = "batch"
    /\ LET gens == IF batch = {} THEN {0} ELSE Generations(InstanceOf[Watched])
       IN  live' \in gens /\ \A g \in gens : g <= live'
    /\ quiet' = 0
    /\ silence' = 0
    /\ UNCHANGED <<kernelVars, batch, seen, computeVars>>

-----------------------------------------------------------------------------
(***************************************************************************)
(* The executor.                                                           *)
(***************************************************************************)

\* guard: denylist first, then the scratch coordinate, all three parts of it.
Guard(t) == t \notin Protected /\ t = Scratch

\* instance_op, on behalf of c, reaches the instance.
Effect(t, state, c) ==
    /\ Guard(t)
    /\ vm' = [vm EXCEPT ![t] = state]
    /\ cause' = [cause EXCEPT ![t] = c]
    /\ executed' = executed \cup ({c} \cap Rid)

\* Refused by the guard, or an error: nothing happened, or it did and the
\* answer was lost.
InstanceOpError(t, state, c) ==
    \/ UNCHANGED computeVars
    \/ Effect(t, state, c)

-----------------------------------------------------------------------------
(***************************************************************************)
(* on_kernel_pull_failure and fail_closed_stop.                            *)
(***************************************************************************)

LivenessExpired == quiet > Deadline

PullFailed == rpc \in {"poll", "drained", "failed"}

\* The loop goes on polling: what was drained is still queued.
BackToPoll == rpc' = "poll" /\ batch' = {}

\* Mutant: every pull touches the tracker, a failed one too.
WithinDeadlineTouched ==
    /\ PullFailed
    /\ ~LivenessExpired
    /\ BackToPoll
    /\ quiet' = 0
    /\ UNCHANGED <<kernelVars, live, silence, seen, computeVars>>

WithinDeadline ==
    /\ PullFailed
    /\ ~LivenessExpired
    /\ BackToPoll
    /\ UNCHANGED <<kernelVars, live, quiet, silence, seen, computeVars>>

\* The kill record is best-effort and read by nobody here; the ack names no
\* queued run id.
FailClosedStop ==
    /\ PullFailed
    /\ LivenessExpired
    /\ BackToPoll
    /\ Effect(Watched, "stopped", "failclosed")
    /\ quiet' = 0
    /\ UNCHANGED <<kernelVars, live, silence, seen>>

\* The tracker is not advanced, so the next failed pull tries again.
FailClosedStopError ==
    /\ PullFailed
    /\ LivenessExpired
    /\ BackToPoll
    /\ InstanceOpError(Watched, "stopped", "failclosed")
    /\ UNCHANGED <<kernelVars, live, quiet, silence, seen>>

-----------------------------------------------------------------------------
(***************************************************************************)
(* handle_pending_candidate, for the first token of the batch.             *)
(***************************************************************************)

IsNext(r) == r \in batch /\ \A p \in batch : arrival[r] <= arrival[p]

\* verify_with_aud: now - leeway > exp is an expired token.
Verified(r) == age[r] <= TTL + Leeway

IsKill(r) == claims[r].kind = "kill"

\* honour_revocation, once every other gate has passed.
HonourRevocation(r) == claims[r].gen = live

\* A restore is never fenced.
Admitted(r) ==
    /\ Verified(r)
    /\ r \notin seen
    /\ IsKill(r) => HonourRevocation(r)

RejectCandidate(r) ==
    /\ rpc = "batch"
    /\ IsNext(r)
    /\ ~Admitted(r)
    /\ batch' = batch \ {r}
    /\ UNCHANGED <<kernelVars, rpc, live, quiet, silence, seen, computeVars>>

\* What an admitted decision asks of its target.
Wanted(r) == IF IsKill(r) THEN "stopped" ELSE "running"

ExecuteCandidate(r) ==
    /\ rpc = "batch"
    /\ IsNext(r)
    /\ Admitted(r)
    /\ Effect(claims[r].target, Wanted(r), r)
    /\ rpc' = "acted"
    /\ UNCHANGED <<kernelVars, batch, live, quiet, silence, seen>>

\* Mutant: burns the marker although the executor failed.
ExecutorErrorMarked(r) ==
    /\ rpc = "batch"
    /\ IsNext(r)
    /\ Admitted(r)
    /\ InstanceOpError(claims[r].target, Wanted(r), r)
    /\ batch' = batch \ {r}
    /\ seen' = seen \cup {r}
    /\ UNCHANGED <<kernelVars, rpc, live, quiet, silence>>

\* ExecutorError: no marker, no ack, the token stays queued for the next pull.
ExecutorError(r) ==
    /\ rpc = "batch"
    /\ IsNext(r)
    /\ Admitted(r)
    /\ InstanceOpError(claims[r].target, Wanted(r), r)
    /\ batch' = batch \ {r}
    /\ UNCHANGED <<kernelVars, rpc, live, quiet, silence, seen>>

\* nonce_store.record, after the fact; a failed write leaves the set alone.
RecordNonce(r) ==
    /\ rpc = "acted"
    /\ IsNext(r)
    /\ rpc' = "marked"
    /\ seen' \in {seen, seen \cup {r}}
    /\ UNCHANGED <<kernelVars, batch, live, quiet, silence, computeVars>>

\* record_and_ack: the kill record and the ack are best-effort, and the ack is
\* sent also when the record failed.
RecordAndAck(r) ==
    /\ rpc = "marked"
    /\ IsNext(r)
    /\ rpc' = "batch"
    /\ batch' = batch \ {r}
    /\ AckRevoke("reaper", r) \/ UNCHANGED pending
    /\ UNCHANGED <<client, claims, phase, tlog, arrival, pushes, generation, age, grants, order>>
    /\ UNCHANGED <<live, quiet, silence, seen, computeVars>>

\* The loop sleeps for the poll interval.
EndBatch ==
    /\ rpc = "batch"
    /\ batch = {}
    /\ rpc' = "poll"
    /\ UNCHANGED <<kernelVars, batch, live, quiet, silence, seen, computeVars>>

-----------------------------------------------------------------------------
(***************************************************************************)
(* The environment: crashes and time.                                      *)
(***************************************************************************)

\* FileNonceStore::open replays the file; last_success starts at now.
ReaperCrash ==
    /\ rpc' = "poll"
    /\ batch' = {}
    /\ live' = 0
    /\ quiet' = 0
    /\ UNCHANGED <<kernelVars, silence, seen, computeVars>>

\* A pull the kernel was answering fails.
KernelCrash ==
    /\ KernelRestart
    /\ rpc' = IF rpc = "drained" THEN "failed" ELSE rpc
    /\ UNCHANGED <<batch, live, quiet, silence, seen, computeVars>>

Later(n) == IF n > Deadline THEN n ELSE n + 1

Tick ==
    /\ age' = IF Expiry THEN Aged ELSE age
    /\ quiet' = Later(quiet)
    /\ silence' = Later(silence)
    /\ UNCHANGED <<client, claims, phase, tlog, pending, arrival, pushes, generation, grants, order>>
    /\ UNCHANGED <<rpc, batch, live, seen, computeVars>>

-----------------------------------------------------------------------------
KernelStep ==
    /\ KernelHandlers \/ OperatorQueueCalls
    /\ UNCHANGED <<reaperVars, computeVars>>

HandleCandidate ==
    \/ \E r \in Rid :
          \/ RejectCandidate(r)
          \/ ExecuteCandidate(r)
          \/ ExecutorError(r)
          \/ RecordNonce(r)
          \/ RecordAndAck(r)
    \/ EndBatch

FailedPull == WithinDeadline \/ FailClosedStop \/ FailClosedStopError

Next ==
    \/ KernelStep
    \/ PullDrain
    \/ PullAnswer
    \/ FailedPull
    \/ HandleCandidate
    \/ ReaperCrash
    \/ KernelCrash
    \/ Tick

Spec == Init /\ [][Next]_vars

(***************************************************************************)
(* Fairness.  The loop never stops: each pull returns within the client's  *)
(* timeout and the loop sleeps a bounded interval.  An executor call that  *)
(* is made again and again succeeds once; without that nothing can be      *)
(* stopped.  Nothing is assumed of the kernel, of crashes or of the ack.   *)
(***************************************************************************)
LoopFairness ==
    /\ WF_vars(PullDrain \/ PullAnswer \/ FailedPull \/ HandleCandidate)
    /\ SF_vars(FailClosedStop)
    /\ \A r \in Rid : SF_vars(ExecuteCandidate(r))

FairSpec == Spec /\ LoopFairness /\ WF_vars(Tick)

-----------------------------------------------------------------------------
(***************************************************************************)
(* Properties.                                                             *)
(***************************************************************************)

\* The generation fence (honour_revocation, and the order in which restore
\* and pull touch the two stores): once a restore has taken effect, no kill
\* stamped before that restore's grant is what holds its target stopped,
\* whatever was delayed, retried or lost in between.
FenceHolds ==
    \A t \in Target : \A q \in executed :
        cause[t] \in Rid => ~Supersedes(q, cause[t])

\* Fail-closed recording (tlog_append_failclosed): whatever the reaper may
\* still act on, or has acted on, is in the transparency log, if the kernel
\* has a client for it; and a production kernel that was not told to do
\* without the log never comes up without one.  Any other kernel kills
\* without a record.
NothingUnlogged ==
    client \/ client \in ObligedClients =>
        /\ executed \subseteq tlog
        /\ QueuedRids \subseteq tlog
        /\ batch \subseteq tlog

\* q granted another target of the same instance name a new generation.
GrantedNamesake(q, k) ==
    /\ claims[q].kind = "restore"
    /\ order[q] > 0
    /\ claims[q].target # claims[k].target
    /\ InstanceOf[claims[q].target] = InstanceOf[claims[k].target]

\* "It never lets a current-generation kill be skipped" (honour_revocation):
\* the fence turns a kill away only when a later grant of the same target
\* superseded it, or, because current_for_instance looks at every target of
\* that instance name, when a namesake has been granted a generation.
FenceIsPrecise ==
    \A r \in batch :
        rpc = "batch" /\ IsKill(r) /\ ~HonourRevocation(r)
            => \E q \in Rid : Supersedes(q, r) \/ GrantedNamesake(q, r)

\* At-least-once delivery (F-6a): a queued decision leaves the queue because
\* it took effect, expired, was cleared by the operator or was lost with the
\* kernel's memory, never because an attempt to execute it failed.
QueueLosesNothing ==
    [][\A r \in QueuedRids \ QueuedRids' :
          \/ r \in executed
          \/ ~Unexpired(r)
          \/ OperatorQueueCalls /\ UNCHANGED reaperVars
          \/ KernelCrash]_vars

\* "A blip shorter than the deadline does not fire" (docs/architecture.md):
\* the fail-closed stop needs more than Deadline ticks without a pull that
\* succeeded, whatever the loop's own tracker went through.
BlipDoesNotFire ==
    [][cause'[Watched] = "failclosed" /\ cause[Watched] # "failclosed"
          => silence > Deadline]_vars

\* A kill for the watched scratch instance that stays queued, unexpired and
\* not superseded takes effect, however often the executor, the marker, the
\* record or the ack fails first, provided that pulls keep succeeding now
\* and then and the reaper does not keep crashing.
KillTakesEffect ==
    \/ ~[]<><<PullAnswer>>_vars
    \/ []<><<ReaperCrash>>_vars
    \/ \A r \in Rid :
          (r \in QueuedRids /\ IsKill(r) /\ claims[r].target = Watched)
          ~> (\/ r \in executed
              \/ r \notin QueuedRids
              \/ ~Unexpired(r)
              \/ \E q \in Rid : Supersedes(q, r))

\* "If the kernel signal path is lost past a configured liveness deadline,
\* the Reaper resolves that to a shutdown": when no pull succeeds any more
\* the watched instance ends up stopped for good, unless the reaper keeps
\* crashing.
DarkKernelStops ==
    \/ []<><<PullAnswer>>_vars
    \/ []<><<ReaperCrash>>_vars
    \/ <>[](vm[Watched] = "stopped")

(***************************************************************************)
(* What the repository says of the reaper and the code does not do.        *)
(***************************************************************************)

\* docs/architecture.md: "recovery after a real stop is an operator action,
\* never an automatic resurrection": a restore that has taken effect before
\* does not start an instance that was stopped since.
NoAutomaticResurrection ==
    [][\A r \in executed :
          ~IsKill(r) /\ ExecuteCandidate(r) => vm[claims[r].target] = "running"]_vars

-----------------------------------------------------------------------------
(***************************************************************************)
(* The inductive invariant behind FenceHolds and NothingUnlogged.  The     *)
(* fence compares two snapshots taken at different times under different   *)
(* locks, so it is needed to say what each snapshot still guarantees.      *)
(***************************************************************************)

\* The phase of a decision tells what it may have touched.
PhaseInv ==
    /\ \A r \in Rid : phase[r] = "free" => claims[r].kind = "none" /\ order[r] = 0
    /\ \A r \in Rid : client /\ phase[r] \in {"passed", "granted", "queued"} => r \in tlog
    /\ \A r \in Rid : phase[r] \in {"appending", "passed"} /\ ~IsKill(r) => order[r] = 0
    /\ \A r \in Rid : phase[r] = "granted" => ~IsKill(r)
    /\ \A r \in QueuedRids \cup batch \cup executed : phase[r] = "queued"

\* A decision is queued under, and handed out for, its target's name only.
RoutingInv ==
    /\ \A i \in Instance : \A r \in pending[i] : InstanceOf[claims[r].target] = i
    /\ \A r \in batch : InstanceOf[claims[r].target] = InstanceOf[Watched]

\* A kill the running kernel process stamped: on its way to the queue, in
\* it, or in an answer this process is still writing.
StampedHere(k) ==
    /\ IsKill(k)
    /\ \/ phase[k] \in {"appending", "passed"}
       \/ k \in QueuedRids
       \/ rpc = "drained" /\ k \in batch

\* Its target's generation has not gone back, and has moved on if a grant
\* superseded it.
StampInv ==
    /\ \A r \in Rid : order[r] <= grants
    /\ \A k \in Rid : StampedHere(k) =>
          /\ claims[k].gen <= generation[claims[k].target]
          /\ \A q \in Rid : Supersedes(q, k) =>
                claims[k].gen < generation[claims[k].target]

\* Within a batch the echoed generation condemns every kill that a restore
\* executed before, or to be executed from the same batch, has superseded.
EchoInv ==
    rpc \in {"batch", "acted", "marked"} =>
        \A k \in batch, q \in executed \cup batch :
            Supersedes(q, k) => claims[k].gen < live

\* What holds an instance in its state is a decision about that instance.
CauseInv ==
    \A t \in Target : cause[t] \in Rid =>
        cause[t] \in executed /\ claims[cause[t]].target = t

FenceInv ==
    /\ TypeOK
    /\ PhaseInv
    /\ RoutingInv
    /\ StampInv
    /\ EchoInv
    /\ CauseInv
    /\ FenceHolds
=============================================================================
