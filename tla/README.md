# A TLA+ model of the unfireable safety kernel

The repository builds a *safety kernel*: a process that decides whether an agent may act, signs
its decisions, records them in an append-only log, and can stop the machine an agent runs on.
This directory holds TLA+ modules translated from its Rust and Python source, TLC configurations that check
them on small instances, and TLAPS proofs that hold for every instance. Paths below are relative to `src/`.

## 1. Inventory

| Component | State | Operations | Talks to |
|---|---|---|---|
| Revoke routes (`crates/services/safety-kernel/src/routes/revoke.rs`) | `PENDING` (queue per instance *name*), `GENERATIONS` (counter per project/zone/instance), both in memory | mint, restore, pull pending, ack, sweep of expired entries | transparency log (fail-closed), audit log (fail-open), reaper, operators |
| Reaper (`crates/services/safety-kernel-reaper`) | replay markers in a file, liveness tracker | poll loop, kill and restore handlers, fail-closed stop, guarded executor | revoke routes, compute API, transparency log (best effort) |
| Client SDK (`crates/adapters/safety_kernel_client`) | circuit breaker behind a mutex | `before_call`, `record_success`, `record_failure`, calls | kernel |
| Authorize route (`routes/authorize.rs`, `auth.rs`) | none of its own | role, allowlist, fingerprint, ttl, policy, sign, log, audit | policy engine, transparency log |
| Policy and approval routes (`routes/policy/*`, `routes/approvals.rs`), policy engine client (`crates/adapters/src/policy_engine_client.rs`) | none; the registry of modules is the sidecar's | authorize, register, status, audit event; approve, reject | policy sidecar, audit chain |
| Transparency log (`crates/services/transparency-log`, `crates/adapters/transparency_store`) | ledger (memory or Postgres), in-memory consistency tree | append, tree head, verify, consistency | kernel, reaper, auditors |
| Merkle tree (`crates/domain/src/transparency/merkle.rs`) | pure | roots, inclusion and consistency proofs and their verification | transparency log |
| Wave sessions, drift, MCP audit (log routes, `state.rs`, `wave_session_detail.rs`) | index of a wave's leaves, LRU, leaf-to-hash map, sqlite side table | append, verify, rebuild at boot | ledger, skills |
| Wave type states (`crates/domain/src/wave`) | the stage is a type; the audit fields of a wave and its JSON form | six transitions, (de)serialisation, chain check, learning record | wave session route |
| Reconciler (`crates/services/safety-kernel-reconciler`) | the tick under way; local audit file | poll: registry digest, signed manifest, compare, append, POST | registry, manifest server, log |
| Axum middleware | none | guard requests | client SDK |
| Python audit hook (`py-defense/.../install_audit_hook.py`, `subprocess_propagation.py`) | `_installed`, thread-local guard, `_mp_patch_state`, environment | install, ask on each event, carry over to children | policy routes |
| Python middleware, Python revoke client | a breaker of its own; none | guard requests; call the revoke routes | kernel |
| Configuration, TLS, keys, token and JSON formats | - | start-up and encoding | - |

What is hard to test here:

* **Interleavings.** A revoke handler awaits the log between stamping a kill and queueing it, and
  the two stores have a lock each. Clients share one breaker, and outcomes arrive out of order.
  The wave routes keep four derived structures and await between updating them; the Python hook is
  installed without a lock while other threads raise events and fork.
* **Failure.** Every remote call may fail before or after it took effect; the kernel loses its
  queues and generations on a restart while the reaper keeps its markers; the log rebuilds its
  derived state from what the ledger and a best-effort table have kept, perhaps with an older binary.
* **Time.** Token expiry is judged by the kernel's sweep and by the reaper's verifier with leeway;
  the liveness deadline runs while the reaper itself may crash; breaker cooldown against timeouts.

`PROJECT.json` lists these one by one under `hazards`, each at its line, with the properties that
would catch it going wrong.

## 2. The modules

### RevokeKernel - the decider

Models `routes/revoke.rs`. A run id stands for one signed decision. The handler of a request is
the sequence of steps its awaits and locks cut it into, and `phase[r]` is where it stands:

| Step | Code |
|---|---|
| `MintRevoke`, `RestoreRevoke` | `mint_revoke` and `restore_revoke` up to the await: role, tier, stamp, signature |
| `TlogAppend`, `RefuseUnrecorded` | `tlog_append_failclosed`: recorded, or passed over by a kernel without a client; or an error or timeout before or after it took effect, 503 |
| `EnqueueKill` | the rest of `mint_revoke` |
| `IncrementGeneration`, `EnqueueRestore` | the rest of `restore_revoke`, cut between its two locks |
| `PendingRevoke`, `AckRevoke` | `pending_revoke` (drain and sweep), `ack_revoke` |
| `KernelRestart` | both `OnceLock` stores are gone |

Two stores matter: `pending` is keyed by instance *name*, `generation` by the whole target; the
constant `InstanceOf` says which targets share a name. `grants` and `order` are history variables
that say which restore came after which kill, independently of the counters the code uses. `client` says
whether the kernel has a client for the log; it is drawn from the environments of `KernelSettings` (below)
in which the kernel starts, or from those of them that the constant `Deployed` picks.

### Reaper - the executor, composed with the decider

`Reaper` extends `RevokeKernel` and adds the reaper's loop, its marker file, the guarded executor
and the instances. The pull is two steps (`PullDrain`, `PullAnswer`) because the kernel reads the
queue and the echoed generation under different locks. Each candidate goes through `Admitted`
(signature and expiry, replay marker, generation fence for kills), the executor, the marker and
`record_and_ack`; every one of them may fail, and an executor error may hide an effect that
happened. A failed pull leads to `WithinDeadline` or to the fail-closed stop.

### CircuitBreaker - the client SDK

Concurrent callers share the breaker of `circuit_breaker.rs`. A call passes `GateDecision`,
travels without the lock and ends as `Success`, `Failure`, `Unrecorded` (the `authorize` paths
that report nothing to the breaker) or `Cancelled`.

### Authorize - one request through the enforcement point

`seam[r]` is where the middleware stands with request `r`, `kern[r]` where the kernel's handler
stands; the two drift apart when the client gives up on a handler that goes on.

| Step | Code |
|---|---|
| `SendGated`, `SendSupervised` | `handle` in `service.rs`: await the decision, or spawn the call and forward at once |
| `ReceiveRefused`, `Receive` | `authorize` steps 1 to 6: role, allowlist, fingerprint, `ttl_s`; clamp, capture `now`, ask the sidecar |
| `Decide` (external) | the sidecar decides, at any time, on what it was sent |
| `PolicyAllows`, `PolicyDenies` | `parse_authorize_response` and step 7; a deny, a foreign answer or any `IpcError` |
| `TlogAppend`, `TlogFails` | step 7.5, fail-closed; a failed append may have taken effect |
| `AuditAppend` | step 8 and the record of each deny path, best-effort, then the answer |
| `KernelCrash` | the process ends; a call under way may have landed |
| `Perform`, `Refuse` | `verify_kernel_token` in the client and the match in `handle` |

A request that fails in the middleware before the call (unreadable body, missing headers) is a
`Refuse`; the model lets the kernel see it all the same, which only adds behaviours. An append
that lands later than its timeout is taken to land at the timeout: no step reads the log in between.

`KernelSettings` says which environments the kernel starts in (`Settings::from_env`, the key backend,
`build_optional_client`, the listener) and whether it then has a client for the log; `Authorize` draws
its variable `client` from the environments that boot. Without a client the route goes from the
signature straight to the audit record. `ForwardedIsLogged` therefore also says that every production
kernel which was not told to do without the log has a client.

### TransparencyLog, and AppendOnlyLog which it implements

`TransparencyLog` models the four public routes over either store. A handler awaits the store once
per read, so each read is a step. The Postgres append is insert, then commit or abort: the insert
draws a value of the sequence that an abort or a conflict does not give back, and a second inserter
of the same key waits for the first (`KeyFree`, Postgres' own behaviour). A root is the set of rows
it was computed from. `consistency_tree` is shared by all requests, extended under its lock and
gone after a restart.

`AppendOnlyLog` is the promise to auditors: entries are added at the end, a key once, and each
published root commits to the log as it is. `ImplementsLog` maps the rows in index order to that
log, and the signed heads to what was published.

### Merkle

The pure algorithms of `merkle.rs`, over hashes that are the terms they were computed from. The
recursions of the code over slices are recursive functions of a slice's length and first leaf:

| Definition | Code |
|---|---|
| `SliceRoots`, `RootOfHashes` | `root_of_hashes`, of every slice and of the whole |
| `Pushed` (`Carries`, `Reached`) | `HashTree::push`: the nodes a leaf completes, and how far up the loop gets |
| `SubtreeRoots` | `HashTree::subtree_root`: a lookup where the range is aligned, a split elsewhere |
| `InclusionPath`, `ConsistencyProof` | `inclusion_path`; `subproof_with` over either source of roots (`TreeProof`, `SliceProof`) |
| `Round`, `Climb` | one turn of the verifiers' loops, and all of them; running out of siblings ends in a rejection |
| `SkipComplete`, `VerifyInclusion`, `VerifyConsistency` | the two verifiers |

The reference definitions in the properties are the tree's leaves themselves: a proof must be
accepted exactly for the leaf at its index, or exactly for a prefix. `Push` is the one action, so a
behaviour is a growing ledger with the tree that grew with it. The bound `MaxLeaves` is any positive number;
widths and `u64` overflow are left out, since a ledger of 2^63 leaves is out of reach.

`TransparencyLog` takes a root for the rows it was computed from. `ConsistencyBinds` (section 4) is
what justifies it: two ledgers of one size have different roots.

### WaveStages, WaveSessions and WaveCeremony

`WaveStages` is what the other two share: the stages, the gate surfaces, the key of a record and
`AllRequiredStagesPresent`, the chain check.

`WaveSessions` models the routes. The ledger is the truth; `index`, `lru`, `hashes` and `table` are
derived from it. `AppendSession` is `append_session` up to the ledger append: auth layer, stage and
writer, per-skill key, fingerprint, signature, idempotency. Then one step per lock or blocking
worker: `RecordLeaf`, `RecordPayload`, `RecordRow` (may fail, best effort). `Drop` is a client that
goes away at any await. `VerifyBegin`, `VerifyHit`, `VerifyRead`, `VerifyFill`, `VerifyReply` are
`/v1/wave/{id}/verify`: per leaf an LRU hit, or a miss with the blocking read of the table and then the refill,
between which other handlers run; and `AppendMcpAudit` and `AppendReconcilerDrift` put other leaves between.
`Stop` loses everything but ledger and table. `Boot` starts a new or an old binary, which reads the
ledger; each `Rebuild` is one turn of the loop of `reconstruct_wave_sessions_from_ledger`, `Serve` binds
the port, and a stop may come at any of them, so that a boot can find a table which an earlier boot had
half filled. `BootBlind` is the boot whose ledger read failed. Every read and every write of sqlite may fail by
itself: a failed read is taken for a missing row (`state.rs:546`), a failed write is dropped. `misread` and
`unwritten` are history: the leaves whose row the last boot failed to read, or somebody failed to write since. `LogSettings` says which environments the
log starts in and which of its keys are present; the routes' checks refer to them.

`WaveCeremony` models `Wave<S>`: each transition is an action on `wave`, the type is its field
`stage`. `Serialize` and `Deserialize` go through JSON, which does not name the stage, so a reader
picks one and only `ValidateWireFields` stands in the way; `Replan` plans the same id again with
other paths, and `plan`, which is history, says to which plan a wave, its JSON and a record belong; `Post` puts a record of a transition that ran into the log, in any order, again or
never. The skills that call the crate are not in the repository and are taken to be free to do so.

### PolicyRoutes and AuditHook

`PolicyRoutes` models the four policy routes, the two approval routes and the IPC client. A slot
runs one handler: `Receive` (refused, signed at once for approvals, or asked of the sidecar),
`Deliver` or `IpcFails`, `Audit` (may fail), `ReplyTo`, and `Drop` when the connection goes. The
sidecar is external: it answers any line it was sent, in any order, and may hand a handler the
answer to another line; `ValidateEnvelope` is the client's defence against that.

`AuditHook` extends it with the Python hook: threads are its `Callers`. Installation is cut at each
statement that other threads can see (`InstallBegin`, `InstallSuppressed`, `InstallConfigures`,
`InstallArms`); `EventPasses`, `EventAsks`, `EventAnswered`, `EventUnavailable` are the callback;
`WrapSubprocess` and `Prologue` the rewritten command line and environment, where
`InjectPythonPrologue` says which argument each form of command line gets the prologue in front of and
`PythonRuns` what python makes of it; `MpSave`, `MpEnter`,
`MpExit`, `Fork`, `PatchedRun` the patch of `Process.run` and the children forked under it.

### Reconciler

One action per await of `tick_once` and per way it can fail: the registry query (which may also hang, since it
has no timeout: `QueryHangs`), the manifest (`ManifestArrives`, with signature, freshness and image check),
the append, the POST. `StampDrift` is the second clock read of a tick, which dates the event. An image
reference is a record of registry, repository, port and digest, so that `StripTag` cuts where the code
does. The POST goes to `/v1/append`, whose body is modelled from the log's `dto.rs`. The registry's
tag, the releases, the clock and restarts move between any two of them; the manifest server may
answer with any manifest, old, foreign or unsigned. `Restart` keeps the file and the log only.

The `MC*` modules instantiate these for TLC; `ReaperProofs`, `AuthorizeProofs` (which also proves
about `CircuitBreaker`, the breaker the kernel is called through), `PolicyProofs`,
`TransparencyLogProofs` (which also proves about `AppendOnlyLog`), `MerkleProofs`,
`WaveSessionsProofs`, `WaveCeremonyProofs` and `ReconcilerProofs` hold the proofs.

### What the models leave out

* A token is the claims it binds; the byte format and the signature are not modelled.
* The reaper's executor is the armed one; the disarmed mock is left out.
* The kernel's own audit append is fail-open and changes no state the properties see.
* Both processes read the same clock. Ages stop counting where they can no longer change an
  outcome (`AgeCap`, `Deadline + 1`, `Cooldown`).
* Queues are sets; `retain` and `push` keep the order of arrival, which `arrival` records.
* The checks of a policy request's body before its first await are one flag, the heuristic for
  dangerous regular expressions included; a pattern set matches the path it was registered for or
  misses it.
* A wave is one wave: others share only the ledger, the LRU and the table with it. A signature is
  whether it verifies.

### Not modelled

* The Python middleware: its breaker has the states of the SDK's, mutated on one event loop, and
  records every outcome except a cancellation; a model would repeat `CircuitBreaker` with another
  classification of outcomes. The Python revoke client keeps nothing between its calls.
* The parsing of settings and the contents of keys and certificates: in `KernelSettings` and
  `LogSettings` each is absent, bad or good. The settings of the reaper and the reconciler.
* Token, claims and canonical JSON encodings: byte formats. The models treat a token as the claims
  it binds and a signature as unforgeable.
* The rendering of a wave's learning record, OpenAPI contracts, examples and figures.

## 3. The runs

| Run | Config | Result | Properties | What it shows |
|---|---|---|---|---|
| `reaper` | `MCReaper.cfg` | pass | `TypeOK`, `FenceHolds`, `FenceIsPrecise`, `NothingUnlogged`, `QueueLosesNothing`, `BlipDoesNotFire` | Two decisions about two targets that share an instance name, one of them protected, in kernels with and without a client for the log, with expiry, leeway, the liveness deadline, failed calls and crashes in every order: the generation fence holds and turns away only kills that a later grant of the target, or of its namesake, has superseded; a kernel with a client, and every production kernel not told to do without the log, queues and executes nothing unlogged; no queued decision is lost to a failed attempt, and no outage within the deadline stops the instance. |
| `reaper_live` | `MCReaperLive.cfg` | pass | `KillTakesEffect`, `DarkKernelStops` | A queued, current kill is executed in the end although pulls, the executor, the marker, the record and the ack may each fail; and a kernel that stays dark leads to a stopped instance that nothing starts again. |
| `reaper_resurrect` | `MCReaperResurrect.cfg` | violation | `NoAutomaticResurrection` | A restore whose answer was lost is retried after a newer kill and starts the stopped instance again. |
| `breaker` | `MCBreaker.cfg` | pass | `SingleProbe`, `StateMatchesCounter`, `BreakerRecovers` | Three concurrent callers, late outcomes, unrecorded and cancelled calls: one probe at a time, the counter agrees with the state, and a breaker whose failures stop ends up closed unless a probe ended without an outcome. |
| `authorize` | `MCAuthorize.cfg` | pass | `NoSilentAllow`, `ForwardedIsLogged`, `DecisionIsFresh`, `AuditIsRight` | Two requests through middleware, client, kernel, sidecar, log and audit chain, with every call failing, hanging or answered for the other request: what a gated route forwards was allowed for that request, is in the log and fresh, and the audit chain never contradicts it. |
| `log` | `MCTransparencyLog.cfg` | pass | `TypeOK`, `AppendIsIdempotent`, `MemoryEntryMatchesProof`, `ConsistencyAccepted`, `ImplementsLog` | Two concurrent handlers over either store, with aborted transactions, lost answers, retries and restarts on Postgres: one row and at most one 201 per key; the memory store implements the append-only log, its entries match their proofs, and the shared consistency cache answers as the heads that were handed out. |
| `log_entry` | `MCLogEntry.cfg` | violation | `EntryMatchesProof` | On Postgres /v1/verify pairs an entry with the inclusion proof of another one. |
| `merkle` | `MCMerkle.cfg` | pass | `HashTreeMatchesSlices`, `InclusionIsExact`, `ConsistencyIsExact` | Every ledger of up to seven leaves over two payloads: the cached tree agrees with hashing from scratch, and both verifiers accept the right proofs and no proof of a wrong statement. |
| `policy` | `MCAuditHook.cfg` | pass | `TypeOK`, `TokenBacked`, `OneReceiptPerRow`, `ImportAuthorised`, `ChildRunsTarget`, `PatchHeld` | The kernel's policy and approval routes with the Python audit hook in front of them: concurrent handlers, timeouts, dropped connections and a sidecar that confuses its connections, concurrent installations and threads, kill switch, children by fork and by Popen with every form of command line: tokens say what the sidecar said, a covered process, or a child started in a form that takes the prologue, runs only what was allowed, and no fork catches wrap_multiprocessing half way. |
| `reconciler` | `MCReconciler.cfg` | pass | `DecisionIsGrounded`, `DriftReported` | The polling loop against a registry, a release process and a manifest server that move between its awaits and its two clock reads, with failing calls, a query that hangs, replayed and foreign manifests, a watched reference with and without a registry port, and a restart: every drift event and every match rests on a manifest of the watched repository (with a port: registry) that was fresh when it was judged, and lasting drift reaches the local file unless a query never returns. |
| `waves` | `MCWaveSessions.cfg` | pass | `TypeOK`, `AnswerMatchesLedger`, `LabelsVerify`, `AcknowledgedResolves`, `CreatedOnce` | Two concurrent clients post, replay, drop and verify wave sessions over an LRU of one entry, with sqlite reads and writes that may each fail, audit leaves in between, two stops, the second perhaps in the middle of a boot, and boots of a new or an old binary: answers show what the ledger commits to, a verified label is lost only to a failed read or write, acknowledged leaves stay resolvable unless a write failed, and a leaf is created once. |
| `ceremony` | `MCWaveCeremony.cfg` | pass | `PurpleTeamHeld`, `LearnedSessionHeld`, `CompleteIsOneCeremony`, `ClosedIsComplete` | A wave goes through its transitions, is written as JSON at one stage and read at another, is planned again with other paths while records and JSON of the first plan are still about, and records are posted in any order: no gate surface gets past the purple-team stage without a session of its own plan, a complete chain was not patched together from plans given up halfway, and a closed plan makes its chain complete. |

A type invariant is there to catch a mistake in the model; those of the breaker, authorize,
reconciler and ceremony modules are proved instead (section 4). The other properties are aimed at the hazards of `PROJECT.json`. A run that expects a violation checks one statement of the
repository and shows a behaviour of the code that contradicts it (section 5).

Bounds. Two run ids make a kill race a restore or another kill, which is what the fence is about;
the third party of the interesting schedules is the environment (crash, failed call), which is
unbounded. In `reaper` two targets share an instance name, and the second name stays empty; the kernel is any of
those that start, so it may have no client for the log. `reaper_live` and `reaper_resurrect` have one target and a
kernel with a client, whose appends may also be refused; their properties do not look at the log. TTL, leeway and deadline of
one tick each give the three distinct orders of sweep, verifier and deadline. `Expiry = FALSE`
keeps decisions young in the liveness runs, where an expired decision would discharge the
property. The breaker run uses three callers: one probe, one late success, one late failure. The
counter saturates two above the threshold so that saturation is reached.

Two requests are enough for the sidecar's answers to be mixed up. The six request forms cover both
tiers, each refusal and the accepted forms; a clock of three ticks is one more than `MaxTTL +
Leeway`, so a stale decision is within reach. The log runs have two handlers, two keys and two payloads, so that same-key and different-key races
both happen; two rows, and `MaxSeq` leaves room for the index values that aborts use up on Postgres.
The store is chosen in `Init`, so one run covers both. Seven leaves are the first size whose tree has
three levels of unequal subtrees.

In `waves` an LRU of one entry and two leaves make every lookup of the second leaf evict the first,
and two stops let one of them fall into a boot; the posted bodies hold a replay, a conflict under the same key,
a record an old binary cannot read and the refused forms. `ceremony` has two plans, two session ids and two
paths, one of them a gate surface. Five transitions that leave a record (`MaxRuns`) are one plan with all of
its stages and one record of the other, or a plan given up before its acceptance and one that skips the
purple team; records of the two plans may fall under one key, so the 409 of `Post` happens too. Without
`MaxRuns` the graph is too large to exhaust, and the theorems of section 4 cover any number.

`policy` gives each behaviour one *scope* of `MCAuditHook`, so that the parts that do not touch each
other are not multiplied: `Routes` (all six routes, two handlers at once), `Registrations` (three
racing registrations of a module), `TwoThreads` (two threads installing and asking), `Installs`
(installations and the kill switch), `Children` (a thread and the child it starts, in every form of
command line), `Multiprocessing` (two threads patch and unpatch while one forks). `reconciler` has two
releases, one move of the tag and one restart; `MaxAge` 1 and a clock up to 2 let a manifest go
stale, also between the two clock reads, and a release clock that may run a second ahead gives the manifest
from the future. The watched reference is one without a port, or one with a port whose registry also
holds another image.

`CHECK_DEADLOCK FALSE` is set only where everything may really be over: in `authorize` each request
is sent once and the clock is bounded, in `merkle` and `waves` the ledger reaches its bound, in
`policy` the request ids are used up and the processes have ended, and in `reconciler` a registry query that
never returns stops the loop.

Fairness. The reaper loop is weakly fair: each pull is bounded by the client's timeout and the
loop sleeps a bounded interval. `SF` on the executor says that a stop tried again and again gets
through once; without it nothing can be stopped. Nothing is assumed of the kernel, of crashes or
of the ack: the properties say "unless the reaper keeps crashing". For the breaker, calls end by
their timeout and callers keep calling. For the reconciler the clock, the loop and the POST, which fails
within its client's timeout, go on by themselves (weak fairness: nothing in the loop returns on an error);
the registry query, the arrival of an acceptable manifest and the local append are strongly fair, which says
that what is tried on every tick works once. Nothing is assumed of a query that hangs: the property
names that case.

## 4. What is proved

TLAPS checks these for every value of the constants, that is for any number of handlers, threads, keys,
records, leaves, stops and any capacity or deadline. They rest on the named assumptions of the modules,
which TLC evaluates on the runs: `KernelAssumption`, `ReaperAssumption`, `BreakerAssumption`,
`AuthorizeAssumption`, `PolicyAssumption`, `HookAssumption`, `LogAssumption`, `MerkleAssumption`, `WaveAssumption`,
`ReconcilerAssumption` and `CeremonyAssumption`. They are types and ranges (there is a module to import,
the threads are finitely many, parent and child are two processes), `CallTimeout < Cooldown` for the
breaker, and an environment the log boots in.

| Module | Theorem | States |
|---|---|---|
| `ReaperProofs` | `TypeCorrect`, `FenceCorrect`, `LogCorrect` | `[]TypeOK`, `[]FenceHolds`, `[]NothingUnlogged` |
| | `FencePrecise` | `[]FenceIsPrecise` |
| | `QueueKeepsDecisions`, `BlipsDoNotFire` | the action properties `QueueLosesNothing`, `BlipDoesNotFire` |
| `AuthorizeProofs` | `SingleProbeCorrect`, `CounterCorrect` | the breaker: `[]SingleProbe`, `[]StateMatchesCounter` |
| | `OnlySilenceStrands` | only a probe that reports nothing leaves the breaker stuck in HalfOpen, and only a late outcome frees it |
| | `NoSilentAllowCorrect`, `ForwardedIsLoggedCorrect`, `DecisionIsFreshCorrect`, `AuditIsRightCorrect` | the four invariants of the run `authorize` |
| `PolicyProofs` | `HookTypeCorrect`, `TokensAreBacked`, `RowsHaveOneReceipt`, `ImportsAreAuthorised`, `ForksRunTheirTarget`, `PatchIsHeld` | the six invariants of the run `policy` |
| `TransparencyLogProofs` | `LogTypeCorrect`, `AppendsAreIdempotent`, `MemoryEntriesMatch`, `ConsistencyProofsAccepted` | the four invariants of the run `log` |
| | `MemoryImplementsLog`, `HeadsArePrefixes` | the refinement `ImplementsLog`; through it `[]PublishedArePrefixes` of the heads handed out |
| `MerkleProofs` | `HashTreeCorrect`, `InclusionCorrect`, `ConsistencyCorrect` | the three invariants of the run `merkle` |
| | `TreeInvariant`, `TreeProofsAreSliceProofs` | what the rows of the `HashTree` hold; its proofs are those computed from the leaves |
| | `InclusionBinds`, `ConsistencyBinds` | no path and no proof, of whatever length and origin, is accepted for a wrong statement |
| `WaveSessionsProofs` | `WaveTypeCorrect`, `AnswersMatchLedger`, `LabelsAreVerified`, `AcknowledgedStaysResolvable`, `LeavesAreCreatedOnce` | the five invariants of the run `waves` |
| `WaveCeremonyProofs` | `CeremonyTypeCorrect`, `PurpleTeamHeldCorrect`, `LearnedSessionHeldCorrect`, `CompleteIsOneCeremonyCorrect`, `ClosedIsCompleteCorrect` | the type invariant and the four invariants of the run `ceremony` |
| `ReconcilerProofs` | `ReconcilerIsGrounded` | `[]DecisionIsGrounded` |

**The fence.** `FenceHolds` is not inductive: the reaper compares a stamp made in one kernel
process with a generation echoed by perhaps another. `FenceInv` adds what each snapshot still
guarantees: `PhaseInv` (what a handler at each phase has touched), `RoutingInv` (decisions are
queued under their own name), `StampInv` (while the stamping process lives, a superseded kill
carries a generation below its target's), `EchoInv` (within a batch the echoed generation is
above the stamp of every superseded kill, for restores executed before or still in the batch) and
`CauseInv`. The key step is `PullAnswerStep`: the generation is read *after* the queue, so it can
only be newer, and a restart between the two empties the answer. The proof needs no assumption on
shared names: sharing can only raise the echoed generation, which costs precision and not safety.
Precision is the converse: `PreciseInv` says that a stamp which differs from its target's generation, or in a
batch from the echoed one, was overtaken by a grant of the target or of a target of the same name, which is the
exception `FenceIsPrecise` makes (section 5). `LogCorrect` rests on `KernelSettings`: no kernel that is
obliged to log comes up without a client.

**The queue and the deadline.** That a decision leaves the queue only for a good reason is a property of
one step, yet the ack removes what the reaper says it handled; `AckInv` therefore says that the order
of arrival tells queued decisions apart and that the one at the head of a batch, once the loop is past
the executor, has been executed. `SilenceInv` says that the loop's tracker never runs ahead of the
true silence.

**The probe.** `ProbeAge` says that a probe which outlived its HalfOpen state is older than the
opening that ended it. With `CallTimeout < Cooldown` it is gone before the next probe may start.
The code does not check that assumption: `call_timeout_seconds` is ignored in favour of a constant
five seconds and `cooldown_seconds` is free, so a cooldown of five seconds or less breaks it.
`OnlySilenceStrands` is the safety half of `BreakerRecovers`: it says when its exception can come about.

**A request.** None of the four properties of `Authorize` is inductive, since `performed` says
nothing of the past. `AuthorizeInv` adds what each stage of the handler implies: `CheckedInv` (it
passed steps 1 to 3), `SignedInv` (the sidecar allowed it, and the signed times do not change),
`LoggedInv`, `CapturedInv` (`now` was captured before the sidecar decided, and the ttl is within
the maximum) and `AnsweredInv` (what ran or was audited agrees with a stage that no longer
changes). Freshness is then `p[2] <= exp + Leeway = iat + ttl + Leeway <= m.at + MaxTTL + Leeway`.

**The policy routes and the hook.** `AuditHookInv` has a kernel half and an interpreter half. The kernel
half: a request id in use names one request (`IdsInv`), a registration is answered with its own row or
without a receipt (`SidecarInv`), a token repeats an answer of the sidecar (`TokensInv`), and 200 on the
authorize route is an allow (`StatusInv`). With these the answer a confused sidecar hands to the wrong
handler is recognised by its id. The interpreter half: a process that promised to be covered is armed,
hooked and fail-closed unless it was told to be lax (`CoverInv`), also between the steps of concurrent
installations (`ThreadInv`) and while a child is being started (`SpawnInv`); the patch is in place as long
as somebody counts on it (`MpInv`). `FlightInv` joins the two: a thread that waits has at most one
handler, and that handler works on the thread's module.

**The log.** `KeyInv` says that the transaction about to create a key is alone with it, and that once
the row is there either one handler owes the 201 or it was given; it holds over both stores. `MemoryInv`
says that the rows of the memory store have the indices 0 to `next - 1`, and that every root handed out,
every view a handler of `/v1/verify` works with and the cached tree are prefixes of them, with one
handler at a time extending the tree. Index and position then agree (`DenseCardinality`,
`DenseLeaf`), which is just what fails on Postgres. The refinement follows step by step: the new row comes
last (`OrderedAppend`), and every other step leaves the promised log as it is or publishes it.
`HeadsArePrefixes` follows from it: in the abstract log everything published stays a prefix.

**The tree.** The invariant is `TreeInv`: row `l` of the `HashTree` holds the roots of the complete nodes
of width 2^l, and every width up to the size has a row. Everything else is about the operators, for
ledgers of every size.

*Induction.* The library's induction theorems take a predicate, which the provers cannot instantiate. A
*set* of naturals can be passed, so `StrongInduction` and `Induction` are proved from the least element
of a set (`WFMin`) and applied to the set of lengths for which a statement holds. A recursive function
is a CHOOSE; that there is one to choose is proved by extending a finite function by one argument (the lemmas
`...Exist`), after which its recursion can be used as an equation.

*Nodes.* `NodeAt(h, P, i)` is node `i` of the row of width `P`, the incomplete last one included. `NodeUp`
says that a node is the hash of its two children, or the same as its left child where there is no right
one. It is the bridge between the code's two views, splits at the largest power of two going down and
pairs of nodes going up. `PushedRows` (a push keeps `TreeInv`) and `SubtreeRootsAre` (the tree answers as hashing
does) follow from it.

*Verifiers.* `ClimbSound`: if a climb, with any path, ends in the root of `h`, then every hash on
the way was that of its node and every sibling used was the true one, since a hash determines what was hashed.
So the inclusion verifier's hash is the leaf, and on the consistency side `OldClimb` shows that the same
siblings give the root of the first `m` leaves. Conversely `TrailClimb`: the prover's path lists
just these siblings in order (`PathUp`, `ProofUp`), and the first hash of a consistency proof is the node
that `SkipComplete` arrives at (`SkipReaches`). `RootDetermines` says that equal roots of one size mean equal
ledgers.

**Wave sessions.** `WaveInv` has five parts. `WaveTypes`; `ModeInv`: handlers run only while the process
serves, and a process that is down has derived nothing; `SidesInv`: every copy of a side value, in the
LRU, in the table, in a handler's hands or in an answer under way, matches its leaf and may be shown.
The subtle half of "may be shown" is `Standing`: a value rebuilt from the ledger may stand only over a row
that is there and not verified, which no later insert replaces, or where sqlite has failed on that very
leaf: a read of the row at boot, or a write of it. `AckInv`: what was acknowledged resolves, or is unreadable to this binary, or is among the leaves
the boot has yet to come to; and what a boot has yet to come to is not in the LRU. `CreateInv`: a leaf has
one creator, and after its 201 none. The step that costs most is `Rebuild`: that a readable leaf whose row
was read without error and not found has no row at all, because the row would match the leaf.

**A tick.** `DecisionIsGrounded` speaks of what has reached the file or the log. The inductive
invariant of `ReconcilerProofs` adds `PendingIsGrounded`, the same for the event between the
comparison and its two sinks, and `ReadIsADigest`, that a tick which awaits the manifest holds a
digest; together with `TypeOK`. `published` only grows and an event keeps the instant it was judged
at, so what was vouched for stays so, however long the sinks take and whatever the second clock read
says. What `StripTag` leaves of two references that compare equal is the content of `InRepository`.

**A wave.** A wave in hand comes from a transition or from JSON written at any stage, so
`CeremonyInv` says the same of both: a session id they carry is one of a session that was held under
their own plan (`HeldSessions`). The second half is that every transition establishes what `validate_wire_fields`
asks of its new stage, so that a wave is held to the same fields whichever way it got there.

`CloseInv` adds that verdicts, in a wave or in its JSON, come from an acceptance under the same plan, so
that every record ever made has behind it the sessions of its own plan that its stage asks for
(`HeldBefore`). The chain check, which takes the records of all plans together, then cannot be satisfied
by plans given up halfway alone.

The inductive invariants of `AuthorizeProofs` (breaker and route), `ReconcilerProofs` and
`WaveCeremonyProofs` contain the type invariants of their modules.

Only model-checked are the liveness properties `KillTakesEffect`, `DarkKernelStops`, `BreakerRecovers` and
`DriftReported`: fairness and ENABLED are out of this prover's reach.

The two runs that expect a violation are counterexamples; there is nothing to prove.

## 5. Where the code and its documentation disagree

Each of these two is a run whose counterexample is a behaviour of the code:

* **`reaper_resurrect`** (`NoAutomaticResurrection`): handle_restore_candidate is never fenced: a restore whose start took effect but whose answer, marker or ack was lost stays queued, and its retry starts an instance that a newer operator kill has stopped since; docs/architecture.md:215 says "recovery after a real stop is an operator action, never an automatic resurrection".
* **`log_entry`** (`EntryMatchesProof`): build_inclusion_proof treats leaf_index as a position among the rows, but a BIGSERIAL starts at 1 and skips the values of aborted or conflicting inserts, so /v1/verify returns the entry with one index and the proof of another entry, and both pass the route's own check; crates/adapters/transparency_store/src/lib.rs:61 says of leaf_index "0-based ledger position" and crates/adapters/transparency_store/migrations/0001_transparency_log.sql:4 says "serialization of concurrent transactions guarantees no gaps".

Other disagreements met while modelling, which have no run of their own:

* `crates/services/safety-kernel-reaper/src/nonce_store.rs:54` asks that "`record` MUST be durable
  BEFORE the executor acts"; `handle_kill_candidate` executes first and records afterwards (and
  says so), so a crash in between lets the same kill run twice. Stopping twice is harmless, and the
  model shows that the fence holds anyway.
* `fail_closed_stop` logs its kill record best-effort, while `docs/architecture.md:218` says "no
  unaudited shutdown".
* `record_success` closes the breaker from Open too, so a late success closes it without a probe;
  `docs/architecture.md:101` says it "closes only after a successful probe".
* `docs/architecture.md` describes a breaker that is "closed but unprimed" until its first probe;
  the code has no such state.
* With Postgres `/v1/consistency` starts at index 0, which a `BIGSERIAL` never assigns, and ends in
  "gap at leaf_index 0" for every non-empty first tree. For this reason
  `ConsistencyAccepted` is checked for the memory store only. `/v1/verify` may answer 500 when an
  append lands between its reads.
* The inclusion verifier takes `tree_size` from the proof, so it binds the size only through the
  length of the path. `InclusionIsExact` states what does hold: the leaf and its index are bound.
* `body.metadata` is copied over `run_id`, `caller_role` and `params` in the metadata sent to the
  sidecar.
* The lifetime of a token counts from before the sidecar is asked, so a slow decision may be
  answered with a token that has expired. That is the safe direction, and `DecisionIsFresh` is the
  guarantee it buys.
* `GateDecision` never answers `Permit` in HalfOpen, because `StateMatchesCounter` shows the gate is
  held exactly in HalfOpen. That branch of `before_call` is dead code.
* `current_for_instance` answers with the maximum over every target that shares the instance name
  (`routes/revoke.rs:206`), so the restore of a machine in another zone or project makes the fence
  reject a kill whose own target is current; `crates/domain/src/safety/revoke.rs:262` says that it
  "never lets a *current*-generation kill ... be skipped". `FenceIsPrecise` makes this, and only this, an
  exception, and the run `reaper` has two targets with one name.
* `tlog_append_failclosed` goes on without an append when there is no client (`routes/revoke.rs:251`, where the
  comment says "Dev only"); a production kernel whose flag is off has none either, and its kills and restores
  are queued and executed unlogged. `NothingUnlogged` states what does hold: with a client, and in every
  production kernel that was not told to do without, nothing is.
* `authorize` reports nothing to the breaker for a 4xx other than 403 or for a token that does not
  verify (`client.rs:222`): such a probe leaves HalfOpen with the gate held. `client_state.rs:35` says
  "one probe is allowed; outcome decides next state". `BreakerRecovers` makes the exception explicit.
* `crates/services/safety-kernel/src/state.rs:43` says that routes must fail closed when transparency is
  enabled and there is no client; `authorize` skips the log whenever there is none, and only `main`, in
  production, refuses to start that way. The comment at `routes/authorize.rs:265` takes a missing client for
  a dev environment, but a production kernel whose flag is off has none either. `ForwardedIsLogged` states
  what does hold.
* The log's `settings.rs` says that it mirrors the kernel's, which trims `QORCH_ENV`; the log's does not, so
  that `"prod "` is production for one and not for the other.
* `sth` reads size and root with two store calls (`routes/sth.rs:22`), so an append in between gives a
  head whose size is not that of its root; `transparency_store/src/lib.rs:134` promises a snapshot.

Wave sessions:

* A stage without a `QORCH_TRANSPARENCY_KEY_*` of its own is refused once any is set, although
  `per_skill_keys.rs:199` says a key is required "for that stage only",
  and the shared `x-api-key` gate in front means that only a per-skill key equal to it passes both.
* The rebuild is said to be lossless; an Ed25519 leaf whose side row was lost comes back as an HMAC
  leaf with a placeholder. `AnswerMatchesLedger` and `LabelsVerify` state what does hold.
* A failed sqlite read counts as no row (`state.rs:546`). At a boot the HMAC-only value is then cached, and
  shown, although the table holds the verified Ed25519 row, against the comment at
  `routes/wave_session.rs:184` ("keeps full Ed25519 fidelity"); while serving, `verify` answers 500 where the next
  read may work. `LabelsVerify` excepts the leaves whose row was misread or could not be written, and
  `AcknowledgedResolves` those whose row could not be written.
* `SideTable::insert` is documented as "insert (or replace)" and keeps the old row.
* An append that is dropped after the leaf was indexed and before its payload was cached leaves
  `/v1/wave/{id}/verify` answering 500 for the whole wave until it is posted again or the log boots.
* `verify` ignores unreadable leaves when it can read others, and never calls
  `lookup_with_integrity_check`, which `wave_session_detail.rs:62` describes as part of it. Rows do not go bad in
  the model, so `AnswerMatchesLedger` says nothing of a corrupted table.

Wave type states:

* The JSON of an Accepted wave can be read as Closed without a closeout, and a Closed one read as
  Planned keeps its later fields. A user-acceptance verdict of `NotTested` counts as a pass.
* A chain that was complete can become incomplete when a replanned record with surfaces is posted.

Policy routes and audit hook:

* `routes/policy/audit_event.rs:10` calls the append fail-closed; it is fail-open.
* The same item may be approved and rejected, and a registration whose receipt was lost answers a
  retry with 409 and no token.
* `install_audit_hook` has no lock: concurrent installations may both arm. A repeated installation
  with the same arguments raises, since each draws a fresh run id, where its documentation says it
  warns and does nothing. The hook does not verify the token of a 200.
* `_build_propagation_env` uses `setdefault`, so a stale value in the child's environment wins over
  the parent's, and the child of a fail-closed parent may be fail-open.
* `_inject_python_prologue` takes the first `-c` anywhere in the arguments for the interpreter's
  (`subprocess_propagation.py:162`), so for `python script.py -c x` and `python -m mod -c x` the prologue
  ends up in an argument of the program; a script given as a `Path` is left alone (line 188). Both run
  without the hook, and nothing reports it. `ImportAuthorised` covers the other forms.
* A bare `python` child runs without the hook, `python -m mod` is rewritten to a command line that
  python refuses, the prologue passes neither the audited kinds nor the timeout on, and the patch of
  `Process.run` does not reach children started by spawn.

Reconciler:

* `strip_tag` cuts at the first colon, so for a reference with a registry port (`host:5000/repo`) only
  the host is compared and a manifest of any image of that registry is accepted, against the comment
  of `check_image` (`reconciler.rs:579`); of a reference with a digest it keeps `repo@sha256`, which matches no
  plain one. `DecisionIsGrounded` states what does hold.
* `detected_at` is a second clock read (`reconciler.rs:491`), so an event may be dated after its manifest went
  stale. The model keeps the instant of the check as well, and freshness is about that one.
* The POST sends a bare event without `x-api-key` to `/v1/append` (`reconciler.rs:89`), which refuses every
  such body, as does `/v1/audit/drift`: no drift event reaches this repository's log. `DriftReported` is about the
  local file.
* The registry query has no timeout (`reconciler.rs:281`): one that hangs stops the loop, and drift is
  not reported any more. `DriftReported` names it as its exception.
* The running digest is read before the manifest, so a release between the two reads is reported as
  drift. The event is still grounded in the sense of `DecisionIsGrounded`.
* "persisted locally only" is logged even when the local append failed.

## 6. Plan

Done: every component listed as modelled in `PROJECT.json`, and a theorem for every safety property that
a passing run checks. What could come next:

1. The safety halves of the other liveness arguments as theorems, as `OnlySilenceStrands` is for the
   breaker: that a tick which ends in an error leaves the reconciler's loop able to run, and that a
   queued kill stays executable until it is executed or superseded.
2. The Python middleware's breaker as a second instance of the breaker's promise.
3. `TransparencyLog` over the roots of `Merkle` instead of sets of rows, in one composed module.
