------------------------------ MODULE Reconciler ------------------------------
(***************************************************************************)
(* The reconciler service (safety-kernel-reconciler): a polling loop that  *)
(* compares the digest a registry tag names with the digest of a signed    *)
(* release manifest, and reports drift to a local audit file and to the    *)
(* transparency log.                                                       *)
(*                                                                         *)
(* A tick is a chain of awaits: registry query, manifest fetch, audit      *)
(* append, log POST.  The registry, the release process, the manifest      *)
(* server and the log are external and move between any two of them; each  *)
(* call may fail, and the registry query, which has no timeout, may never  *)
(* return; the process may be killed and started again.                    *)
(***************************************************************************)
EXTENDS Integers, FiniteSets

CONSTANTS
    Images,         \* the image references in manifests
    Configured,     \* the references config.image_repository may be
    Digests,
    NoDigest,
    MaxAge,         \* manifest_staleness_seconds
    MaxTime,        \* bound on the clock
    MaxReleases,    \* bound on signed manifests
    MaxPushes,      \* bound on changes of the tag
    MaxCrashes      \* bound on restarts

\* registry is the text up to the first slash, repo the rest; a reference may
\* give the registry a port, and a digest (repo@sha256:...) instead of a tag.
Reference == [registry: STRING, repo: STRING, port: BOOLEAN, pinned: BOOLEAN]

ASSUME ReconcilerAssumption ==
    /\ Images \subseteq Reference
    /\ Configured \subseteq Reference
    /\ Digests # {} /\ NoDigest \notin Digests
    /\ {MaxAge, MaxTime, MaxReleases, MaxPushes, MaxCrashes} \subseteq Nat

VARIABLES
    watched,    \* config.image_repository
    now,        \* the wall clock, whole seconds
    tag,        \* registry: the digest under the watched reference
    pushes,     \* how often the tag has moved
    published,  \* the manifests the release key has signed
    step,       \* where the polling loop is
    running,    \* the digest the current tick has read
    event,      \* the drift event of the current tick
    file,       \* the local audit log
    tlog,       \* drift events the transparency log has accepted
    outcome,    \* what the last tick returned
    crashes

vars == <<watched, now, tag, pushes, published, step, running, event,
          file, tlog, outcome, crashes>>

worldVars == <<watched, now, tag, pushes, published>>

-----------------------------------------------------------------------------
Times == 0..MaxTime
Manifest == [image: Images, digest: Digests, issued_at: 0..(MaxTime + 1)]
\* at is detected_at_epoch_seconds; judged, the instant of the freshness check,
\* is kept by the model only.
DriftAuditEvent == [running: Digests, expected: Digests, judged: Times, at: Times]
NoEvent == [running |-> NoDigest]

Steps == {"waiting", "querying", "hung", "fetching", "detected", "auditing",
          "posting"}
Outcomes == {"none", "error", "match", "drift"}

Init ==
    /\ watched \in Configured
    /\ now = 0
    /\ tag = CHOOSE d \in Digests : TRUE
    /\ pushes = 0
    /\ published = {}
    /\ step = "waiting"
    /\ running = NoDigest
    /\ event = NoEvent
    /\ file = {}
    /\ tlog = {}
    /\ outcome = [kind |-> "none"]
    /\ crashes = 0

-----------------------------------------------------------------------------
(* The world around the reconciler.                                        *)

ClockTicks ==
    /\ now < MaxTime
    /\ now' = now + 1
    /\ UNCHANGED <<watched, tag, pushes, published, step, running, event, file,
                   tlog, outcome, crashes>>

\* Somebody moves the tag, as part of a release or not.
Push(d) ==
    /\ pushes < MaxPushes
    /\ d # tag
    /\ tag' = d
    /\ pushes' = pushes + 1
    /\ UNCHANGED <<watched, now, published, step, running, event, file, tlog, outcome,
                   crashes>>

\* The release key signs a manifest, for this image or another one; its clock
\* may run a second ahead.
Release(m) ==
    /\ Cardinality(published) < MaxReleases
    /\ m.issued_at \in now..(now + 1)
    /\ published' = published \cup {m}
    /\ UNCHANGED <<watched, now, tag, pushes, step, running, event, file, tlog,
                   outcome, crashes>>

-----------------------------------------------------------------------------
(* tick_once.                                                              *)

\* interval.tick(): the first one fires at once, a late one delays the next;
\* how far apart they are makes no difference to what a tick does.
TickBegins ==
    /\ step = "waiting"
    /\ step' = "querying"
    /\ UNCHANGED <<worldVars, running, event, file, tlog, outcome, crashes>>

\* The loop after an outcome: it logs and waits for the next tick.
AfterTick == "waiting"

\* The error of a tick leaves run_forever.
FailsEndLoop ==
    /\ outcome' = [kind |-> "error"]
    /\ step' = "ended"
    /\ running' = NoDigest
    /\ event' = NoEvent

Fails ==
    /\ outcome' = [kind |-> "error"]
    /\ step' = AfterTick
    /\ running' = NoDigest
    /\ event' = NoEvent

FetchRunningDigest ==
    /\ step = "querying"
    /\ running' = tag
    /\ step' = "fetching"
    /\ UNCHANGED <<worldVars, event, file, tlog, outcome, crashes>>

FetchRunningDigestFails ==
    /\ step = "querying"
    /\ Fails
    /\ UNCHANGED <<worldVars, file, tlog, crashes>>

\* The query has no timeout: a connection that goes silent holds the loop.
QueryHangs ==
    /\ step = "querying"
    /\ step' = "hung"
    /\ UNCHANGED <<worldVars, running, event, file, tlog, outcome, crashes>>

\* The Ed25519 signature covers every field: what verifies is what the release
\* key signed.
VerifyManifest(m) == m \in published

\* Freshness off by one second.
FreshTooLong(m) == ~(now >= m.issued_at /\ now - m.issued_at > MaxAge + 1)

\* A manifest from the future passes.
CheckFreshness(m) == ~(now >= m.issued_at /\ now - m.issued_at > MaxAge)

\* The text before the first colon.  Of a reference with a port that is the
\* registry alone; of one with a digest, repo@sha256.
StripTag(image) ==
    IF image.port THEN <<image.registry, "", FALSE>>
                  ELSE <<image.registry, image.repo, image.pinned>>

CheckImage(m) == StripTag(m.image) = StripTag(watched)

\* The manifest server answers with m, which may be an old release, that of
\* another image, or nothing the release key has signed.
ManifestArrives(m) ==
    /\ step = "fetching"
    /\ \/ /\ ~VerifyManifest(m) \/ ~CheckFreshness(m) \/ ~CheckImage(m)
          /\ Fails
       \/ /\ VerifyManifest(m) /\ CheckFreshness(m) /\ CheckImage(m)
          /\ running = m.digest
          /\ outcome' = [kind |-> "match", digest |-> running, at |-> now]
          /\ step' = AfterTick
          /\ running' = NoDigest
          /\ UNCHANGED event
       \/ /\ VerifyManifest(m) /\ CheckFreshness(m) /\ CheckImage(m)
          /\ running # m.digest
          /\ event' = [running |-> running, expected |-> m.digest,
                       judged |-> now, at |-> now]
          /\ step' = "detected"
          /\ UNCHANGED <<running, outcome>>
    /\ UNCHANGED <<worldVars, file, tlog, crashes>>

\* The GET fails, times out, or its body does not parse.
FetchManifestFails ==
    /\ step = "fetching"
    /\ Fails
    /\ UNCHANGED <<worldVars, file, tlog, crashes>>

\* detected_at is a second reading of the clock, later than the one the
\* manifest was judged by.
StampDrift ==
    /\ step = "detected"
    /\ event' = [event EXCEPT !.at = now]
    /\ step' = "auditing"
    /\ UNCHANGED <<worldVars, running, file, tlog, outcome, crashes>>

\* The local append is best effort.
AuditAppend(ok) ==
    /\ step = "auditing"
    /\ file' = IF ok THEN file \cup {event} ELSE file
    /\ step' = "posting"
    /\ UNCHANGED <<worldVars, running, event, tlog, outcome, crashes>>

\* What post_drift_event sends: the event as JSON and no API key.
DriftFields == {"running_digest", "expected_digest", "detected_at_epoch_seconds",
                "image_repository", "manifest_version"}

\* The endpoint it is sent to, /v1/append: the fields of AppendRequest, all
\* required and no other allowed.
AppendFields == {"token_b64", "kernel_key_fingerprint_sha256",
                 "idempotency_key_hex", "occurred_at_epoch_seconds"}

AppendAccepts(fields) == fields = AppendFields

\* The POST is best effort too.
PostDriftEvent ==
    /\ step = "posting"
    /\ tlog' = IF AppendAccepts(DriftFields) THEN tlog \cup {event} ELSE tlog
    /\ outcome' = [kind |-> "drift"]
    /\ step' = AfterTick
    /\ running' = NoDigest
    /\ event' = NoEvent
    /\ UNCHANGED <<worldVars, file, crashes>>

\* SIGTERM or a crash, and the restart: only the file and the log stay.
Restart ==
    /\ crashes < MaxCrashes
    /\ crashes' = crashes + 1
    /\ step' = "waiting"
    /\ running' = NoDigest
    /\ event' = NoEvent
    /\ outcome' = [kind |-> "none"]
    /\ UNCHANGED <<worldVars, file, tlog>>

-----------------------------------------------------------------------------
Next ==
    \/ ClockTicks
    \/ \E d \in Digests : Push(d)
    \/ \E m \in Manifest : Release(m)
    \/ TickBegins
    \/ FetchRunningDigest \/ FetchRunningDigestFails \/ QueryHangs
    \/ \E m \in Manifest : ManifestArrives(m)
    \/ FetchManifestFails
    \/ StampDrift
    \/ \E ok \in BOOLEAN : AuditAppend(ok)
    \/ PostDriftEvent
    \/ Restart

Acceptable(m) == VerifyManifest(m) /\ CheckFreshness(m) /\ CheckImage(m)

\* The loop and every await with a timeout go on by themselves; the registry
\* query (unless it hangs), the manifest server and the local file fail, but not
\* for ever.
Fairness ==
    /\ WF_vars(ClockTicks)
    /\ WF_vars(TickBegins)
    /\ SF_vars(FetchRunningDigest)
    /\ SF_vars(\E m \in Manifest : Acceptable(m) /\ ManifestArrives(m))
    /\ WF_vars(StampDrift)
    /\ SF_vars(AuditAppend(TRUE))
    /\ WF_vars(PostDriftEvent)

Spec == Init /\ [][Next]_vars
FairSpec == Spec /\ Fairness

-----------------------------------------------------------------------------
(* Properties.                                                             *)

TypeOK ==
    /\ watched \in Configured
    /\ now \in Times
    /\ tag \in Digests /\ pushes \in 0..MaxPushes
    /\ published \subseteq Manifest
    /\ step \in Steps
    /\ running \in Digests \cup {NoDigest}
    /\ event \in DriftAuditEvent \cup {NoEvent}
    /\ file \subseteq DriftAuditEvent /\ tlog \subseteq DriftAuditEvent
    /\ outcome.kind \in Outcomes
    /\ crashes \in 0..MaxCrashes

\* The image is in the watched repository; or one of the two references has a
\* port, and check_image has compared no more than the registries.
InRepository(image) ==
    /\ image.registry = watched.registry
    /\ image.repo = watched.repo \/ image.port \/ watched.port

\* Signed by the release key for the repository the reconciler watches, and
\* not older than the limit at the given instant.
Vouched(digest, at) ==
    \E m \in published : /\ m.digest = digest
                         /\ InRepository(m.image)
                         /\ at <= m.issued_at + MaxAge

\* DecisionIsGrounded: whatever the manifest server has answered, and whatever
\* was pushed, released or restarted during the tick, a drift event in the
\* file or in the log, and a tick that found a match, rest on a manifest that
\* the release key signed for the watched repository (for any image of its
\* registry, where a port hides the repository from strip_tag) and that was
\* still fresh when check_freshness read the clock; the event's own
\* detected_at may be later.
DecisionIsGrounded ==
    /\ \A e \in file \cup tlog : /\ Vouched(e.expected, e.judged)
                                 /\ e.judged <= e.at
                                 /\ e.running # e.expected
    /\ outcome.kind = "match" => Vouched(outcome.digest, outcome.at)

\* DriftReported: once the tag stays on a digest that no usable manifest names,
\* a drift event for it reaches the local audit file, in spite of failed
\* queries, fetches and appends, manifests that are refused, refused POSTs and
\* restarts: no error ends the polling loop.  The exception is a registry query
\* that never returns.
Drifted(d) ==
    /\ tag = d
    /\ \E m \in published : Acceptable(m)
    /\ \A m \in published : Acceptable(m) => m.digest # d

DriftReported ==
    \A d \in Digests : <>[]Drifted(d) => \/ <>(\E e \in file : e.running = d)
                                         \/ <>[](step = "hung")
=============================================================================
