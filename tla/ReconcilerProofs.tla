-------------------------- MODULE ReconcilerProofs --------------------------
(***************************************************************************)
(* Every decision of the reconciler is grounded, for all references (with  *)
(* a registry port or without), digests, ages and bounds.  The invariant   *)
(* is made inductive by what a tick holds between its awaits: the digest   *)
(* it has read, and the event it has built but not yet written anywhere.   *)
(***************************************************************************)
EXTENDS Reconciler, TLAPS

\* While it is on its way to the file and the log, the event of the tick is
\* already as good as the ones that are there.
PendingIsGrounded ==
    step \in {"detected", "auditing", "posting"} =>
        /\ event \in DriftAuditEvent
        /\ Vouched(event.expected, event.judged)
        /\ event.judged <= event.at /\ event.judged <= now
        /\ event.running # event.expected

ReadIsADigest == step = "fetching" => running \in Digests

IInv == TypeOK /\ DecisionIsGrounded /\ PendingIsGrounded /\ ReadIsADigest

-----------------------------------------------------------------------------
\* A manifest that passes verify_manifest, check_freshness and check_image
\* vouches for its digest now.
LEMMA AcceptedVouches ==
    ASSUME TypeOK, NEW m \in Manifest,
           VerifyManifest(m), CheckFreshness(m), CheckImage(m)
    PROVE  Vouched(m.digest, now)
<1>1. m \in published
  BY DEF VerifyManifest
<1>2. now \in Int /\ m.issued_at \in Int /\ MaxAge \in Nat
  BY ReconcilerAssumption DEF TypeOK, Times, Manifest
<1>3. now <= m.issued_at + MaxAge
  BY <1>2 DEF CheckFreshness
<1>4. InRepository(m.image)
  BY DEF CheckImage, StripTag, InRepository
<1> QED
  BY <1>1, <1>3, <1>4 DEF Vouched

\* What was vouched for stays so: releases are never withdrawn.
LEMMA VouchedStays ==
    ASSUME published \subseteq published', watched' = watched,
           NEW d, NEW t, Vouched(d, t)
    PROVE  Vouched(d, t)'
BY DEF Vouched, InRepository

-----------------------------------------------------------------------------
LEMMA InitIInv == Init => IInv
<1> SUFFICES ASSUME Init PROVE IInv
  OBVIOUS
<1>0. 0 \in 0..MaxTime /\ 0 \in 0..MaxPushes /\ 0 \in 0..MaxCrashes
  BY ReconcilerAssumption
<1>1. (CHOOSE d \in Digests : TRUE) \in Digests
  BY ReconcilerAssumption
<1>2. TypeOK
  BY <1>0, <1>1 DEF Init, TypeOK, Times, Steps, Outcomes
<1>3. DecisionIsGrounded
  BY DEF Init, DecisionIsGrounded
<1> QED
  BY <1>2, <1>3 DEF Init, IInv, PendingIsGrounded, ReadIsADigest

\* Steps of the world, and steps of the tick that decide nothing.
LEMMA QuietStep ==
    ASSUME IInv, TypeOK', published \subseteq published', now <= now',
           UNCHANGED <<watched, file, tlog>>,
           outcome' = outcome \/ outcome'.kind # "match",
           (step' = step /\ event' = event /\ running' = running)
             \/ step' \in {"waiting", "querying", "hung"}
             \/ (step' = "fetching" /\ running' \in Digests)
    PROVE  IInv'
<1>1. DecisionIsGrounded'
  BY VouchedStays DEF IInv, DecisionIsGrounded
<1>2. PendingIsGrounded'
  <2> SUFFICES ASSUME step' \in {"detected", "auditing", "posting"}
               PROVE  (/\ event \in DriftAuditEvent
                       /\ Vouched(event.expected, event.judged)
                       /\ event.judged <= event.at /\ event.judged <= now
                       /\ event.running # event.expected)'
    BY DEF PendingIsGrounded
  <2>1. step \in {"detected", "auditing", "posting"} /\ event' = event
    OBVIOUS
  <2>2. /\ event \in DriftAuditEvent
        /\ Vouched(event.expected, event.judged)
        /\ event.judged <= event.at /\ event.judged <= now
        /\ event.running # event.expected
    BY <2>1 DEF IInv, PendingIsGrounded
  <2>3. event.judged \in Int /\ now \in Int /\ now' \in Int
    BY <2>2 DEF IInv, TypeOK, Times, DriftAuditEvent
  <2>4. event.judged <= now'
    BY <2>2, <2>3
  <2> QED
    BY <2>1, <2>2, <2>4, VouchedStays
<1>3. ReadIsADigest'
  BY DEF IInv, ReadIsADigest
<1> QED
  BY <1>1, <1>2, <1>3 DEF IInv

LEMMA NextIInv == IInv /\ [Next]_vars => IInv'
<1> SUFFICES ASSUME IInv, [Next]_vars PROVE IInv'
  OBVIOUS
<1> USE DEF worldVars
<1>t. TypeOK
  BY DEF IInv
<1>n. now \in Int /\ now <= now
  BY <1>t DEF TypeOK, Times
<1>b. {MaxTime, MaxReleases, MaxPushes, MaxCrashes} \subseteq Nat
  BY ReconcilerAssumption
<1>1. CASE ClockTicks
  <2>1. TypeOK'
    BY <1>1, <1>t, <1>b DEF ClockTicks, TypeOK, Times
  <2>2. now <= now'
    BY <1>1, <1>n DEF ClockTicks
  <2> QED
    BY <1>1, <2>1, <2>2, QuietStep DEF ClockTicks
<1>2. ASSUME NEW d \in Digests, Push(d) PROVE IInv'
  <2>1. TypeOK'
    BY <1>2, <1>t, <1>b DEF Push, TypeOK
  <2> QED
    BY <1>2, <2>1, <1>n, QuietStep DEF Push
<1>3. ASSUME NEW m \in Manifest, Release(m) PROVE IInv'
  <2>1. TypeOK'
    BY <1>3, <1>t DEF Release, TypeOK
  <2> QED
    BY <1>3, <2>1, <1>n, QuietStep DEF Release
<1>4. CASE TickBegins
  <2>1. TypeOK'
    BY <1>4, <1>t DEF TickBegins, TypeOK, Steps
  <2> QED
    BY <1>4, <2>1, <1>n, QuietStep DEF TickBegins
<1>5. CASE FetchRunningDigest
  <2>1. TypeOK' /\ running' \in Digests
    BY <1>5, <1>t DEF FetchRunningDigest, TypeOK, Steps
  <2> QED
    BY <1>5, <2>1, <1>n, QuietStep DEF FetchRunningDigest
<1>h. CASE QueryHangs
  <2>1. TypeOK'
    BY <1>h, <1>t DEF QueryHangs, TypeOK, Steps
  <2> QED
    BY <1>h, <2>1, <1>n, QuietStep DEF QueryHangs
<1>6. CASE FetchRunningDigestFails \/ FetchManifestFails
  <2>1. TypeOK'
    BY <1>6, <1>t DEF FetchRunningDigestFails, FetchManifestFails, Fails, AfterTick,
       TypeOK, Steps, Outcomes
  <2>2. outcome'.kind # "match" /\ step' = "waiting"
    BY <1>6 DEF FetchRunningDigestFails, FetchManifestFails, Fails, AfterTick
  <2> QED
    BY <1>6, <2>1, <2>2, <1>n, QuietStep DEF FetchRunningDigestFails, FetchManifestFails
<1>7. ASSUME NEW m \in Manifest, ManifestArrives(m) PROVE IInv'
  <2> DEFINE passes == VerifyManifest(m) /\ CheckFreshness(m) /\ CheckImage(m)
  <2>0. /\ UNCHANGED <<worldVars, file, tlog, crashes>>
        /\ running \in Digests
        /\ m.digest \in Digests
    BY <1>7 DEF ManifestArrives, IInv, ReadIsADigest, Manifest
  <2>1. CASE Fails
    <3>1. TypeOK'
      BY <2>1, <2>0, <1>t DEF Fails, AfterTick, TypeOK, Steps, Outcomes
    <3>2. outcome'.kind # "match" /\ step' = "waiting"
      BY <2>1 DEF Fails, AfterTick
    <3> QED
      BY <2>0, <3>1, <3>2, <1>n, QuietStep
  <2>2. CASE /\ passes
             /\ running = m.digest
             /\ outcome' = [kind |-> "match", digest |-> running, at |-> now]
             /\ step' = AfterTick
             /\ running' = NoDigest
             /\ UNCHANGED event
    <3>1. TypeOK'
      BY <2>2, <2>0, <1>t DEF AfterTick, TypeOK, Steps, Outcomes
    <3>2. Vouched(m.digest, now)'
      BY <2>2, <2>0, <1>t, AcceptedVouches, VouchedStays
    <3>3. DecisionIsGrounded'
      <4>1. outcome'.digest = m.digest /\ outcome'.at = now /\ now' = now
        BY <2>2, <2>0
      <4>2. \A e \in file \cup tlog : Vouched(e.expected, e.judged)'
        BY <2>0, VouchedStays DEF IInv, DecisionIsGrounded
      <4> QED
        BY <4>1, <4>2, <3>2, <2>0 DEF IInv, DecisionIsGrounded, Vouched, InRepository
    <3> QED
      BY <2>2, <3>1, <3>3 DEF IInv, PendingIsGrounded, ReadIsADigest, AfterTick
  <2>3. CASE /\ passes
             /\ running # m.digest
             /\ event' = [running |-> running, expected |-> m.digest,
                          judged |-> now, at |-> now]
             /\ step' = "detected"
             /\ UNCHANGED <<running, outcome>>
    <3>1. event' \in DriftAuditEvent
      BY <2>3, <2>0, <1>t DEF DriftAuditEvent, TypeOK
    <3>2. TypeOK'
      BY <2>3, <2>0, <3>1, <1>t DEF TypeOK, Steps
    <3>3. Vouched(m.digest, now)'
      BY <2>3, <2>0, <1>t, AcceptedVouches, VouchedStays
    <3>4. PendingIsGrounded'
      <4>1. /\ event'.expected = m.digest /\ event'.running = running
            /\ event'.judged = now /\ event'.at = now /\ now' = now
        BY <2>3, <2>0
      <4>2. Vouched(event.expected, event.judged)'
        BY <4>1, <3>3 DEF Vouched
      <4> QED
        BY <4>1, <4>2, <2>3, <3>1, <1>n DEF PendingIsGrounded
    <3>5. DecisionIsGrounded'
      BY <2>3, <2>0, VouchedStays DEF IInv, DecisionIsGrounded
    <3> QED
      BY <2>3, <3>2, <3>4, <3>5 DEF IInv, ReadIsADigest
  <2> QED
    BY <1>7, <2>1, <2>2, <2>3 DEF ManifestArrives
<1>s. CASE StampDrift
  <2>0. /\ event \in DriftAuditEvent
        /\ Vouched(event.expected, event.judged)
        /\ event.judged <= now
        /\ event.running # event.expected
    BY <1>s DEF StampDrift, IInv, PendingIsGrounded
  <2>1. /\ event'.expected = event.expected /\ event'.running = event.running
        /\ event'.judged = event.judged /\ event'.at = now /\ now' = now
        /\ event' \in DriftAuditEvent
    BY <1>s, <2>0, <1>t DEF StampDrift, DriftAuditEvent, TypeOK
  <2>2. TypeOK'
    BY <1>s, <1>t, <2>1 DEF StampDrift, TypeOK, Steps
  <2>3. Vouched(event.expected, event.judged)'
    BY <1>s, <2>0, <2>1, VouchedStays DEF StampDrift
  <2>4. DecisionIsGrounded'
    BY <1>s, VouchedStays DEF StampDrift, IInv, DecisionIsGrounded
  <2> QED
    BY <1>s, <2>0, <2>1, <2>2, <2>3, <2>4
       DEF StampDrift, IInv, PendingIsGrounded, ReadIsADigest
<1>8. ASSUME NEW ok \in BOOLEAN, AuditAppend(ok) PROVE IInv'
  <2>0. /\ event \in DriftAuditEvent /\ event' = event
        /\ Vouched(event.expected, event.judged)
        /\ event.judged <= event.at /\ event.judged <= now
        /\ event.running # event.expected
    BY <1>8 DEF AuditAppend, IInv, PendingIsGrounded
  <2>1. file' \subseteq file \cup {event}
    BY <1>8 DEF AuditAppend
  <2>2. TypeOK'
    BY <1>8, <1>t, <2>0, <2>1 DEF AuditAppend, TypeOK, Steps
  <2>3. DecisionIsGrounded'
    BY <1>8, <2>0, <2>1, VouchedStays DEF AuditAppend, IInv, DecisionIsGrounded
  <2> QED
    BY <1>8, <2>0, <2>2, <2>3, VouchedStays
       DEF AuditAppend, IInv, PendingIsGrounded, ReadIsADigest
<1>9. CASE PostDriftEvent
  <2>0. /\ event \in DriftAuditEvent
        /\ Vouched(event.expected, event.judged)
        /\ event.judged <= event.at
        /\ event.running # event.expected
    BY <1>9 DEF PostDriftEvent, IInv, PendingIsGrounded
  <2>1. tlog' \subseteq tlog \cup {event}
    BY <1>9 DEF PostDriftEvent
  <2>2. TypeOK' /\ outcome'.kind # "match" /\ step' = "waiting"
    BY <1>9, <1>t, <2>0, <2>1 DEF PostDriftEvent, AfterTick, TypeOK, Steps, Outcomes
  <2>3. DecisionIsGrounded'
    BY <1>9, <2>0, <2>1, <2>2, VouchedStays DEF PostDriftEvent, IInv, DecisionIsGrounded
  <2> QED
    BY <2>2, <2>3 DEF IInv, PendingIsGrounded, ReadIsADigest
<1>10. CASE Restart
  <2>1. TypeOK' /\ outcome'.kind # "match"
    BY <1>10, <1>t, <1>b DEF Restart, TypeOK, Steps, Outcomes
  <2> QED
    BY <1>10, <2>1, <1>n, QuietStep DEF Restart
<1>11. CASE UNCHANGED vars
  <2>1. TypeOK'
    BY <1>11, <1>t DEF vars, TypeOK
  <2> QED
    BY <1>11, <2>1, <1>n, QuietStep DEF vars
<1> QED
  BY <1>1, <1>2, <1>3, <1>4, <1>5, <1>h, <1>6, <1>7, <1>s, <1>8, <1>9, <1>10, <1>11 DEF Next

-----------------------------------------------------------------------------
\* The types are right and every drift event and every match is grounded in
\* every reachable state, whatever the manifest server answers and whenever
\* the process is restarted.
THEOREM ReconcilerIsGrounded == Spec => [](TypeOK /\ DecisionIsGrounded)
<1>1. IInv => TypeOK /\ DecisionIsGrounded
  BY DEF IInv
<1> QED
  BY <1>1, InitIInv, NextIInv, PTL DEF Spec
=============================================================================
