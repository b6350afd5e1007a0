--------------------------- MODULE CircuitBreaker ---------------------------
(***************************************************************************)
(* The fail-closed circuit breaker of the kernel client SDK                *)
(* (crates/adapters/safety_kernel_client: circuit_breaker.rs, client.rs,   *)
(* and the pure gate in crates/domain/src/safety/client_state.rs).         *)
(*                                                                         *)
(* Concurrent callers share one breaker behind a mutex.  A call passes the *)
(* gate, travels without the lock, and reports its outcome, if it reports  *)
(* one, to whatever state the breaker is in by then.  Time is kept as the  *)
(* age of each call and of the last opening.                               *)
(***************************************************************************)
EXTENDS Naturals

CONSTANTS
    Caller,       \* concurrent callers of one client
    Threshold,    \* failure_threshold
    Cooldown,     \* cooldown_seconds, in ticks
    CallTimeout,  \* the five seconds every request is given, in ticks
    CountMax      \* where the failure counter saturates (u32::MAX)

\* The code checks none of this; the defaults are 3, 30 s and 5 s.
ASSUME BreakerAssumption ==
    /\ Threshold \in Nat \ {0}
    /\ Cooldown \in Nat
    /\ CallTimeout \in Nat
    /\ CountMax \in Nat
    /\ Threshold <= CountMax
    /\ CallTimeout < Cooldown

VARIABLES
    current,             \* Closed, Open or HalfOpen
    consecutiveFailures,
    opened,              \* ticks since opened_at, up to Cooldown; None counts as 0
    probeInFlight,
    call                 \* what each caller has in flight

breakerVars == <<current, consecutiveFailures, opened, probeInFlight, call>>

CircuitState == {"Closed", "Open", "HalfOpen"}

Endpoint == {"authorize", "revoke"}

Idle == [endpoint |-> "none", probe |-> FALSE, age |-> 0]

Calls == [endpoint : Endpoint \cup {"none"}, probe : BOOLEAN, age : 0..CallTimeout]

InFlight(c) == call[c].endpoint # "none"

BreakerTypeOK ==
    /\ current \in CircuitState
    /\ consecutiveFailures \in 0..CountMax
    /\ opened \in 0..Cooldown
    /\ probeInFlight \in BOOLEAN
    /\ call \in [Caller -> Calls]

BreakerInit ==
    /\ current = "Closed"
    /\ consecutiveFailures = 0
    /\ opened = 0
    /\ probeInFlight = FALSE
    /\ call = [c \in Caller |-> Idle]

-----------------------------------------------------------------------------
(***************************************************************************)
(* before_call.                                                            *)
(***************************************************************************)

CooldownElapsed == opened >= Cooldown

\* Mutant: HalfOpen admits every caller.
GateDecisionUngated ==
    CASE current \in {"Closed", "HalfOpen"}         -> "Permit"
      [] current = "Open" /\ CooldownElapsed       -> "PermitProbeAfterCooldown"
      [] OTHER                                     -> "RefuseUnavailable"

\* gate_decision; a refused call changes nothing.
GateDecision ==
    CASE current = "Closed"                        -> "Permit"
      [] current = "HalfOpen" /\ ~probeInFlight    -> "Permit"
      [] current = "Open" /\ CooldownElapsed       -> "PermitProbeAfterCooldown"
      [] OTHER                                     -> "RefuseUnavailable"

Sent(c, endpoint, probe) ==
    call' = [call EXCEPT ![c] = [endpoint |-> endpoint, probe |-> probe, age |-> 0]]

PermitCall(c, endpoint) ==
    /\ ~InFlight(c)
    /\ GateDecision = "Permit"
    /\ probeInFlight' = (current = "HalfOpen" \/ probeInFlight)
    /\ Sent(c, endpoint, current = "HalfOpen")
    /\ UNCHANGED <<current, consecutiveFailures, opened>>

PermitProbe(c, endpoint) ==
    /\ ~InFlight(c)
    /\ GateDecision = "PermitProbeAfterCooldown"
    /\ current' = "HalfOpen"
    /\ probeInFlight' = TRUE
    /\ Sent(c, endpoint, TRUE)
    /\ UNCHANGED <<consecutiveFailures, opened>>

-----------------------------------------------------------------------------
(***************************************************************************)
(* The outcomes of a call.                                                 *)
(***************************************************************************)

Ended(c) == InFlight(c) /\ call' = [call EXCEPT ![c] = Idle]

\* Mutant: keeps the failure count.
RecordSuccessCounting ==
    /\ probeInFlight' = FALSE
    /\ current' = "Closed"
    /\ opened' = 0
    /\ UNCHANGED consecutiveFailures

\* Mutant: resets the bookkeeping and leaves the state alone.
RecordSuccessStuck ==
    /\ consecutiveFailures' = 0
    /\ probeInFlight' = FALSE
    /\ opened' = 0
    /\ UNCHANGED current

\* record_success: any state closes.
RecordSuccess ==
    /\ consecutiveFailures' = 0
    /\ probeInFlight' = FALSE
    /\ current' = "Closed"
    /\ opened' = 0

Saturating(n) == IF n = CountMax THEN n ELSE n + 1

ShouldOpen ==
    \/ current = "Closed" /\ Saturating(consecutiveFailures) >= Threshold
    \/ current = "HalfOpen"

\* record_failure: an open breaker stays as it was opened.
RecordFailure ==
    /\ consecutiveFailures' = Saturating(consecutiveFailures)
    /\ probeInFlight' = FALSE
    /\ IF ShouldOpen THEN current' = "Open" /\ opened' = 0
                     ELSE UNCHANGED <<current, opened>>

\* authorize: 403, or a token that verifies.  The revoke calls: any answer
\* that is not a 5xx.
Success(c) == Ended(c) /\ RecordSuccess

\* A transport error, the timeout or a 5xx; for authorize, a body that does
\* not decode.
Failure(c) == Ended(c) /\ RecordFailure

\* authorize alone: a 4xx other than 403, or a token that does not verify.
Unrecorded(c) ==
    /\ Ended(c)
    /\ call[c].endpoint = "authorize"
    /\ UNCHANGED <<current, consecutiveFailures, opened, probeInFlight>>

\* The future is dropped by its caller.
Cancelled(c) ==
    /\ Ended(c)
    /\ UNCHANGED <<current, consecutiveFailures, opened, probeInFlight>>

\* A call ends before it is older than its timeout.
BreakerTick ==
    /\ \A c \in Caller : InFlight(c) => call[c].age < CallTimeout
    /\ opened' = IF current = "Open" /\ opened < Cooldown THEN opened + 1 ELSE opened
    /\ call' = [c \in Caller |-> IF InFlight(c) THEN [call[c] EXCEPT !.age = @ + 1] ELSE call[c]]
    /\ UNCHANGED <<current, consecutiveFailures, probeInFlight>>

-----------------------------------------------------------------------------
Admit(c) == \E endpoint \in Endpoint : PermitCall(c, endpoint) \/ PermitProbe(c, endpoint)

BreakerNext ==
    \/ \E c \in Caller : Admit(c) \/ Success(c) \/ Failure(c) \/ Unrecorded(c) \/ Cancelled(c)
    \/ BreakerTick

BreakerSpec == BreakerInit /\ [][BreakerNext]_breakerVars

\* Callers keep calling, every call ends by its timeout, time passes.
FairSpec ==
    /\ BreakerSpec
    /\ WF_breakerVars(BreakerTick)
    /\ \A c \in Caller :
          /\ WF_breakerVars(Admit(c))
          /\ WF_breakerVars(Success(c) \/ Failure(c) \/ Unrecorded(c))

-----------------------------------------------------------------------------
(***************************************************************************)
(* Properties.                                                             *)
(***************************************************************************)

Probes == {c \in Caller : InFlight(c) /\ call[c].probe}

\* "Exactly ONE probe in flight" (circuit_breaker.rs): although a late
\* outcome of an older call can release the probe gate early, no second
\* probe is admitted while the first is still travelling.
SingleProbe == \A c, d \in Probes : c = d

\* The counter and the state agree whatever order outcomes arrive in: the
\* breaker is closed exactly while fewer than Threshold failures have been
\* recorded since the last success, and the gate is held exactly in HalfOpen.
StateMatchesCounter ==
    /\ current = "Closed" <=> consecutiveFailures < Threshold
    /\ probeInFlight <=> current = "HalfOpen"

\* A probe ended without an outcome: nobody is left to release its gate.
Stranded == current = "HalfOpen" /\ Probes = {}

\* Once failures stop the breaker ends up closed; a probe that ends without
\* reporting to the breaker is the only thing that can keep it from that.
BreakerRecovers ==
    \/ \E c \in Caller : []<><<Failure(c)>>_breakerVars
    \/ <>[](current = "Closed")
    \/ <>[]Stranded

-----------------------------------------------------------------------------
(***************************************************************************)
(* The inductive invariant behind SingleProbe: a probe that outlives its   *)
(* HalfOpen state is older than the opening that ended it, so it is gone   *)
(* before the next cooldown is over.                                       *)
(***************************************************************************)
ProbeAge == current = "Open" => \A c \in Probes : opened <= call[c].age

BreakerInv ==
    /\ BreakerTypeOK
    /\ StateMatchesCounter
    /\ ProbeAge
    /\ SingleProbe
=============================================================================
