----------------------------- MODULE Authorize -----------------------------
(***************************************************************************)
(* A request on its way through the enforcement point: the application     *)
(* middleware (crates/adapters/safety_kernel_middleware), the client SDK,  *)
(* POST /kernel/v1/authorize (crates/services/safety-kernel/src/routes/    *)
(* authorize.rs), the policy sidecar behind its socket, the transparency   *)
(* log and the audit chain.                                                *)
(*                                                                         *)
(* seam[r] is where the middleware stands, kern[r] where the kernel's      *)
(* handler stands; the client may give up on a handler that goes on.  The  *)
(* sidecar is external: it decides as it likes, late, or not at all, and   *)
(* may answer with the decision of another request.  A token is the        *)
(* request it was minted for and the times it binds; the nonce makes the   *)
(* tokens of two requests different.  Everybody reads the same clock.      *)
(***************************************************************************)
EXTENDS KernelSettings, Integers

CONSTANTS
    Request,     \* requests, each sent once
    Action,      \* "METHOD:/path"
    ApiAllowed,  \* the actions API_ALLOWED_PREFIXES admits
    DefaultTTL,  \* settings.default_token_ttl_s
    MaxTTL,      \* settings.max_token_ttl_s
    TTLLimit,    \* 3600
    Leeway,      \* leeway_seconds of the pinned verifier
    Forms,       \* the requests that are sent
    MaxTime      \* bound on the clock

Role == {"worker", "api", "operator", "reaper"}

\* Unrestricted routes make no kernel call.
Tier == {"gated", "supervised"}

\* body.params against body.params_fingerprint; the SDK sends no params.
Params == {"absent", "matching", "mismatched"}

\* 0 stands for an absent ttl_s, n + 1 for ttl_s = n.
TTLField == 0..(TTLLimit + 2)

Form == [tier : Tier, role : Role, action : Action, params : Params, ttl : TTLField]

ASSUME AuthorizeAssumption ==
    /\ ApiAllowed \subseteq Action
    /\ Forms \subseteq Form
    /\ DefaultTTL \in Nat
    /\ MaxTTL \in Nat \ {0}
    /\ TTLLimit \in Nat \ {0}
    /\ Leeway \in Nat
    /\ MaxTime \in Nat

VARIABLES
    client,     \* the kernel has a client for the transparency log
    clock,      \* wall clock, in ticks
    form,       \* what each request asks for
    seam,       \* the middleware's side of each request
    kern,       \* the kernel handler's side of each request
    claims,     \* now and ttl as captured, then the signed times
    answers,    \* decisions the sidecar has made
    tlog,       \* requests whose token is in the transparency log
    audit,      \* audit records that were appended
    performed   \* history: when a request reached the protected handler

vars == <<client, clock, form, seam, kern, claims, answers, tlog, audit, performed>>

Seam == {"idle", "waiting", "performed", "refused"}

Kern == {"none", "policy", "append", "allowing", "denying",
         "allowed", "denied", "invalid", "crashed"}

TypeOK ==
    /\ client \in BOOLEAN
    /\ clock \in 0..MaxTime
    /\ form \in [Request -> Form \cup {<<>>}]
    /\ seam \in [Request -> Seam]
    /\ kern \in [Request -> Kern]
    /\ claims \in [Request -> [iat : Nat, ttl : Nat, exp : Nat]]
    /\ answers \subseteq [id : Request, allowed : BOOLEAN, at : Nat]
    /\ tlog \subseteq Request
    /\ audit \subseteq Request \X {"allow", "deny"}
    /\ performed \subseteq Request \X Nat

\* The kernel was started in an environment it accepts.
Init ==
    /\ client \in {HasClient(e) : e \in Booted}
    /\ clock = 0
    /\ form = [r \in Request |-> <<>>]
    /\ seam = [r \in Request |-> "idle"]
    /\ kern = [r \in Request |-> "none"]
    /\ claims = [r \in Request |-> [iat |-> 0, ttl |-> 0, exp |-> 0]]
    /\ answers = {}
    /\ tlog = {}
    /\ audit = {}
    /\ performed = {}

Goto(r, stage) == kern' = [kern EXCEPT ![r] = stage]

-----------------------------------------------------------------------------
(***************************************************************************)
(* The middleware sends a request.                                         *)
(***************************************************************************)

\* Gated: the claims are extracted and the call is awaited.
SendGated(r, f) ==
    /\ seam[r] = "idle"
    /\ f.tier = "gated"
    /\ form' = [form EXCEPT ![r] = f]
    /\ seam' = [seam EXCEPT ![r] = "waiting"]
    /\ UNCHANGED <<client, clock, kern, claims, answers, tlog, audit, performed>>

\* Supervised: the call is spawned and the request forwarded at once.
SendSupervised(r, f) ==
    /\ seam[r] = "idle"
    /\ f.tier = "supervised"
    /\ form' = [form EXCEPT ![r] = f]
    /\ seam' = [seam EXCEPT ![r] = "performed"]
    /\ performed' = performed \cup {<<r, clock>>}
    /\ UNCHANGED <<client, clock, kern, claims, answers, tlog, audit>>

-----------------------------------------------------------------------------
(***************************************************************************)
(* authorize.                                                              *)
(***************************************************************************)

Arrived(r) == form[r] # <<>> /\ kern[r] = "none"

\* Steps 1 to 3: role, allowlist, fingerprint; 403 without any record.
Forbidden(f) ==
    \/ f.role \notin {"worker", "api"}
    \/ f.role = "api" /\ f.action \notin ApiAllowed
    \/ f.params = "mismatched"

\* Step 3.5: ttl_s outside 1..=3600 is a 422.
OutOfRange(f) == f.ttl # 0 /\ f.ttl - 1 \notin 1..TTLLimit

MaxOf(a, b) == IF a < b THEN b ELSE a

MinOf(a, b) == IF a < b THEN a ELSE b

\* Step 4: the ttl that is issued.
IssuedTTL(f) ==
    LET requested == IF f.ttl = 0 THEN DefaultTTL ELSE f.ttl - 1
    IN  MaxOf(MinOf(MaxTTL, MaxOf(requested, 1)), 1)

ReceiveRefused(r) ==
    /\ Arrived(r)
    /\ \/ Forbidden(form[r]) /\ Goto(r, "denied")
       \/ ~Forbidden(form[r]) /\ OutOfRange(form[r]) /\ Goto(r, "invalid")
    /\ UNCHANGED <<client, clock, form, seam, claims, answers, tlog, audit, performed>>

\* Steps 4 to 6: clamp, capture now, send op=authorize to the sidecar.
Receive(r) ==
    /\ Arrived(r)
    /\ ~Forbidden(form[r])
    /\ ~OutOfRange(form[r])
    /\ Goto(r, "policy")
    /\ claims' = [claims EXCEPT ![r] = [iat |-> clock, ttl |-> IssuedTTL(form[r]), exp |-> 0]]
    /\ UNCHANGED <<client, clock, form, seam, answers, tlog, audit, performed>>

\* The sidecar decides on a request it has been sent.
Decide(r) ==
    /\ kern[r] # "none" /\ claims[r].ttl # 0
    /\ \A m \in answers : m.id # r
    /\ \E allowed \in BOOLEAN :
          answers' = answers \cup {[id |-> r, allowed |-> allowed, at |-> clock]}
    /\ UNCHANGED <<client, clock, form, seam, kern, claims, tlog, audit, performed>>

\* Mutant: takes whatever decision arrives.
AcceptedUncorrelated(r, m) == m.allowed

\* parse_authorize_response: the echoed request_id, then decision.allowed.
Accepted(r, m) == m.id = r /\ m.allowed

\* Mutant: the lifetime starts when the decision arrives.
SignedLate(r) == [claims[r] EXCEPT !.exp = clock + claims[r].ttl]

\* Step 7: expires_at counts from the captured now.
Signed(r) == [claims[r] EXCEPT !.exp = claims[r].iat + claims[r].ttl]

\* Mutant: the verdict is audited before the log has the token.
PolicyAllowsAudited(r) ==
    /\ kern[r] = "policy"
    /\ \E m \in answers : Accepted(r, m)
    /\ claims' = [claims EXCEPT ![r] = Signed(r)]
    /\ audit' = audit \cup {<<r, "allow">>}
    /\ Goto(r, IF client THEN "append" ELSE "allowing")
    /\ UNCHANGED <<client, clock, form, seam, answers, tlog, performed>>

\* Without a client the log is skipped.
PolicyAllows(r) ==
    /\ kern[r] = "policy"
    /\ \E m \in answers : Accepted(r, m)
    /\ claims' = [claims EXCEPT ![r] = Signed(r)]
    /\ Goto(r, IF client THEN "append" ELSE "allowing")
    /\ UNCHANGED <<client, clock, form, seam, answers, tlog, audit, performed>>

\* A deny, a decision that is not ours, or any IpcError: fail-closed.
PolicyDenies(r) ==
    /\ kern[r] = "policy"
    /\ Goto(r, "denying")
    /\ UNCHANGED <<client, clock, form, seam, claims, answers, tlog, audit, performed>>

\* What the client sees of its POST /v1/append: no answer in time, an error, a
\* body it cannot read, or one that names a leaf, which may be another row's.
LogAnswer ==
    [status : {"none", "rejected", "server_error", "conflict", "malformed"}]
    \cup [status : {"ok"}, leaf : Request]

\* Key and payload are the token's, so a conflict is about its row, and the
\* leaf hash of an answer is that of a row in the log.
Plausible(r, a) ==
    /\ a.status = "conflict" => r \in tlog'
    /\ a.status = "ok" => a.leaf \in tlog'

\* Mutant: the echoed leaf hash is not compared.
AppendedUnchecked(r, a) == a.status \in {"conflict", "ok"}

\* append, and what authorize makes of its result: a 409 counts as success.
Appended(r, a) == a.status = "conflict" \/ (a.status = "ok" /\ a.leaf = r)

\* Step 7.5: the append is awaited with a timeout, and may have taken effect
\* whatever is answered.
TlogAppend(r) ==
    /\ kern[r] = "append"
    /\ tlog' \in {tlog, tlog \cup {r}}
    /\ \E a \in LogAnswer :
          /\ Plausible(r, a)
          /\ Goto(r, IF Appended(r, a) THEN "allowing" ELSE "denying")
    /\ UNCHANGED <<client, clock, form, seam, claims, answers, audit, performed>>

Verdict(r) == IF kern[r] = "allowing" THEN "allow" ELSE "deny"

\* Step 8 and the deny paths' record: best-effort, then the answer is ready.
AuditAppend(r) ==
    /\ kern[r] \in {"allowing", "denying"}
    /\ audit' \in {audit, audit \cup {<<r, Verdict(r)>>}}
    /\ Goto(r, IF kern[r] = "allowing" THEN "allowed" ELSE "denied")
    /\ UNCHANGED <<client, clock, form, seam, claims, answers, tlog, performed>>

\* The process dies with its handlers; requests not yet received survive.
\* A call that was under way may or may not have taken effect.
KernelCrash ==
    /\ kern' = [r \in Request |->
                   IF kern[r] \in {"policy", "append", "allowing", "denying"}
                   THEN "crashed" ELSE kern[r]]
    /\ kern' # kern
    /\ \E landed \in SUBSET {r \in Request : kern[r] = "append"} :
          tlog' = tlog \cup landed
    /\ \E landed \in SUBSET {r \in Request : kern[r] \in {"allowing", "denying"}} :
          audit' = audit \cup {<<r, Verdict(r)>> : r \in landed}
    /\ UNCHANGED <<client, clock, form, seam, claims, answers, performed>>

-----------------------------------------------------------------------------
(***************************************************************************)
(* The client SDK receives the answer; the middleware acts on it.          *)
(***************************************************************************)

\* verify_kernel_token: now - leeway > exp is an expired token.
Unexpired(r) == clock <= claims[r].exp + Leeway

Perform(r) ==
    /\ seam[r] = "waiting"
    /\ kern[r] = "allowed"
    /\ Unexpired(r)
    /\ seam' = [seam EXCEPT ![r] = "performed"]
    /\ performed' = performed \cup {<<r, clock>>}
    /\ UNCHANGED <<client, clock, form, kern, claims, answers, tlog, audit>>

\* 403 Denied, 403 Forged for a token that does not verify, and 503 for an
\* open breaker, a transport error, a timeout or an undecodable answer.
Refuse(r) ==
    /\ seam[r] = "waiting"
    /\ seam' = [seam EXCEPT ![r] = "refused"]
    /\ UNCHANGED <<client, clock, form, kern, claims, answers, tlog, audit, performed>>

Tick ==
    /\ clock < MaxTime
    /\ clock' = clock + 1
    /\ UNCHANGED <<client, form, seam, kern, claims, answers, tlog, audit, performed>>

-----------------------------------------------------------------------------
Handle(r) ==
    \/ ReceiveRefused(r)
    \/ Receive(r)
    \/ PolicyAllows(r)
    \/ PolicyDenies(r)
    \/ TlogAppend(r)
    \/ AuditAppend(r)

Middleware(r) ==
    \/ \E f \in Forms : SendGated(r, f) \/ SendSupervised(r, f)
    \/ Perform(r)
    \/ Refuse(r)

Next ==
    \/ \E r \in Request : Middleware(r) \/ Handle(r) \/ Decide(r)
    \/ KernelCrash
    \/ Tick

Spec == Init /\ [][Next]_vars

-----------------------------------------------------------------------------
(***************************************************************************)
(* Properties.                                                             *)
(***************************************************************************)

\* The requests that were forwarded because the kernel allowed them.
GatedRuns == {p \in performed : form[p[1]].tier = "gated"}

\* "There is no silent allow" (docs/architecture.md): a gated request is
\* forwarded only when the sidecar allowed this very request and its role
\* may ask for it at all, whatever failed, timed out or was mixed up.
NoSilentAllow ==
    \A p \in GatedRuns :
        /\ ~Forbidden(form[p[1]])
        /\ \E m \in answers : m.id = p[1] /\ m.allowed

\* "Every ALLOW decision is appended" to the log: what is forwarded is in
\* the log, although the append may fail before or after it took effect and
\* the log may answer about another row.  Only a kernel whose operator set
\* the log aside, or one outside production, may run without it.
ForwardedIsLogged ==
    client \/ client \in ObligedClients => \A p \in GatedRuns : p[1] \in tlog

\* A decision is used only while it is fresh: however slow the sidecar, the
\* log and the audit chain are, a gated request runs at most MaxTTL plus the
\* verifier's leeway after the sidecar allowed it.
DecisionIsFresh ==
    \A p \in GatedRuns : \A m \in answers :
        m.id = p[1] => p[2] <= m.at + MaxTTL + Leeway

\* The audit chain is best-effort but never wrong: it has one verdict for a
\* request, an allowed request is in the log if there is one, and a denied one
\* never ran.
AuditIsRight ==
    \A r \in Request :
        /\ <<r, "allow">> \in audit => (client => r \in tlog) /\ <<r, "deny">> \notin audit
        /\ <<r, "deny">> \in audit => \A p \in GatedRuns : p[1] # r

-----------------------------------------------------------------------------
(***************************************************************************)
(* The inductive invariant behind them: what the stage of a handler says   *)
(* about everything that happened before it.                               *)
(***************************************************************************)

\* A handler past its checks has a request that passed them.
CheckedInv ==
    \A r \in Request :
        /\ kern[r] # "none" => form[r] # <<>>
        /\ kern[r] \notin {"none", "denied", "invalid"} => ~Forbidden(form[r])
        /\ seam[r] # "idle" <=> form[r] # <<>>

\* A handler that has signed was allowed, and signed times do not change.
SignedInv ==
    \A r \in Request : kern[r] \in {"append", "allowing", "allowed"} =>
        /\ \E m \in answers : m.id = r /\ m.allowed
        /\ claims[r].exp = claims[r].iat + claims[r].ttl

\* A handler that is going to allow has its token in the log.
LoggedInv ==
    \A r \in Request : client /\ kern[r] \in {"allowing", "allowed"} => r \in tlog

\* The sidecar decides after the request's times were captured.
CapturedInv ==
    /\ \A r \in Request : claims[r].ttl <= MaxTTL /\ claims[r].iat <= clock
    /\ \A r \in Request : claims[r].ttl # 0 => kern[r] # "none"
    /\ \A m \in answers : claims[m.id].ttl # 0 /\ claims[m.id].iat <= m.at

\* What ran, ran on an answer that says so and stays; so does the audit.
AnsweredInv ==
    /\ \A p \in performed : form[p[1]] # <<>>
    /\ \A p \in GatedRuns :
          /\ kern[p[1]] = "allowed"
          /\ p[2] <= claims[p[1]].exp + Leeway
    /\ \A r \in Request :
          /\ <<r, "allow">> \in audit =>
                kern[r] \in {"allowed", "crashed"} /\ (client => r \in tlog) /\ <<r, "deny">> \notin audit
          /\ <<r, "deny">> \in audit => kern[r] \in {"denied", "crashed"}

AuthorizeInv ==
    /\ TypeOK
    /\ CheckedInv
    /\ SignedInv
    /\ LoggedInv
    /\ CapturedInv
    /\ AnsweredInv
=============================================================================
