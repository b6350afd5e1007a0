---------------------------- MODULE PolicyRoutes ----------------------------
(***************************************************************************)
(* The kernel's policy routes (routes/policy/) and approval routes         *)
(* (routes/approvals.rs), with the IPC client through which they reach the *)
(* policy sidecar.  The kernel is stateless: the module registry lives in  *)
(* the sidecar (external), and a handler is a chain of awaits              *)
(*                                                                         *)
(*   receive -> one IPC round trip -> sign -> audit append -> reply        *)
(*                                                                         *)
(* several of which run at once.  Each round trip has a connection and a   *)
(* request_id of its own; a handler may time out on it, or be dropped with *)
(* its HTTP connection, while the sidecar is still working on it.          *)
(***************************************************************************)
EXTENDS Integers, FiniteSets

CONSTANTS
    Callers,    \* threads that wait for the reply to their request
    Nobody,     \* any other client, and a caller that has gone away
    Modules,    \* module paths (dotted names and source hashes)
    Items,      \* items put up for approval
    Slots,      \* handlers that can run at the same time
    MaxIds      \* bound: requests that receive a request_id or nonce

ASSUME PolicyAssumption ==
    /\ Nobody \notin Callers
    /\ Modules # {}
    /\ Modules \cap Items = {}
    /\ MaxIds \in Nat \ {0}

VARIABLES
    registry,   \* sidecar: module -> its live row, at = 0 when there is none
    sent,       \* request lines written to the sidecar's socket
    answers,    \* every response line the sidecar has produced
    call,       \* slot -> the handler running in it
    chain,      \* tokens and events in the audit chain
    ids         \* request ids used so far (UUIDv7, fresh for every request)

policyVars == <<registry, sent, answers, call, chain, ids>>

-----------------------------------------------------------------------------
(* Requests, answers, handlers.                                            *)

\* A regex set either matches the path it is registered for or misses it.
PatternSets == {"match", "miss"}
Ops == {"register", "authorize", "event", "status", "approve", "reject"}
Roles == {"worker", "operator"}

\* `wellFormed' stands for every check on the body before the IPC: the
\* module_path charset, the count, length, nested-quantifier, compile and
\* DFA-size limits of the patterns, the format of the event fingerprint and
\* its equality with the one the kernel recomputes.
Request == [op: Ops, m: Modules \cup Items, pat: PatternSets,
            role: Roles, wellFormed: BOOLEAN]

Verdicts == {"allow", "deny", "kernel_unavailable", "unrecognized",
             "new", "conflict", "ok", "null", "error"}

\* Rows are told apart by registered_at_unix_ms; the registry is persistent,
\* so a module may have a row from before, with the extra value of `at'.
Times == 0..(MaxIds + 1)
Row == [pat: PatternSets, at: Times]
NoRow == [pat |-> "match", at |-> 0]
OldRow == [pat |-> "match", at |-> MaxIds + 1]

\* A request line (verdict "ok", at 0), a response line and a token are all
\* told apart by these fields.
Line == [op: Ops, m: Modules \cup Items, pat: PatternSets, id: 0..MaxIds,
         verdict: Verdicts, at: Times]

Free == [step |-> "free", who |-> Nobody, status |-> 0,
         line |-> [op |-> "status", m |-> CHOOSE m \in Modules : TRUE,
                   pat |-> "match", id |-> 0, verdict |-> "ok", at |-> 0]]

Statuses == {0, 200, 201, 202, 400, 403, 404, 409, 502, 503}

PolicyInit ==
    /\ registry \in [Modules -> {NoRow, OldRow}]
    /\ sent = {}
    /\ answers = {}
    /\ call = [s \in Slots |-> Free]
    /\ chain = {}
    /\ ids = 0

-----------------------------------------------------------------------------
(* Receiving a request.                                                    *)

RoleAllowed(req) ==
    CASE req.op \in {"approve", "reject"} -> req.role = "operator"
      [] req.op = "status"                -> TRUE
      [] OTHER                            -> req.role = "worker"

\* The line of a request with a fresh id.
LineOf(req, id) ==
    [op |-> req.op, m |-> req.m, pat |-> req.pat, id |-> id,
     verdict |-> "ok", at |-> 0]

\* The handler refuses the request on its role or its body.
Refuse(s, who, req) ==
    /\ ~RoleAllowed(req) \/ ~req.wellFormed
    /\ call' = [call EXCEPT ![s] = [Free EXCEPT !.step = "reply", !.who = who,
                  !.status = IF ~RoleAllowed(req) THEN 403 ELSE 400]]
    /\ UNCHANGED <<sent, ids>>

Accepted(req) == RoleAllowed(req) /\ req.wellFormed

\* An approval needs no decision of the sidecar, the operator role is the
\* authority: it is signed at once and goes on to the audit append.
SignDecision(s, who, req) ==
    /\ Accepted(req)
    /\ req.op \in {"approve", "reject"}
    /\ call' = [call EXCEPT ![s] = [step |-> "audit", who |-> who, status |-> 200,
                                    line |-> LineOf(req, ids + 1)]]
    /\ ids' = ids + 1
    /\ UNCHANGED sent

\* Every other route writes a request line to the sidecar.
Ask(s, who, req) ==
    /\ Accepted(req)
    /\ req.op \notin {"approve", "reject"}
    /\ call' = [call EXCEPT ![s] = [step |-> "ipc", who |-> who, status |-> 0,
                                    line |-> LineOf(req, ids + 1)]]
    /\ sent' = sent \cup {LineOf(req, ids + 1)}
    /\ ids' = ids + 1

\* A handler starts in the free slot s.
Receive(s, who, req) ==
    /\ call[s].step = "free"
    /\ ids < MaxIds
    /\ req.m \in IF req.op \in {"approve", "reject"} THEN Items ELSE Modules
    /\ req.op # "register" => req.pat = "match"
    /\ Refuse(s, who, req) \/ SignDecision(s, who, req) \/ Ask(s, who, req)
    /\ UNCHANGED <<registry, answers, chain>>

-----------------------------------------------------------------------------
(* The sidecar, as the client and the routes use it.                       *)

\* The sidecar works off a request line, whether or not anybody still waits
\* for the answer: a register inserts a row unless the module has a live
\* one, an authorize allows a module whose live row's patterns match it.
Sidecar(q) ==
    /\ q \in sent
    /\ sent' = sent \ {q}
    /\ LET row == registry[q.m]
           reply(verdict, at) ==
              answers' = answers \cup {[q EXCEPT !.verdict = verdict, !.at = at]}
       IN  \/ /\ q.op = "register" /\ row.at = 0
              /\ registry' = [registry EXCEPT ![q.m] = [pat |-> q.pat, at |-> q.id]]
              /\ reply("new", q.id)
           \/ /\ q.op = "register" /\ row.at # 0
              /\ reply("conflict", row.at)
              /\ UNCHANGED registry
           \/ /\ q.op = "authorize"
              /\ \/ reply(IF row.at # 0 /\ row.pat = "match" THEN "allow" ELSE "deny",
                          row.at)
                 \/ \E v \in {"kernel_unavailable", "unrecognized"} : reply(v, 0)
              /\ UNCHANGED registry
           \/ /\ q.op \in {"event", "status"}
              /\ reply(IF q.op = "status" /\ row.at = 0 THEN "null" ELSE "ok", row.at)
              /\ UNCHANGED registry
           \/ /\ reply("error", 0)
              /\ UNCHANGED registry
    /\ UNCHANGED <<call, chain, ids>>

\* A row is revoked in the registry, outside the kernel.
SidecarRevokes(m) ==
    /\ registry[m].at # 0
    /\ registry' = [registry EXCEPT ![m] = NoRow]
    /\ UNCHANGED <<sent, answers, call, chain, ids>>

-----------------------------------------------------------------------------
(* The answer.                                                             *)

\* The envelope check without the echo of the request_id.
ValidateAnyEcho(a, q) ==
    /\ a.verdict # "error"
    /\ a.op = q.op

\* The response must be ok, echo the request_id and carry the result key of
\* the verb.
ValidateEnvelope(a, q) ==
    /\ a.id = q.id
    /\ a.verdict # "error"
    /\ a.op = q.op

IpcErrorStatus(op) == IF op = "event" THEN 502 ELSE 503

(* What each route makes of a valid answer: the status it will reply with, *)
(* and whether it signs or records something first.                        *)

\* An allow and a deny are signed, nothing else is.
AuthorizeStep(verdict) ==
    CASE verdict = "allow" -> [step |-> "audit", status |-> 200]
      [] verdict = "deny"  -> [step |-> "audit", status |-> 403]
      [] OTHER             -> [step |-> "reply", status |-> 503]

\* The register route that does not look at the conflict flag.
RegisterIgnoringConflict(verdict) == [step |-> "audit", status |-> 201]

\* A live row of the module is told apart by the conflict flag: no receipt.
RegisterStep(verdict) ==
    IF verdict = "conflict" THEN [step |-> "reply", status |-> 409]
                            ELSE [step |-> "audit", status |-> 201]

StatusStep(verdict) ==
    [step |-> "reply", status |-> IF verdict = "null" THEN 404 ELSE 200]

EventStep == [step |-> "audit", status |-> 202]

StepFor(op, verdict) ==
    CASE op = "authorize" -> AuthorizeStep(verdict)
      [] op = "register"  -> RegisterStep(verdict)
      [] op = "status"    -> StatusStep(verdict)
      [] op = "event"     -> EventStep

\* A response line arrives on the handler's connection.  Nothing stops a
\* confused sidecar from writing the answer to another request there.  The
\* signed claims hold the request's own module and patterns and the
\* answer's decision and timestamp.
Deliver(s, a) ==
    /\ call[s].step = "ipc"
    /\ a \in answers
    /\ LET q == call[s].line
           next == IF ValidateEnvelope(a, q)
                     THEN StepFor(q.op, a.verdict)
                     ELSE [step |-> "reply", status |-> IpcErrorStatus(q.op)]
       IN  call' = [call EXCEPT ![s].step = next.step,
                                ![s].status = next.status,
                                ![s].line.verdict =
                                    IF next.step = "audit" THEN a.verdict ELSE @,
                                ![s].line.at = IF next.step = "audit" THEN a.at ELSE @]
    /\ UNCHANGED <<registry, sent, answers, chain, ids>>

\* Connect refused, EOF, a malformed line, or the timeout of the round trip;
\* the request line may never have been written, or be worked off later.
IpcFails(s) ==
    /\ call[s].step = "ipc"
    /\ call' = [call EXCEPT ![s].step = "reply",
                            ![s].status = IpcErrorStatus(call[s].line.op)]
    /\ \/ sent' = sent \ {call[s].line}
       \/ UNCHANGED sent
    /\ UNCHANGED <<registry, answers, chain, ids>>

\* The audit append is fail-open: the reply goes out whether it was written
\* or not.
Audit(s) ==
    /\ call[s].step = "audit"
    /\ call' = [call EXCEPT ![s].step = "reply"]
    /\ \/ chain' = chain \cup {call[s].line}
       \/ UNCHANGED chain
    /\ UNCHANGED <<registry, sent, answers, ids>>

\* The response is written.  A caller in Callers takes it in an action of
\* its own module; for everybody else the handler just ends.
ReplyTo(s) ==
    /\ call[s].step = "reply"
    /\ call' = [call EXCEPT ![s] = Free]
    /\ UNCHANGED <<registry, sent, answers, chain, ids>>

Reply(s) == call[s].who = Nobody /\ ReplyTo(s)

\* The client's connection is gone, and the handler with it, at whichever
\* await it was: an append under way may have been written.
Drop(s) ==
    /\ call[s].who = Nobody
    /\ call[s].step \in {"ipc", "audit"}
    /\ call' = [call EXCEPT ![s] = Free]
    /\ \/ call[s].step = "audit" /\ chain' = chain \cup {call[s].line}
       \/ UNCHANGED chain
    /\ UNCHANGED <<registry, sent, answers, ids>>

\* Everything but the arrival of requests.
PolicyNext ==
    \/ \E q \in sent : Sidecar(q)
    \/ \E m \in Modules : SidecarRevokes(m)
    \/ \E s \in Slots, a \in answers : Deliver(s, a)
    \/ \E s \in Slots : IpcFails(s) \/ Audit(s) \/ Reply(s) \/ Drop(s)

-----------------------------------------------------------------------------
(* Properties.                                                             *)

PolicyTypeOK ==
    /\ registry \in [Modules -> Row]
    /\ sent \subseteq Line
    /\ answers \subseteq Line
    /\ \A s \in Slots :
          /\ call[s].step \in {"free", "ipc", "audit", "reply"}
          /\ call[s].who \in Callers \cup {Nobody}
          /\ call[s].status \in Statuses
          /\ call[s].line \in Line
    /\ chain \subseteq Line
    /\ ids \in 0..MaxIds

\* The tokens that exist: in the chain, or signed and on their way out.
Signed(line) == line.verdict \in {"allow", "deny", "new", "conflict"}
Tokens == {t \in chain : Signed(t)}
            \cup {call[s].line : s \in {r \in Slots : Signed(call[r].line)}}

\* TokenBacked: a signed token says of its own request what the sidecar said
\* of that request: the decision and the row of the very same module,
\* patterns and request id, however answers, timeouts and dropped handlers
\* interleave.
TokenBacked == Tokens \subseteq answers

\* OneReceiptPerRow: two receipts for a module never name the same registry
\* row: of two registrations that race, one is told 409 and gets no token.
OneReceiptPerRow ==
    \A t, u \in {x \in Tokens : x.op = "register"} :
        t.m = u.m /\ t.at = u.at => t = u
=============================================================================
