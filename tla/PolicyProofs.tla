---------------------------- MODULE PolicyProofs ----------------------------
(***************************************************************************)
(* For any number of handlers, threads and modules: a token says what the  *)
(* sidecar answered to its own request, a registry row has one receipt,    *)
(* and a covered interpreter lets nothing through that was not allowed.    *)
(***************************************************************************)
EXTENDS AuditHook, FiniteSetTheorems, TLAPS

-----------------------------------------------------------------------------
(* The inductive invariant: the kernel and its sidecar.                    *)

Handler == [step: {"free", "ipc", "audit", "reply"}, who: Callers \cup {Nobody},
            status: Statuses, line: Line]

PolicyTypes ==
    /\ registry \in [Modules -> Row]
    /\ sent \subseteq Line
    /\ answers \subseteq Line
    /\ call \in [Slots -> Handler]
    /\ chain \subseteq Line
    /\ ids \in 0..MaxIds

SameRequest(a, b) == a.op = b.op /\ a.m = b.m /\ a.pat = b.pat

Lines == sent \cup answers \cup {call[s].line : s \in Slots}

\* A request id that is in use names one request.
IdsInv ==
    /\ \A a \in Lines : a.id <= ids
    /\ \A a \in sent \cup answers : a.id # 0
    /\ \A a, b \in Lines : a.id = b.id /\ a.id # 0 => SameRequest(a, b)

\* A registration is answered with the row it created, or without a receipt.
SidecarInv ==
    /\ \A q \in sent \cup answers :
          q.m \in Modules /\ q.op \in {"register", "authorize", "event", "status"}
    /\ \A a \in answers : a.op = "register" =>
          /\ a.verdict \in {"new", "conflict", "error"}
          /\ a.verdict = "new" => a.at = a.id

\* A token repeats an answer; a receipt is of a row that is new.
TokensInv ==
    \A t \in Tokens : t \in answers /\ (t.op = "register" => t.verdict = "new")

\* The authorize route replies 200 only to an allow.
StatusInv ==
    \A s \in Slots : call[s].line.op = "authorize" /\ call[s].status = 200
                        => call[s].line.verdict = "allow"

PolicyInv == PolicyTypes /\ IdsInv /\ SidecarInv /\ TokensInv /\ StatusInv

-----------------------------------------------------------------------------
(* The inductive invariant: the interpreters.                              *)

Hook == [config: Configs, armed: BOOLEAN, hooked: BOOLEAN,
         covered: BOOLEAN, lax: BOOLEAN]
Thread == [step: ThrSteps, config: Configs, m: Modules, form: Forms \cup {"none"}]

HookTypes ==
    /\ hook \in [Procs -> Hook]
    /\ killSwitch \in [Procs -> BOOLEAN]
    /\ life \in [Procs -> Lives]
    /\ thr \in [Callers -> Thread]
    /\ mp \in [count: 0..Cardinality(Callers), patched: BOOLEAN,
               original: BOOLEAN, holder: Callers \cup {Nobody}]
    /\ spawns \in 0..1
    /\ scope \in Scopes
    /\ imports \subseteq [m: Modules, id: 0..MaxIds]

\* A thread that waits has at most one handler, which works on its request.
FlightInv ==
    \A s \in Slots : call[s].who # Nobody =>
        LET c == call[s].who IN
        /\ thr[c].step \in {"asking", "posting"}
        /\ thr[c].step = "asking" =>
              call[s].line.op = "authorize" /\ call[s].line.m = thr[c].m
        /\ \A r \in Slots : call[r].who = c => r = s

\* The callback forwards every event and fails closed, or the process has
\* been told to be lax.
Strict(p) ==
    hook[p].lax \/ (hook[p].hooked /\ hook[p].armed /\ hook[p].config = "closed")

CoverInv ==
    \A p \in Procs :
        /\ hook[p].config = "open" => hook[p].lax
        /\ hook[p].covered /\ life[p] \in {"user", "mprun"} => Strict(p)
        /\ life[p] # "lost"

\* What an installation, a report and an event have established so far.
ThreadInv ==
    \A c \in Callers :
        /\ thr[c].step = "checked" => thr[c].config # "none"
        /\ thr[c].step = "configured" => hook[ProcOf[c]].config # "none"
        /\ thr[c].step = "posting" /\ thr[c].form = "none" => Strict(ProcOf[c])
        /\ thr[c].step = "asking" =>
              thr[c].config = "closed" \/ hook[ProcOf[c]].lax

\* The child is started once, and nothing runs in it before.
SpawnInv ==
    /\ spawns = 0 => life[Child] = "none"
    /\ life[Child] = "none" => \A c \in Callers : ProcOf[c] = Child => thr[c].step = "idle"
    /\ \A c \in Callers : thr[c].form # "none" =>
          /\ ProcOf[c] = Parent /\ thr[c].step = "posting"
          /\ spawns = 1 /\ life[Child] = "none"
          /\ \A d \in Callers : thr[d].form # "none" => d = c

MpInv ==
    /\ mp.count > 0 => mp.patched
    /\ mp.patched \/ mp.holder # Nobody => mp.original

ProcInv == HookTypes /\ CoverInv /\ ThreadInv /\ SpawnInv /\ MpInv

AuditHookInv == PolicyInv /\ ProcInv /\ FlightInv /\ ImportAuthorised

-----------------------------------------------------------------------------
(* The kernel's steps.                                                     *)

LEMMA FreeType ==
    ASSUME PolicyAssumption
    PROVE  Free \in Handler
<1>1. (CHOOSE m \in Modules : TRUE) \in Modules
  BY DEF PolicyAssumption
<1>2. QED
  BY <1>1 DEF Free, Handler, Line, Ops, PatternSets, Verdicts, Times, Statuses,
              PolicyAssumption

\* What a free slot and a refusal hold is neither a request nor a token.
LEMMA FreeLine ==
    /\ Free.line.id = 0
    /\ Free.line.op = "status"
    /\ ~Signed(Free.line)
    /\ Free.who = Nobody
BY DEF Free, Signed

LEMMA PolicyInitInv ==
    ASSUME PolicyAssumption, PolicyInit
    PROVE  PolicyInv
<1>1. PolicyTypes
  BY FreeType DEF PolicyInit, PolicyTypes, NoRow, OldRow, Row, PatternSets, Times,
                  PolicyAssumption
<1>2. \A a \in Lines : a.id = 0
  BY FreeLine DEF PolicyInit, Lines
<1>3. IdsInv /\ SidecarInv
  BY <1>2 DEF PolicyInit, IdsInv, SidecarInv
<1>4. TokensInv /\ StatusInv
  BY FreeLine DEF PolicyInit, TokensInv, StatusInv, Tokens
<1>5. QED
  BY <1>1, <1>3, <1>4 DEF PolicyInv

\* A refused request leaves nothing behind but its reply, an accepted one
\* takes the next id.
LEMMA ReceiveStep ==
    ASSUME PolicyAssumption, PolicyInv, NEW s \in Slots,
           NEW who \in Callers \cup {Nobody}, NEW req \in Request,
           Receive(s, who, req)
    PROVE  /\ PolicyInv'
           /\ \A r \in Slots \ {s} : call'[r] = call[r]
           /\ call'[s].who = who
           /\ Accepted(req) => /\ call'[s].line.op = req.op
                               /\ call'[s].line.m = req.m
<1> DEFINE new == LineOf(req, ids + 1)
<1>0. /\ ids \in 0..MaxIds /\ ids < MaxIds /\ MaxIds \in Nat
      /\ call \in [Slots -> Handler]
  BY DEF Receive, PolicyInv, PolicyTypes, PolicyAssumption
<1>1. /\ new \in Line /\ new.id = ids + 1 /\ new.op = req.op /\ new.m = req.m
      /\ new.verdict = "ok" /\ new.pat = req.pat
  BY <1>0 DEF LineOf, Line, Request, Verdicts, Times
<1>2. CASE Refuse(s, who, req)
  <2> DEFINE st == IF ~RoleAllowed(req) THEN 403 ELSE 400
             h == [Free EXCEPT !.step = "reply", !.who = who, !.status = st]
  <2>0. st \in Statuses /\ st # 200
    BY DEF Statuses
  <2>2. /\ call' = [call EXCEPT ![s] = h]
        /\ sent' = sent /\ ids' = ids /\ registry' = registry
        /\ answers' = answers /\ chain' = chain
    BY <1>2 DEF Refuse, Receive
  <2> HIDE DEF st
  <2>1. /\ h \in Handler /\ h.line = Free.line /\ h.who = who
        /\ h.status # 200
    BY <2>0, FreeType DEF Handler
  <2> HIDE DEF h
  <2>3. \A r \in Slots : call'[r] = IF r = s THEN h ELSE call[r]
    BY <1>0, <2>2
  <2>4. PolicyTypes'
    BY <1>0, <2>1, <2>2 DEF PolicyTypes, PolicyInv
  <2>5. \A a \in Lines' : a \in Lines \/ a = Free.line
    BY <2>1, <2>2, <2>3 DEF Lines
  <2>6. IdsInv'
    BY <1>0, <2>2, <2>5, FreeLine DEF IdsInv, PolicyInv
  <2>7. SidecarInv'
    BY <2>2 DEF SidecarInv, PolicyInv
  <2>8. \A t \in Tokens' : t \in Tokens
    BY <2>1, <2>2, <2>3, FreeLine DEF Tokens
  <2>9. TokensInv'
    BY <2>2, <2>8 DEF TokensInv, PolicyInv
  <2>10. StatusInv'
    BY <2>1, <2>3 DEF StatusInv, PolicyInv
  <2>11. ~Accepted(req)
    BY <1>2 DEF Refuse, Accepted
  <2>12. QED
    BY <2>1, <2>3, <2>4, <2>6, <2>7, <2>9, <2>10, <2>11 DEF PolicyInv
<1>3. CASE SignDecision(s, who, req) \/ Ask(s, who, req)
  <2>1. PICK h \in Handler :
           /\ call' = [call EXCEPT ![s] = h]
           /\ h.line = new /\ h.who = who
           /\ new.op = "authorize" => h.status # 200
    <3> DEFINE g(step, st) == [step |-> step, who |-> who, status |-> st, line |-> new]
    <3>0. g("audit", 200) \in Handler /\ g("ipc", 0) \in Handler
      BY <1>1 DEF Handler, Statuses
    <3>1. CASE SignDecision(s, who, req)
      <4>1. call' = [call EXCEPT ![s] = g("audit", 200)]
        BY <3>1 DEF SignDecision
      <4>2. new.op # "authorize"
        BY <1>1, <3>1 DEF SignDecision
      <4>3. QED
        BY <3>0, <4>1, <4>2
    <3>2. CASE Ask(s, who, req)
      <4>1. call' = [call EXCEPT ![s] = g("ipc", 0)]
        BY <3>2 DEF Ask
      <4>2. /\ g("ipc", 0).line = new /\ g("ipc", 0).who = who
            /\ g("ipc", 0).status # 200
        OBVIOUS
      <4> HIDE DEF g
      <4>3. QED
        BY <3>0, <4>1, <4>2
    <3>3. QED
      BY <1>3, <3>1, <3>2
  <2>2. /\ ids' = ids + 1 /\ registry' = registry
        /\ answers' = answers /\ chain' = chain
    BY <1>3 DEF SignDecision, Ask, Receive
  <2>3. sent' \subseteq sent \cup {new} /\ (new \in sent' => new \in sent
          \/ (new.m \in Modules /\ new.op \in {"register", "authorize", "event", "status"}))
    BY <1>1, <1>3 DEF SignDecision, Ask, Receive, Request, Ops
  <2> HIDE DEF new
  <2>4. \A r \in Slots : call'[r] = IF r = s THEN h ELSE call[r]
    BY <1>0, <2>1
  <2>5. PolicyTypes'
    BY <1>0, <1>1, <2>1, <2>2, <2>3 DEF PolicyTypes, PolicyInv
  <2>6. \A a \in Lines' : a \in Lines \/ a = new
    BY <2>1, <2>2, <2>3, <2>4 DEF Lines
  <2>7. \A a \in Lines : a.id \in 0..ids
    BY <1>0 DEF Lines, PolicyInv, PolicyTypes, IdsInv, Line, Handler
  <2>8. IdsInv'
    <3>1. \A a \in Lines' : a.id <= ids'
      BY <1>0, <1>1, <2>2, <2>6, <2>7
    <3>2. \A a \in sent' \cup answers' : a.id # 0
      BY <1>0, <1>1, <2>2, <2>3 DEF IdsInv, PolicyInv
    <3>3. ASSUME NEW a \in Lines', NEW b \in Lines', a.id = b.id, a.id # 0
          PROVE  SameRequest(a, b)
      BY <1>0, <1>1, <2>6, <2>7, <3>3 DEF IdsInv, PolicyInv, SameRequest
    <3>4. QED
      BY <3>1, <3>2, <3>3 DEF IdsInv
  <2>9. SidecarInv'
    BY <2>2, <2>3 DEF SidecarInv, PolicyInv
  <2>10. \A t \in Tokens' : t \in Tokens
    BY <1>1, <2>1, <2>2, <2>4 DEF Tokens, Signed
  <2>11. TokensInv'
    BY <2>2, <2>10 DEF TokensInv, PolicyInv
  <2>12. StatusInv'
    BY <2>1, <2>4 DEF StatusInv, PolicyInv
  <2>13. QED
    BY <1>1, <2>1, <2>4, <2>5, <2>8, <2>9, <2>11, <2>12 DEF PolicyInv
<1>4. QED
  BY <1>2, <1>3 DEF Receive

\* The sidecar answers a request with the request's own id.
LEMMA SidecarStep ==
    ASSUME PolicyAssumption, PolicyInv, NEW q \in sent, Sidecar(q)
    PROVE  PolicyInv' /\ call' = call /\ answers \subseteq answers'
<1>0. /\ call' = call /\ chain' = chain /\ ids' = ids /\ sent' = sent \ {q}
  BY DEF Sidecar
<1>1. /\ q \in Line /\ q.m \in Modules /\ q.id # 0
      /\ registry \in [Modules -> Row] /\ registry[q.m] \in Row
      /\ ids \in 0..MaxIds /\ MaxIds \in Nat
  BY DEF PolicyInv, PolicyTypes, SidecarInv, IdsInv, PolicyAssumption
<1>2. PICK v \in Verdicts, at \in Times :
        /\ answers' = answers \cup {[q EXCEPT !.verdict = v, !.at = at]}
        /\ q.op = "register" => /\ v \in {"new", "conflict", "error"}
                                /\ v = "new" => at = q.id
  <2>1. /\ 0 \in Times /\ q.id \in Times /\ registry[q.m].at \in Times
    BY <1>1 DEF Times, Line, Row
  <2>2. /\ "new" \in Verdicts /\ "conflict" \in Verdicts /\ "allow" \in Verdicts
        /\ "deny" \in Verdicts /\ "kernel_unavailable" \in Verdicts
        /\ "unrecognized" \in Verdicts /\ "ok" \in Verdicts /\ "null" \in Verdicts
        /\ "error" \in Verdicts
    BY DEF Verdicts
  <2>3. QED
    BY <2>1, <2>2 DEF Sidecar
<1> DEFINE a == [q EXCEPT !.verdict = v, !.at = at]
<1>3. /\ a \in Line /\ a.id = q.id /\ SameRequest(a, q)
      /\ a.verdict = v /\ a.at = at /\ a.op = q.op
  BY <1>1, <1>2 DEF Line, SameRequest
<1>4. registry' \in [Modules -> Row]
  BY <1>1 DEF Sidecar, Row, Line, Times
<1>5. answers' = answers \cup {a}
  BY <1>2
<1> HIDE DEF a
<1>6. PolicyTypes'
  BY <1>0, <1>3, <1>4, <1>5 DEF PolicyInv, PolicyTypes
<1>7. q \in Lines /\ \A b \in Lines' : b \in Lines \/ b = a
  BY <1>0, <1>5 DEF Lines
<1>8. IdsInv'
  <2>1. \A b \in Lines' : b.id <= ids'
    BY <1>0, <1>3, <1>7 DEF PolicyInv, IdsInv
  <2>2. \A b \in sent' \cup answers' : b.id # 0
    BY <1>0, <1>1, <1>3, <1>5 DEF PolicyInv, IdsInv
  <2>3. ASSUME NEW b \in Lines', NEW d \in Lines', b.id = d.id, b.id # 0
        PROVE  SameRequest(b, d)
    BY <1>3, <1>7, <2>3 DEF PolicyInv, IdsInv, SameRequest
  <2>4. QED
    BY <2>1, <2>2, <2>3 DEF IdsInv
<1>9. SidecarInv'
  BY <1>0, <1>1, <1>2, <1>3, <1>5 DEF PolicyInv, SidecarInv, SameRequest
<1>10. Tokens' = Tokens
  BY <1>0 DEF Tokens
<1>11. TokensInv' /\ StatusInv'
  BY <1>0, <1>5, <1>10 DEF PolicyInv, TokensInv, StatusInv
<1>12. QED
  BY <1>0, <1>5, <1>6, <1>8, <1>9, <1>11 DEF PolicyInv

LEMMA RevokeStep ==
    ASSUME PolicyAssumption, PolicyInv, NEW m \in Modules, SidecarRevokes(m)
    PROVE  PolicyInv' /\ call' = call /\ answers \subseteq answers'
<1>1. registry' \in [Modules -> Row]
  BY DEF SidecarRevokes, PolicyInv, PolicyTypes, NoRow, Row, PatternSets, Times,
         PolicyAssumption
<1>2. UNCHANGED <<sent, answers, call, chain, ids>>
  BY DEF SidecarRevokes
<1>3. Lines' = Lines /\ Tokens' = Tokens
  BY <1>2 DEF Lines, Tokens
<1>4. QED
  BY <1>1, <1>2, <1>3 DEF PolicyInv, PolicyTypes, IdsInv, SidecarInv, TokensInv, StatusInv

\* What is left to show of a step that changes handlers only.
LEMMA HandlerStep ==
    ASSUME PolicyInv, call' \in [Slots -> Handler], chain' \subseteq Line,
           UNCHANGED <<registry, answers, ids>>, sent' \subseteq sent,
           \A r \in Slots : call'[r].line = Free.line
               \/ (call'[r].line.id = call[r].line.id
                    /\ SameRequest(call'[r].line, call[r].line)),
           TokensInv', StatusInv'
    PROVE  PolicyInv'
<1>1. PolicyTypes' /\ SidecarInv'
  BY DEF PolicyInv, PolicyTypes, SidecarInv
<1>2. \A b \in Lines' : b.id = 0
        \/ \E d \in Lines : b.id = d.id /\ SameRequest(b, d)
  BY FreeLine DEF Lines, SameRequest
<1>3. IdsInv'
  <2>1. \A b \in Lines' : b.id <= ids'
    BY <1>2 DEF PolicyInv, IdsInv, PolicyTypes
  <2>2. \A b \in sent' \cup answers' : b.id # 0
    BY DEF PolicyInv, IdsInv
  <2>3. ASSUME NEW b \in Lines', NEW d \in Lines', b.id = d.id, b.id # 0
        PROVE  SameRequest(b, d)
    BY <1>2, <2>3 DEF PolicyInv, IdsInv, SameRequest
  <2>4. QED
    BY <2>1, <2>2, <2>3 DEF IdsInv
<1>4. QED
  BY <1>1, <1>3 DEF PolicyInv

LEMMA LineEq ==
    ASSUME NEW a \in Line, NEW b \in Line, a.op = b.op, a.m = b.m, a.pat = b.pat,
           a.id = b.id, a.verdict = b.verdict, a.at = b.at
    PROVE  a = b
BY DEF Line

\* A handler signs what the sidecar answered to its own request: the echo of
\* the request id makes the rest of the answer that of the request.
LEMMA DeliverStep ==
    ASSUME PolicyAssumption, PolicyInv, NEW s \in Slots, NEW a \in answers,
           Deliver(s, a)
    PROVE  /\ PolicyInv'
           /\ \A r \in Slots : /\ call'[r].who = call[r].who
                               /\ SameRequest(call'[r].line, call[r].line)
<1> DEFINE q == call[s].line
           next == IF ValidateEnvelope(a, q)
                     THEN StepFor(q.op, a.verdict)
                     ELSE [step |-> "reply", status |-> IpcErrorStatus(q.op)]
<1>0. /\ call \in [Slots -> Handler] /\ a \in Line /\ q \in Line /\ call[s] \in Handler
  BY DEF PolicyInv, PolicyTypes, Handler
<1>1. /\ next.step \in {"audit", "reply"} /\ next.status \in Statuses
      /\ next.step = "audit" =>
            /\ a.id = q.id
            /\ a.op = "register" => a.verdict # "conflict"
      /\ q.op = "authorize" /\ next.status = 200 =>
            next.step = "audit" /\ a.verdict = "allow"
  <2>1. a.op \in {"register", "authorize", "event", "status"}
    BY DEF PolicyInv, SidecarInv
  <2>2. CASE ~ValidateEnvelope(a, q)
    BY <2>2 DEF IpcErrorStatus, Statuses
  <2>3. CASE ValidateEnvelope(a, q)
    <3>1. a.id = q.id /\ a.op = q.op /\ next = StepFor(a.op, a.verdict)
      BY <2>3 DEF ValidateEnvelope
    <3>2. CASE a.op = "authorize"
      <4>1. next = AuthorizeStep(a.verdict)
        BY <3>1, <3>2 DEF StepFor
      <4>2. CASE a.verdict = "allow"
        BY <3>1, <3>2, <4>1, <4>2 DEF AuthorizeStep, Statuses
      <4>3. CASE a.verdict = "deny"
        BY <3>1, <3>2, <4>1, <4>3 DEF AuthorizeStep, Statuses
      <4>4. CASE a.verdict \notin {"allow", "deny"}
        BY <3>1, <3>2, <4>1, <4>4 DEF AuthorizeStep, Statuses
      <4>5. QED
        BY <4>2, <4>3, <4>4
    <3>3. CASE a.op = "register"
      BY <3>1, <3>3 DEF StepFor, RegisterStep, Statuses
    <3>4. CASE a.op = "status"
      BY <3>1, <3>4 DEF StepFor, StatusStep, Statuses
    <3>5. CASE a.op = "event"
      BY <3>1, <3>5 DEF StepFor, EventStep, Statuses
    <3>6. QED
      BY <2>1, <3>2, <3>3, <3>4, <3>5
  <2>4. QED
    BY <2>2, <2>3
<1>2. /\ call' = [call EXCEPT ![s].step = next.step,
                              ![s].status = next.status,
                              ![s].line.verdict =
                                  IF next.step = "audit" THEN a.verdict ELSE @,
                              ![s].line.at = IF next.step = "audit" THEN a.at ELSE @]
      /\ UNCHANGED <<registry, sent, answers, chain, ids>>
  BY DEF Deliver
<1> HIDE DEF next
<1> DEFINE h == call'[s]
<1>3. /\ h \in Handler /\ h.who = call[s].who /\ h.status = next.status
      /\ h.line \in Line /\ h.line.id = q.id /\ SameRequest(h.line, q)
      /\ next.step = "audit" => h.line.verdict = a.verdict /\ h.line.at = a.at
      /\ next.step # "audit" => h.line.verdict = q.verdict /\ h.line.at = q.at
  BY <1>0, <1>1, <1>2 DEF Handler, Line, SameRequest
<1>13. call' = [call EXCEPT ![s] = h]
  BY <1>0, <1>2
<1>4. next.step # "audit" => h.line = q
  BY <1>0, <1>3, LineEq DEF SameRequest
<1>5. next.step = "audit" => h.line = a
  <2>1. a.id # 0 /\ a \in Lines /\ q \in Lines
    BY DEF PolicyInv, IdsInv, Lines
  <2>2. next.step = "audit" => SameRequest(a, q)
    BY <1>1, <2>1 DEF PolicyInv, IdsInv
  <2>3. QED
    BY <1>0, <1>1, <1>3, <2>2, LineEq DEF SameRequest
<1> HIDE DEF h
<1>6. \A r \in Slots : call'[r] = IF r = s THEN h ELSE call[r]
  BY <1>0, <1>13
<1>7. TokensInv'
  <2>1. \A t \in Tokens' : t \in Tokens \/ (t = a /\ next.step = "audit" /\ Signed(a))
    BY <1>1, <1>2, <1>4, <1>5, <1>6 DEF Tokens
  <2>2. Signed(a) /\ next.step = "audit" /\ a.op = "register" => a.verdict = "new"
    BY <1>1 DEF PolicyInv, SidecarInv, Signed
  <2>3. QED
    BY <1>2, <2>1, <2>2 DEF PolicyInv, TokensInv
<1>8. StatusInv'
  BY <1>1, <1>3, <1>5, <1>6 DEF PolicyInv, StatusInv, SameRequest
<1>9. /\ call' \in [Slots -> Handler] /\ chain' \subseteq Line /\ sent' \subseteq sent
      /\ UNCHANGED <<registry, answers, ids>>
  <2>1. call' \in [Slots -> Handler]
    BY <1>0, <1>3, <1>13
  <2>2. chain' \subseteq Line
    BY <1>2 DEF PolicyInv, PolicyTypes
  <2>3. QED
    BY <1>2, <2>1, <2>2
<1>10. \A r \in Slots : /\ call'[r].line.id = call[r].line.id
                        /\ SameRequest(call'[r].line, call[r].line)
                        /\ call'[r].who = call[r].who
  BY <1>3, <1>6 DEF SameRequest
<1>11. PolicyInv'
  BY <1>7, <1>8, <1>9, <1>10, HandlerStep
<1>12. QED
  BY <1>10, <1>11

\* A handler ends, fails, records, or loses its client: it signs nothing.
LEMMA QuietStep ==
    ASSUME PolicyAssumption, PolicyInv, NEW s \in Slots,
           IpcFails(s) \/ Audit(s) \/ ReplyTo(s) \/ Drop(s)
    PROVE  /\ PolicyInv'
           /\ answers' = answers
           /\ \A r \in Slots : call'[r] = Free
                \/ (call'[r].who = call[r].who /\ call'[r].line = call[r].line)
<1>0. call \in [Slots -> Handler] /\ call[s] \in Handler /\ call[s].line \in Line
  BY DEF PolicyInv, PolicyTypes, Handler
<1>1. PICK h \in Handler :
        /\ call' = [call EXCEPT ![s] = h]
        /\ \/ h = Free
           \/ /\ h.who = call[s].who /\ h.line = call[s].line
              /\ h.status # 200 \/ h.status = call[s].status
  <2>1. CASE IpcFails(s)
    <3> DEFINE st == IpcErrorStatus(call[s].line.op)
               h == [call[s] EXCEPT !.step = "reply", !.status = st]
    <3>1. st \in Statuses /\ st # 200
      BY DEF IpcErrorStatus, Statuses
    <3>2. call' = [call EXCEPT ![s] = h]
      BY <1>0, <2>1 DEF IpcFails
    <3> HIDE DEF st
    <3>3. h \in Handler /\ h.who = call[s].who /\ h.line = call[s].line /\ h.status = st
      BY <1>0, <3>1 DEF Handler
    <3> HIDE DEF h
    <3>4. QED
      BY <3>1, <3>2, <3>3
  <2>2. CASE Audit(s)
    <3> DEFINE h == [call[s] EXCEPT !.step = "reply"]
    <3>2. call' = [call EXCEPT ![s] = h]
      BY <1>0, <2>2 DEF Audit
    <3>3. /\ h \in Handler /\ h.who = call[s].who /\ h.line = call[s].line
          /\ h.status = call[s].status
      BY <1>0 DEF Handler
    <3> HIDE DEF h
    <3>4. QED
      BY <3>2, <3>3
  <2>3. CASE ReplyTo(s) \/ Drop(s)
    BY <2>3, FreeType DEF ReplyTo, Drop
  <2>4. QED
    BY <2>1, <2>2, <2>3
<1>2. /\ UNCHANGED <<registry, answers, ids>> /\ sent' \subseteq sent
      /\ chain' \subseteq chain \cup {call[s].line}
  BY DEF IpcFails, Audit, ReplyTo, Drop
<1>3. \A r \in Slots : call'[r] = IF r = s THEN h ELSE call[r]
  BY <1>0, <1>1
<1>4. TokensInv'
  <2>1. \A t \in Tokens' : t \in Tokens
    BY <1>1, <1>2, <1>3, FreeLine DEF Tokens
  <2>2. QED
    BY <1>2, <2>1 DEF PolicyInv, TokensInv
<1>5. StatusInv'
  BY <1>1, <1>3, FreeLine DEF PolicyInv, StatusInv
<1>6. call' \in [Slots -> Handler] /\ chain' \subseteq Line
  BY <1>0, <1>1, <1>2 DEF PolicyInv, PolicyTypes
<1>7. \A r \in Slots : call'[r] = Free
         \/ (call'[r].who = call[r].who /\ call'[r].line = call[r].line)
  BY <1>1, <1>3
<1>8. PolicyInv'
  BY <1>2, <1>4, <1>5, <1>6, <1>7, HandlerStep DEF SameRequest
<1>9. QED
  BY <1>2, <1>7, <1>8

\* A thread gives up on its POST: its handler goes on for nobody.
LEMMA AbandonStep ==
    ASSUME PolicyAssumption, PolicyInv, NEW c \in Callers, HttpPostFails(c)
    PROVE  /\ PolicyInv'
           /\ answers' = answers
           /\ \A r \in Slots : /\ call'[r].who = IF call[r].who = c THEN Nobody
                                                                  ELSE call[r].who
                               /\ call'[r].line = call[r].line
<1>0. call \in [Slots -> Handler]
  BY DEF PolicyInv, PolicyTypes
<1>1. UNCHANGED <<registry, sent, answers, chain, ids>>
  BY DEF HttpPostFails
<1>2. ASSUME NEW r \in Slots
      PROVE  /\ call'[r] \in Handler
             /\ call'[r].who = IF call[r].who = c THEN Nobody ELSE call[r].who
             /\ call'[r].line = call[r].line
             /\ call'[r].status = call[r].status
  <2>1. call[r] \in Handler
    BY <1>0
  <2>2. call'[r] = IF call[r].who = c THEN [call[r] EXCEPT !.who = Nobody] ELSE call[r]
    BY DEF HttpPostFails
  <2>3. QED
    BY <2>1, <2>2 DEF Handler
<1>3. call' \in [Slots -> Handler]
  <2>1. call' = [r \in Slots |-> call'[r]]
    BY DEF HttpPostFails
  <2>2. QED
    BY <1>2, <2>1
<1>4. Tokens' = Tokens
  BY <1>1, <1>2 DEF Tokens
<1>5. TokensInv' /\ StatusInv'
  BY <1>1, <1>2, <1>4 DEF PolicyInv, TokensInv, StatusInv
<1>6. PolicyInv'
  <2>1. chain' \subseteq Line /\ sent' \subseteq sent
    BY <1>1 DEF PolicyInv, PolicyTypes
  <2>2. QED
    BY <1>1, <1>2, <1>3, <1>5, <2>1, HandlerStep DEF SameRequest
<1>7. QED
  BY <1>1, <1>2, <1>6

\* What the kernel's own steps leave to the threads that wait.
Carried ==
    \A r \in Slots : \/ call'[r].who = Nobody
                     \/ /\ call'[r].who = call[r].who
                        /\ SameRequest(call'[r].line, call[r].line)

LEMMA PolicyStep ==
    ASSUME PolicyAssumption, PolicyInv, PolicyNext
    PROVE  PolicyInv' /\ answers \subseteq answers' /\ Carried
<1>1. CASE \E q \in sent : Sidecar(q)
  BY <1>1, SidecarStep DEF Carried, SameRequest
<1>2. CASE \E m \in Modules : SidecarRevokes(m)
  BY <1>2, RevokeStep DEF Carried, SameRequest
<1>3. CASE \E s \in Slots, a \in answers : Deliver(s, a)
  <2>1. PICK s \in Slots, a \in answers : Deliver(s, a)
    BY <1>3
  <2>2. answers' = answers
    BY <2>1 DEF Deliver
  <2>3. QED
    BY <2>1, <2>2, DeliverStep DEF Carried
<1>4. CASE \E s \in Slots : IpcFails(s) \/ Audit(s) \/ Reply(s) \/ Drop(s)
  <2>1. PICK s \in Slots : IpcFails(s) \/ Audit(s) \/ ReplyTo(s) \/ Drop(s)
    BY <1>4 DEF Reply
  <2>2. QED
    BY <2>1, QuietStep, FreeLine DEF Carried, SameRequest
<1>5. QED
  BY <1>1, <1>2, <1>3, <1>4 DEF PolicyNext

-----------------------------------------------------------------------------
(* The threads and their handlers.                                         *)

\* A POST of the hook is accepted: its handler takes the thread's request.
LEMMA PostAccepted ==
    ASSUME NEW op \in {"event", "authorize"}, NEW m \in Modules
    PROVE  Post(op, m) \in Request /\ Accepted(Post(op, m))
BY DEF Post, Request, Accepted, RoleAllowed, Ops, PatternSets, Roles

\* The other threads keep their handlers, whatever thread c does.
LEMMA FlightStep ==
    ASSUME PolicyTypes, FlightInv, NEW c \in Callers, Nobody \notin Callers,
           \A d \in Callers \ {c} : thr'[d] = thr[d],
           \A r \in Slots : \/ call'[r].who \in {Nobody, c}
                            \/ /\ call'[r].who = call[r].who
                               /\ SameRequest(call'[r].line, call[r].line),
           \A r \in Slots : call'[r].who = c =>
               /\ thr'[c].step \in {"asking", "posting"}
               /\ thr'[c].step = "asking" =>
                    call'[r].line.op = "authorize" /\ call'[r].line.m = thr'[c].m
               /\ \A o \in Slots : call'[o].who = c => o = r
    PROVE  FlightInv'
<1>1. ASSUME NEW s \in Slots, call'[s].who # Nobody, call'[s].who # c
      PROVE  LET d == call'[s].who IN
             /\ thr'[d].step \in {"asking", "posting"}
             /\ thr'[d].step = "asking" =>
                   call'[s].line.op = "authorize" /\ call'[s].line.m = thr'[d].m
             /\ \A r \in Slots : call'[r].who = d => r = s
  <2> DEFINE d == call[s].who
  <2>1. /\ call'[s].who = d /\ SameRequest(call'[s].line, call[s].line)
        /\ d # Nobody /\ d # c /\ d \in Callers
    BY <1>1 DEF PolicyTypes, Handler
  <2>2. /\ thr[d].step \in {"asking", "posting"}
        /\ thr[d].step = "asking" =>
              call[s].line.op = "authorize" /\ call[s].line.m = thr[d].m
        /\ \A r \in Slots : call[r].who = d => r = s
    BY <2>1 DEF FlightInv
  <2>3. thr'[d] = thr[d]
    BY <2>1
  <2>4. \A r \in Slots : call'[r].who = d => call[r].who = d
    BY <2>1
  <2> HIDE DEF d
  <2>5. QED
    BY <2>1, <2>2, <2>3, <2>4 DEF SameRequest
<1>2. QED
  BY <1>1 DEF FlightInv

\* A thread that is not waiting has no handler.
LEMMA NoHandler ==
    ASSUME FlightInv, NEW c \in Callers, Nobody \notin Callers,
           thr[c].step \notin {"asking", "posting"}
    PROVE  \A r \in Slots : call[r].who # c
BY DEF FlightInv

\* The thread posts, or does not get as far as a connection.
LEMMA PostStep ==
    ASSUME PolicyAssumption, PolicyInv, FlightInv, NEW c \in Callers,
           thr[c].step \notin {"asking", "posting"},
           NEW op \in {"event", "authorize"}, NEW m \in Modules,
           (\E s \in Slots : Receive(s, c, Post(op, m))) \/ UNCHANGED policyVars,
           thr \in [Callers -> Thread],
           NEW t, thr' = [thr EXCEPT ![c] = t],
           \/ t.step = "asking" /\ op = "authorize" /\ t.m = m
           \/ t.step = "posting"
    PROVE  PolicyInv' /\ FlightInv' /\ answers' = answers
<1>1. \A r \in Slots : call[r].who # c
  BY NoHandler DEF PolicyAssumption
<1>2. thr'[c] = t /\ \A d \in Callers \ {c} : thr'[d] = thr[d]
  OBVIOUS
<1>3. CASE UNCHANGED policyVars
  <2>1. /\ registry' = registry /\ sent' = sent /\ answers' = answers
        /\ call' = call /\ chain' = chain /\ ids' = ids
    BY <1>3 DEF policyVars
  <2>2. PolicyInv'
    BY <2>1 DEF PolicyInv, PolicyTypes, IdsInv, Lines, SidecarInv, TokensInv, Tokens, StatusInv
  <2>3. FlightInv'
    BY <1>1, <1>2, <2>1, FlightStep DEF PolicyInv, PolicyAssumption, SameRequest
  <2>4. QED
    BY <2>1, <2>2, <2>3
<1>4. CASE \E s \in Slots : Receive(s, c, Post(op, m))
  <2>1. PICK s \in Slots : Receive(s, c, Post(op, m))
    BY <1>4
  <2>2. /\ PolicyInv' /\ call'[s].who = c
        /\ \A r \in Slots \ {s} : call'[r] = call[r]
        /\ call'[s].line.op = op /\ call'[s].line.m = m
    BY <2>1, PostAccepted, ReceiveStep DEF Post
  <2>3. FlightInv'
    <3>1. \A r \in Slots : call'[r].who = c => r = s
      BY <1>1, <2>2
    <3>2. \A r \in Slots : \/ call'[r].who \in {Nobody, c}
                           \/ /\ call'[r].who = call[r].who
                              /\ SameRequest(call'[r].line, call[r].line)
      BY <2>2 DEF SameRequest
    <3>3. QED
      BY <1>2, <2>2, <3>1, <3>2, FlightStep DEF PolicyInv, PolicyAssumption
  <2>4. answers' = answers
    BY <2>1 DEF Receive
  <2>5. QED
    BY <2>2, <2>3, <2>4
<1>5. QED
  BY <1>3, <1>4

\* The wait ends, with a reply or without: the thread has no handler left.
LEMMA WaitEnds ==
    ASSUME PolicyAssumption, PolicyInv, FlightInv, NEW c \in Callers,
           \/ \E s \in Slots : call[s].who = c /\ ReplyTo(s)
           \/ HttpPostFails(c),
           thr \in [Callers -> Thread],
           NEW t, thr' = [thr EXCEPT ![c] = t]
    PROVE  PolicyInv' /\ FlightInv' /\ answers' = answers
<1>0. thr'[c] = t /\ \A d \in Callers \ {c} : thr'[d] = thr[d]
  OBVIOUS
<1>1. CASE HttpPostFails(c)
  <2>1. /\ PolicyInv' /\ answers' = answers
        /\ \A r \in Slots : /\ call'[r].who = IF call[r].who = c THEN Nobody
                                                               ELSE call[r].who
                            /\ call'[r].line = call[r].line
    BY <1>1, AbandonStep
  <2>2. FlightInv'
    BY <1>0, <2>1, FlightStep DEF PolicyInv, PolicyAssumption, SameRequest
  <2>3. QED
    BY <2>1, <2>2
<1>2. CASE \E s \in Slots : call[s].who = c /\ ReplyTo(s)
  <2>1. PICK s \in Slots : call[s].who = c /\ ReplyTo(s)
    BY <1>2
  <2>2. PolicyInv' /\ answers' = answers
    BY <2>1, QuietStep
  <2>3. call' = [call EXCEPT ![s] = Free]
    BY <2>1 DEF ReplyTo
  <2>4. \A r \in Slots : call[r].who = c => r = s
    BY <2>1 DEF FlightInv, PolicyAssumption
  <2>5. \A r \in Slots : call'[r].who # c /\ (call'[r].who = Nobody \/ call'[r] = call[r])
    BY <2>3, <2>4, FreeLine DEF PolicyInv, PolicyTypes, PolicyAssumption
  <2>6. FlightInv'
    BY <1>0, <2>5, FlightStep DEF PolicyInv, PolicyAssumption, SameRequest
  <2>7. QED
    BY <2>2, <2>6
<1>3. QED
  BY <1>1, <1>2

-----------------------------------------------------------------------------
(* The steps of the interpreters.                                          *)

LEMMA IdleType ==
    ASSUME PolicyAssumption
    PROVE  /\ Idle \in Thread /\ Idle.step = "idle" /\ Idle.form = "none"
           /\ \A st \in ThrSteps : /\ [Idle EXCEPT !.step = st] \in Thread
                                   /\ [Idle EXCEPT !.step = st].step = st
                                   /\ [Idle EXCEPT !.step = st].form = "none"
<1>1. (CHOOSE m \in Modules : TRUE) \in Modules
  BY DEF PolicyAssumption
<1>2. Idle \in Thread /\ Idle.step = "idle" /\ Idle.form = "none"
  BY <1>1 DEF Idle, Thread, ThrSteps, Configs, Forms
<1>3. QED
  BY <1>2 DEF Thread

LEMMA HookInitInv ==
    ASSUME PolicyAssumption, HookAssumption, Init
    PROVE  AuditHookInv
<1>1. PolicyInv
  BY PolicyInitInv DEF Init
<1>2. HookTypes
  <2>1. NotInstalled \in Hook
    BY DEF NotInstalled, Hook, Configs
  <2>2. Cardinality(Callers) \in Nat
    BY FS_CardinalityType DEF HookAssumption
  <2>3. MpIdle \in [count: 0..Cardinality(Callers), patched: BOOLEAN,
                    original: BOOLEAN, holder: Callers \cup {Nobody}]
    BY <2>2 DEF MpIdle
  <2>4. QED
    BY <2>1, <2>3, IdleType DEF Init, HookInit, HookTypes, Lives
<1>3. CoverInv /\ MpInv /\ ImportAuthorised
  BY DEF Init, HookInit, CoverInv, NotInstalled, MpInv, MpIdle, ImportAuthorised
<1>4. ThreadInv /\ SpawnInv
  BY IdleType DEF Init, HookInit, ThreadInv, SpawnInv, HookAssumption, Procs
<1>5. FlightInv
  BY FreeLine DEF Init, PolicyInit, FlightInv
<1>6. QED
  BY <1>1, <1>2, <1>3, <1>4, <1>5 DEF AuditHookInv, ProcInv

\* A thread begins to install, in its own right, in the prologue or in
\* _patched_run: a process that has been started.
LEMMA ChecksStep ==
    ASSUME PolicyAssumption, HookAssumption, ProcInv, NEW c \in Callers,
           NEW config \in {"closed", "open"}, life[ProcOf[c]] # "none",
           thr[c].step = "idle", InstallChecks(c, config)
    PROVE  ProcInv'
<1>0. /\ thr \in [Callers -> Thread] /\ thr[c] \in Thread
      /\ thr' = [thr EXCEPT ![c] = [thr[c] EXCEPT !.step = "checked", !.config = config]]
      /\ UNCHANGED <<hook, killSwitch, life, mp, spawns, imports, scope>>
  BY DEF InstallChecks, ProcInv, HookTypes
<1> DEFINE t == [thr[c] EXCEPT !.step = "checked", !.config = config]
<1>1. t \in Thread /\ t.step = "checked" /\ t.config = config /\ t.form = thr[c].form
  BY <1>0 DEF Thread, ThrSteps, Configs
<1>2. thr' = [thr EXCEPT ![c] = t]
  BY <1>0
<1> HIDE DEF t
<1>3. thr' \in [Callers -> Thread] /\ \A d \in Callers : thr'[d] = IF d = c THEN t ELSE thr[d]
  BY <1>0, <1>1, <1>2
<1>4. HookTypes'
  BY <1>0, <1>3, Zenon DEF ProcInv, HookTypes
<1>5. CoverInv' /\ MpInv'
  BY <1>0, Zenon DEF ProcInv, CoverInv, Strict, MpInv
<1>6. ThreadInv'
  BY <1>0, <1>1, <1>3 DEF ProcInv, ThreadInv, Strict
<1>7. SpawnInv'
  BY <1>0, <1>1, <1>3 DEF ProcInv, SpawnInv
<1>8. QED
  BY <1>4, <1>5, <1>6, <1>7 DEF ProcInv

\* The reports of the hook to the kernel, best effort.
LEMMA ReportStep ==
    ASSUME PolicyAssumption, AuditHookInv, NEW c \in Callers,
           thr[c].step \notin {"asking", "posting"},
           PostEvent(c) \/ UNCHANGED policyVars,
           NEW t, thr' = [thr EXCEPT ![c] = t], t.step = "posting"
    PROVE  PolicyInv' /\ FlightInv' /\ answers' = answers
<1>1. PICK m \in Modules :
         (\E s \in Slots : Receive(s, c, Post("event", m))) \/ UNCHANGED policyVars
  BY DEF PostEvent, PolicyAssumption
<1>2. QED
  BY <1>1, PostStep DEF AuditHookInv, ProcInv, HookTypes

\* A step that leaves the kernel alone and takes a thread from one point to
\* another at which it does not wait.
LEMMA ThreadOnly ==
    ASSUME PolicyAssumption, AuditHookInv, NEW c \in Callers,
           thr[c].step \notin {"asking", "posting"},
           UNCHANGED policyVars, NEW t, thr' = [thr EXCEPT ![c] = t] \/ thr' = thr
    PROVE  PolicyInv' /\ FlightInv' /\ answers' = answers
<1>1. /\ registry' = registry /\ sent' = sent /\ answers' = answers
      /\ call' = call /\ chain' = chain /\ ids' = ids
  BY DEF policyVars
<1>2. PolicyInv'
  BY <1>1 DEF AuditHookInv, PolicyInv, PolicyTypes, IdsInv, Lines, SidecarInv,
              TokensInv, Tokens, StatusInv
<1>3. \A r \in Slots : call[r].who # c
  BY NoHandler DEF AuditHookInv, PolicyAssumption
<1>4. \A d \in Callers \ {c} : thr'[d] = thr[d]
  BY DEF AuditHookInv, ProcInv, HookTypes
<1>5. FlightInv'
  BY <1>1, <1>3, <1>4, FlightStep DEF AuditHookInv, PolicyInv, PolicyAssumption, SameRequest
<1>6. QED
  BY <1>1, <1>2, <1>5

LEMMA InstallSuppressedStep ==
    ASSUME PolicyAssumption, HookAssumption, AuditHookInv, NEW c \in Callers,
           InstallSuppressed(c)
    PROVE  AuditHookInv'
<1> DEFINE p == ProcOf[c]
           t == [Idle EXCEPT !.step = "posting"]
           h == hook'[p]
<1>0. /\ p \in Procs /\ thr \in [Callers -> Thread] /\ hook \in [Procs -> Hook]
      /\ thr[c] \in Thread /\ hook[p] \in Hook /\ thr[c].step = "checked"
  BY DEF AuditHookInv, ProcInv, HookTypes, HookAssumption, InstallSuppressed
<1>1. /\ thr' = [thr EXCEPT ![c] = t]
      /\ hook' = [hook EXCEPT ![p].config = thr[c].config, ![p].armed = FALSE,
                              ![p].lax = TRUE]
      /\ UNCHANGED <<killSwitch, life, mp, spawns, imports, scope>>
      /\ PostEvent(c) \/ UNCHANGED policyVars
  BY DEF InstallSuppressed
<1>2. t \in Thread /\ t.step = "posting" /\ t.form = "none"
  BY IdleType DEF ThrSteps
<1> HIDE DEF t
<1>3. PolicyInv' /\ FlightInv' /\ answers' = answers
  BY <1>0, <1>1, <1>2, ReportStep
<1>4. h \in Hook /\ h.lax /\ h.config = thr[c].config
  BY <1>0, <1>1 DEF Hook, Thread
<1>5. hook' = [hook EXCEPT ![p] = h]
  BY <1>0, <1>1
<1> HIDE DEF h
<1>6. /\ hook' \in [Procs -> Hook]
      /\ \A q \in Procs : hook'[q] = IF q = p THEN h ELSE hook[q]
  BY <1>0, <1>4, <1>5
<1>7. thr' \in [Callers -> Thread] /\ \A d \in Callers : thr'[d] = IF d = c THEN t ELSE thr[d]
  BY <1>0, <1>1, <1>2
<1>8. HookTypes'
  BY <1>1, <1>6, <1>7, Zenon DEF AuditHookInv, ProcInv, HookTypes
<1>9. CoverInv'
  BY <1>1, <1>4, <1>6 DEF AuditHookInv, ProcInv, CoverInv, Strict
<1>10. ThreadInv'
  BY <1>0, <1>2, <1>4, <1>6, <1>7 DEF AuditHookInv, ProcInv, ThreadInv, Strict, HookAssumption
<1>11. SpawnInv'
  BY <1>0, <1>1, <1>2, <1>7 DEF AuditHookInv, ProcInv, SpawnInv
<1>12. MpInv' /\ ImportAuthorised'
  BY <1>1, <1>3, Zenon DEF AuditHookInv, ProcInv, MpInv, ImportAuthorised
<1>13. QED
  BY <1>3, <1>8, <1>9, <1>10, <1>11, <1>12 DEF AuditHookInv, ProcInv

LEMMA InstallConfiguresStep ==
    ASSUME PolicyAssumption, HookAssumption, AuditHookInv, NEW c \in Callers,
           InstallConfigures(c)
    PROVE  AuditHookInv'
<1> DEFINE p == ProcOf[c]
           t == [thr[c] EXCEPT !.step = "configured"]
           h == hook'[p]
<1>0. /\ p \in Procs /\ thr \in [Callers -> Thread] /\ hook \in [Procs -> Hook]
      /\ thr[c] \in Thread /\ hook[p] \in Hook /\ thr[c].step = "checked"
      /\ thr[c].config # "none" /\ thr[c].form = "none"
  BY DEF AuditHookInv, ProcInv, HookTypes, HookAssumption, InstallConfigures, ThreadInv,
         SpawnInv
<1>1. /\ thr' = [thr EXCEPT ![c] = t]
      /\ hook' = [hook EXCEPT ![p].config = thr[c].config,
                              ![p].lax = @ \/ thr[c].config = "open"]
      /\ UNCHANGED <<policyVars, killSwitch, life, mp, spawns, imports, scope>>
  BY <1>0 DEF InstallConfigures
<1>2. t \in Thread /\ t.step = "configured" /\ t.form = "none"
  BY <1>0 DEF Thread, ThrSteps
<1> HIDE DEF t
<1>3. PolicyInv' /\ FlightInv' /\ answers' = answers
  BY <1>0, <1>1, ThreadOnly
<1>4. /\ h \in Hook /\ h.config = thr[c].config /\ h.hooked = hook[p].hooked
      /\ h.armed = hook[p].armed /\ h.covered = hook[p].covered
      /\ h.lax <=> hook[p].lax \/ thr[c].config = "open"
  BY <1>0, <1>1 DEF Hook, Thread
<1>5. hook' = [hook EXCEPT ![p] = h]
  BY <1>0, <1>1
<1> HIDE DEF h
<1>6. /\ hook' \in [Procs -> Hook]
      /\ \A q \in Procs : hook'[q] = IF q = p THEN h ELSE hook[q]
  BY <1>0, <1>4, <1>5
<1>7. thr' \in [Callers -> Thread] /\ \A d \in Callers : thr'[d] = IF d = c THEN t ELSE thr[d]
  BY <1>0, <1>1, <1>2
<1>14. \A q \in Procs : (Strict(q) => Strict(q)') /\ (hook[q].lax => hook'[q].lax)
  BY <1>0, <1>4, <1>6 DEF Strict, Thread, Configs
<1>8. HookTypes'
  BY <1>1, <1>6, <1>7, Zenon DEF AuditHookInv, ProcInv, HookTypes
<1>9. CoverInv'
  BY <1>1, <1>4, <1>6, <1>14 DEF AuditHookInv, ProcInv, CoverInv
<1>10. ThreadInv'
  BY <1>0, <1>2, <1>4, <1>6, <1>7, <1>14 DEF AuditHookInv, ProcInv, ThreadInv, HookAssumption
<1>11. SpawnInv'
  BY <1>0, <1>1, <1>2, <1>7 DEF AuditHookInv, ProcInv, SpawnInv
<1>12. MpInv' /\ ImportAuthorised'
  BY <1>1, <1>3, Zenon DEF AuditHookInv, ProcInv, MpInv, ImportAuthorised
<1>13. QED
  BY <1>3, <1>8, <1>9, <1>10, <1>11, <1>12 DEF AuditHookInv, ProcInv

\* The life of a child goes on only once its hook is strict.
LEMMA InstallArmsStep ==
    ASSUME PolicyAssumption, HookAssumption, AuditHookInv, NEW c \in Callers,
           InstallArms(c)
    PROVE  AuditHookInv'
<1> DEFINE p == ProcOf[c]
           h == hook'[p]
<1>0. /\ p \in Procs /\ thr \in [Callers -> Thread] /\ hook \in [Procs -> Hook]
      /\ thr[c] \in Thread /\ hook[p] \in Hook /\ thr[c].step = "configured"
      /\ hook[p].config # "none" /\ life \in [Procs -> Lives]
  BY DEF AuditHookInv, ProcInv, HookTypes, HookAssumption, InstallArms, ThreadInv
<1>1. /\ hook' = [hook EXCEPT ![p].hooked = TRUE, ![p].armed = TRUE, ![p].covered = TRUE]
      /\ UNCHANGED <<killSwitch, mp, spawns, imports, scope>>
  BY DEF InstallArms
<1>2. PICK t \in Thread :
        /\ thr' = [thr EXCEPT ![c] = t] /\ t.step \in {"posting", "idle"} /\ t.form = "none"
        /\ PolicyInv' /\ FlightInv' /\ answers' = answers
        /\ life' = life \/ (t.step = "idle" /\ life' = [life EXCEPT ![p] = Returned(p)])
  <2>1. CASE /\ thr' = [thr EXCEPT ![c] = [Idle EXCEPT !.step = "posting"]]
             /\ PostEvent(c) /\ UNCHANGED life
    <3> DEFINE t == [Idle EXCEPT !.step = "posting"]
    <3>1. t \in Thread /\ t.step = "posting" /\ t.form = "none"
      BY IdleType DEF ThrSteps
    <3> HIDE DEF t
    <3>2. thr' = [thr EXCEPT ![c] = t]
      BY <2>1 DEF t
    <3>3. PolicyInv' /\ FlightInv' /\ answers' = answers
      BY <1>0, <2>1, <3>1, <3>2, ReportStep
    <3>4. QED
      BY <2>1, <3>1, <3>2, <3>3
  <2>2. CASE /\ thr' = [thr EXCEPT ![c] = Idle]
             /\ life' = [life EXCEPT ![p] = Returned(p)]
             /\ UNCHANGED policyVars
    BY <1>0, <2>2, ThreadOnly, IdleType
  <2>3. QED
    BY <2>1, <2>2 DEF InstallArms
<1>3. h \in Hook /\ h.config = hook[p].config /\ h.hooked /\ h.armed /\ h.lax = hook[p].lax
  BY <1>0, <1>1 DEF Hook
<1>4. hook' = [hook EXCEPT ![p] = h]
  BY <1>0, <1>1
<1> HIDE DEF h
<1>5. /\ hook' \in [Procs -> Hook]
      /\ \A q \in Procs : hook'[q] = IF q = p THEN h ELSE hook[q]
  BY <1>0, <1>3, <1>4
<1>6. thr' \in [Callers -> Thread] /\ \A d \in Callers : thr'[d] = IF d = c THEN t ELSE thr[d]
  BY <1>0, <1>2
<1>7. hook[p].config = "open" => hook[p].lax
  BY <1>0 DEF AuditHookInv, ProcInv, CoverInv
<1>8. /\ Strict(p)'
      /\ \A q \in Procs : (Strict(q) => Strict(q)') /\ (hook[q].lax => hook'[q].lax)
  <2>1. h.lax \/ h.config = "closed"
    BY <1>0, <1>3, <1>7 DEF Hook, Configs
  <2>2. \A q \in Procs : q = p => Strict(q)'
    BY <1>0, <1>3, <1>5, <2>1 DEF Strict
  <2>3. \A q \in Procs : (Strict(q) => Strict(q)') /\ (hook[q].lax => hook'[q].lax)
    BY <1>3, <1>5, <2>2 DEF Strict
  <2>4. QED
    BY <1>0, <2>2, <2>3
<1>9. Returned(p) \in Lives /\ (life[p] # "none" <=> Returned(p) # "none")
      /\ (life[p] # "lost" => Returned(p) # "lost")
  BY <1>0 DEF Returned, Lives
<1>10. HookTypes'
  <2>1. life' \in [Procs -> Lives]
    BY <1>0, <1>2, <1>9
  <2>2. QED
    BY <1>1, <1>5, <1>6, <2>1, Zenon DEF AuditHookInv, ProcInv, HookTypes
<1>11. \A q \in Procs : life'[q] = life[q] \/ (q = p /\ life'[q] = Returned(p))
  BY <1>0, <1>2
<1>12. CoverInv'
  <2>1. ASSUME NEW q \in Procs
        PROVE  /\ hook'[q].config = "open" => hook'[q].lax
               /\ hook'[q].covered /\ life'[q] \in {"user", "mprun"} => Strict(q)'
               /\ life'[q] # "lost"
    <3>1. CASE q = p
      BY <1>0, <1>3, <1>5, <1>7, <1>8, <1>9, <1>11, <3>1 DEF AuditHookInv, ProcInv, CoverInv
    <3>2. CASE q # p
      BY <1>5, <1>8, <1>11, <3>2 DEF AuditHookInv, ProcInv, CoverInv
    <3>3. QED
      BY <3>1, <3>2
  <2>2. QED
    BY <2>1 DEF CoverInv
<1>13. ThreadInv'
  <2>1. ASSUME NEW d \in Callers
        PROVE  /\ thr'[d].step = "checked" => thr'[d].config # "none"
               /\ thr'[d].step = "configured" => hook'[ProcOf[d]].config # "none"
               /\ thr'[d].step = "posting" /\ thr'[d].form = "none" => Strict(ProcOf[d])'
               /\ thr'[d].step = "asking" =>
                    thr'[d].config = "closed" \/ hook'[ProcOf[d]].lax
    <3>1. CASE d = c
      BY <1>2, <1>6, <1>8, <3>1
    <3>2. CASE d # c
      <4>1. thr'[d] = thr[d] /\ ProcOf[d] \in Procs
        BY <1>6, <3>2 DEF HookAssumption
      <4>2. QED
        BY <1>3, <1>5, <1>8, <4>1 DEF AuditHookInv, ProcInv, ThreadInv
    <3>3. QED
      BY <3>1, <3>2
  <2>2. QED
    BY <2>1 DEF ThreadInv
<1>14. SpawnInv'
  BY <1>0, <1>1, <1>2, <1>6, <1>9, <1>11 DEF AuditHookInv, ProcInv, SpawnInv, Procs
<1>15. MpInv' /\ ImportAuthorised'
  BY <1>1, <1>2, Zenon DEF AuditHookInv, ProcInv, MpInv, ImportAuthorised
<1>16. QED
  BY <1>2, <1>10, <1>12, <1>13, <1>14, <1>15 DEF AuditHookInv, ProcInv

\* The child is started: its code runs uncovered, or not before the prologue.
LEMMA PopenStep ==
    ASSUME PolicyAssumption, HookAssumption, ProcInv, NEW form \in Forms, Popen(form),
           life[Child] = "none", thr' \in [Callers -> Thread],
           \A d \in Callers : thr'[d] = thr[d] \/ thr'[d] = Idle,
           \A d \in Callers : thr'[d].form = "none",
           spawns' = 1, UNCHANGED <<mp, imports, scope>>
    PROVE  ProcInv'
<1> DEFINE h == hook'[Child]
<1>0. /\ hook \in [Procs -> Hook] /\ Child \in Procs /\ hook[Child] \in Hook
      /\ life \in [Procs -> Lives] /\ killSwitch \in [Procs -> BOOLEAN]
      /\ scope \in Scope
  BY DEF ProcInv, HookTypes, Procs, HookAssumption
<1> DEFINE b == form \in Propagated
<1>a. b \in BOOLEAN /\ (b => form \in Propagated)
  BY DEF Propagated
<1>1. hook' = [hook EXCEPT ![Child].covered = b]
  BY DEF Popen
<1> HIDE DEF b
<1>2. /\ h \in Hook /\ h.config = hook[Child].config /\ h.armed = hook[Child].armed
      /\ h.hooked = hook[Child].hooked /\ h.lax = hook[Child].lax
      /\ h.covered => form \in Propagated
  BY <1>0, <1>1, <1>a DEF Hook
<1>3. hook' = [hook EXCEPT ![Child] = h]
  BY <1>0, <1>1
<1> HIDE DEF h
<1>4. /\ hook' \in [Procs -> Hook]
      /\ \A q \in Procs : hook'[q] = IF q = Child THEN h ELSE hook[q]
  BY <1>0, <1>2, <1>3
<1>5. PICK l \in Lives : /\ life' = [life EXCEPT ![Child] = l] /\ l # "lost"
                         /\ form \in Propagated => l \notin {"user", "mprun"}
  BY DEF Popen, StartsAs, PythonRuns, InjectPythonPrologue, Propagated, Forms, Lives
<1>6. /\ life' \in [Procs -> Lives]
      /\ \A q \in Procs : life'[q] = IF q = Child THEN l ELSE life[q]
  BY <1>0, <1>5
<1>7. killSwitch' \in [Procs -> BOOLEAN]
  <2>1. PICK on \in {killSwitch[Parent], scope.killSwitch} :
           killSwitch' = [killSwitch EXCEPT ![Child] = on]
    BY DEF Popen
  <2>2. on \in BOOLEAN
    BY <1>0, <2>1 DEF Scope, Procs
  <2>3. QED
    BY <1>0, <2>1, <2>2
<1>8. \A q \in Procs : /\ Strict(q) => Strict(q)'
                       /\ hook'[q].lax = hook[q].lax
                       /\ hook'[q].config = hook[q].config
  BY <1>2, <1>4 DEF Strict
<1>9. HookTypes'
  <2>1. spawns' \in 0..1
    OBVIOUS
  <2>2. QED
    BY <1>4, <1>6, <1>7, <2>1, Zenon DEF ProcInv, HookTypes
<1>10. CoverInv'
  BY <1>2, <1>4, <1>5, <1>6, <1>8 DEF ProcInv, CoverInv
<1>11. ThreadInv'
  BY <1>8, IdleType DEF ProcInv, ThreadInv, HookAssumption
<1>12. SpawnInv'
  BY IdleType DEF ProcInv, SpawnInv
<1>13. MpInv'
  BY Zenon DEF ProcInv, MpInv
<1>14. QED
  BY <1>9, <1>10, <1>11, <1>12, <1>13 DEF ProcInv

LEMMA PostEndsStep ==
    ASSUME PolicyAssumption, HookAssumption, AuditHookInv, NEW c \in Callers,
           PostEnds(c)
    PROVE  AuditHookInv'
<1> DEFINE p == ProcOf[c]
<1>0. /\ p \in Procs /\ thr \in [Callers -> Thread] /\ thr[c] \in Thread
      /\ thr[c].step = "posting" /\ life \in [Procs -> Lives]
      /\ thr' = [thr EXCEPT ![c] = Idle] /\ UNCHANGED <<mp, spawns, imports, scope>>
  BY DEF AuditHookInv, ProcInv, HookTypes, HookAssumption, PostEnds
<1>1. PolicyInv' /\ FlightInv' /\ answers' = answers
  <2>1. \/ \E s \in Slots : call[s].who = c /\ ReplyTo(s)
        \/ HttpPostFails(c)
    BY DEF PostEnds
  <2>2. QED
    BY <1>0, <2>1, WaitEnds DEF AuditHookInv
<1>2. /\ thr' \in [Callers -> Thread]
      /\ \A d \in Callers : thr'[d] = IF d = c THEN Idle ELSE thr[d]
  BY <1>0, IdleType
<1>3. ImportAuthorised'
  BY <1>0, <1>1 DEF AuditHookInv, ImportAuthorised
<1>4. ProcInv'
  <2>1. CASE thr[c].form # "none"
    <3>1. /\ spawns = 1 /\ life[Child] = "none" /\ thr[c].form \in Forms
          /\ \A d \in Callers : thr[d].form # "none" => d = c
      BY <1>0, <2>1 DEF AuditHookInv, ProcInv, SpawnInv, Thread
    <3>2. Popen(thr[c].form)
      BY <2>1 DEF PostEnds
    <3>3. \A d \in Callers : thr'[d].form = "none"
      BY <1>2, <3>1, IdleType
    <3>4. \A d \in Callers : thr'[d] = thr[d] \/ thr'[d] = Idle
      BY <1>2
    <3>5. QED
      BY <1>0, <1>2, <3>1, <3>2, <3>3, <3>4, PopenStep DEF AuditHookInv
  <2>2. CASE thr[c].form = "none"
    <3>1. life' = [life EXCEPT ![p] = Returned(p)] /\ UNCHANGED <<hook, killSwitch>>
      BY <2>2 DEF PostEnds
    <3>2. /\ Returned(p) \in Lives /\ (life[p] # "none" <=> Returned(p) # "none")
          /\ (life[p] # "lost" => Returned(p) # "lost")
      BY <1>0 DEF Returned, Lives
    <3>3. /\ life' \in [Procs -> Lives]
          /\ \A q \in Procs : life'[q] = IF q = p THEN Returned(p) ELSE life[q]
      BY <1>0, <3>1, <3>2
    <3>4. Strict(p)
      BY <1>0, <2>2 DEF AuditHookInv, ProcInv, ThreadInv
    <3>5. HookTypes'
      BY <1>0, <1>2, <3>1, <3>3, Zenon DEF AuditHookInv, ProcInv, HookTypes
    <3>6. CoverInv'
      BY <3>1, <3>2, <3>3, <3>4 DEF AuditHookInv, ProcInv, CoverInv, Strict
    <3>7. ThreadInv'
      BY <1>2, <3>1, IdleType DEF AuditHookInv, ProcInv, ThreadInv, Strict
    <3>8. SpawnInv'
      BY <1>0, <1>2, <3>2, <3>3, IdleType DEF AuditHookInv, ProcInv, SpawnInv, Procs
    <3>9. MpInv'
      BY <1>0, Zenon DEF AuditHookInv, ProcInv, MpInv
    <3>10. QED
      BY <3>5, <3>6, <3>7, <3>8, <3>9 DEF ProcInv
  <2>3. QED
    BY <2>1, <2>2
<1>5. QED
  BY <1>1, <1>3, <1>4 DEF AuditHookInv

LEMMA WrapStep ==
    ASSUME PolicyAssumption, HookAssumption, AuditHookInv, NEW c \in Callers,
           NEW form \in Forms, NEW stripped \in BOOLEAN,
           WrapSubprocess(c, form, stripped)
    PROVE  AuditHookInv'
<1>0. /\ thr \in [Callers -> Thread] /\ thr[c] \in Thread /\ thr[c].step = "idle"
      /\ ProcOf[c] = Parent /\ spawns = 0 /\ spawns' = 1
      /\ UNCHANGED <<mp, imports, scope>>
  <2>1. spawns \in 0..1 /\ scope \in Scope
    BY DEF AuditHookInv, ProcInv, HookTypes, HookAssumption
  <2>2. spawns < scope.spawns /\ scope.spawns \in {0, 1}
    BY <2>1 DEF WrapSubprocess, Scope
  <2>3. QED
    BY <2>1, <2>2 DEF AuditHookInv, ProcInv, HookTypes, WrapSubprocess, Running
<1>1. /\ life[Child] = "none" /\ \A d \in Callers : thr[d].form = "none"
  BY <1>0 DEF AuditHookInv, ProcInv, SpawnInv
<1>2. CASE /\ thr' = [thr EXCEPT ![c] = [Idle EXCEPT !.step = "posting", !.form = form]]
           /\ PostEvent(c) \/ UNCHANGED policyVars
           /\ UNCHANGED <<hook, killSwitch, life>>
  <2> DEFINE t == [Idle EXCEPT !.step = "posting", !.form = form]
  <2>1. t \in Thread /\ t.step = "posting" /\ t.form = form /\ form # "none"
    BY IdleType DEF Thread, ThrSteps, Forms
  <2> HIDE DEF t
  <2>2. thr' = [thr EXCEPT ![c] = t]
    BY <1>2 DEF t
  <2>3. PolicyInv' /\ FlightInv' /\ answers' = answers
    BY <1>0, <1>2, <2>1, <2>2, ReportStep
  <2>4. thr' \in [Callers -> Thread] /\ \A d \in Callers : thr'[d] = IF d = c THEN t ELSE thr[d]
    BY <1>0, <2>1, <2>2
  <2>5. HookTypes'
    <3>1. spawns' \in 0..1
      BY <1>0
    <3>2. QED
      BY <1>0, <1>2, <2>4, <3>1, Zenon DEF AuditHookInv, ProcInv, HookTypes
  <2>6. CoverInv' /\ MpInv' /\ ImportAuthorised'
    BY <1>0, <1>2, <2>3, Zenon DEF AuditHookInv, ProcInv, CoverInv, Strict, MpInv, ImportAuthorised
  <2>7. ThreadInv'
    BY <1>2, <2>1, <2>4 DEF AuditHookInv, ProcInv, ThreadInv, Strict
  <2>8. SpawnInv'
    BY <1>0, <1>1, <1>2, <2>1, <2>4 DEF AuditHookInv, ProcInv, SpawnInv, HookAssumption
  <2>9. QED
    BY <2>3, <2>5, <2>6, <2>7, <2>8 DEF AuditHookInv, ProcInv
<1>3. CASE Popen(form) /\ UNCHANGED <<policyVars, thr>>
  <2>1. PolicyInv' /\ FlightInv' /\ answers' = answers
    BY <1>0, <1>3, ThreadOnly
  <2>2. ProcInv'
    BY <1>0, <1>1, <1>3, PopenStep DEF AuditHookInv
  <2>3. ImportAuthorised'
    BY <1>0, <2>1 DEF AuditHookInv, ImportAuthorised
  <2>4. QED
    BY <2>1, <2>2, <2>3 DEF AuditHookInv
<1>4. QED
  BY <1>2, <1>3 DEF WrapSubprocess

LEMMA ProcStutter ==
    ASSUME ProcInv, UNCHANGED hookVars
    PROVE  ProcInv'
<1>1. HookTypes'
  BY Zenon DEF ProcInv, HookTypes, hookVars
<1>2. CoverInv' /\ ThreadInv'
  BY Zenon DEF ProcInv, CoverInv, ThreadInv, Strict, hookVars
<1>3. SpawnInv' /\ MpInv'
  BY Zenon DEF ProcInv, SpawnInv, MpInv, hookVars
<1>4. QED
  BY <1>1, <1>2, <1>3 DEF ProcInv

\* In a process that counts on the hook every event is forwarded and fails
\* closed, so nothing goes through unasked.
LEMMA EventPassesStep ==
    ASSUME PolicyAssumption, HookAssumption, AuditHookInv, NEW c \in Callers,
           NEW m \in Modules, EventPasses(c, m)
    PROVE  AuditHookInv'
<1> DEFINE p == ProcOf[c]
<1>1. p \in Procs /\ life[p] = "user" /\ thr[c].step = "idle" /\ ~Forwards(c)
  BY DEF EventPasses, Running, HookAssumption
<1>2. ~(hook[p].covered /\ ~hook[p].lax)
  BY <1>1 DEF AuditHookInv, ProcInv, CoverInv, Strict, Forwards, InHookGuard
<1>3. imports' = imports
  BY <1>2 DEF EventPasses, GoesThrough
<1>4. UNCHANGED <<policyVars, hook, killSwitch, life, thr, mp, spawns, scope>>
  BY DEF EventPasses
<1>5. PolicyInv' /\ FlightInv' /\ answers' = answers
  BY <1>1, <1>4, ThreadOnly
<1>6. ProcInv'
  BY <1>3, <1>4, ProcStutter DEF AuditHookInv, hookVars
<1>7. ImportAuthorised'
  BY <1>3, <1>5 DEF AuditHookInv, ImportAuthorised
<1>8. QED
  BY <1>5, <1>6, <1>7 DEF AuditHookInv

LEMMA EventAsksStep ==
    ASSUME PolicyAssumption, HookAssumption, AuditHookInv, NEW c \in Callers,
           NEW m \in Modules, EventAsks(c, m)
    PROVE  AuditHookInv'
<1> DEFINE p == ProcOf[c]
           t == [Idle EXCEPT !.step = "asking", !.m = m, !.config = hook[p].config]
<1>0. /\ p \in Procs /\ thr \in [Callers -> Thread] /\ hook[p] \in Hook
      /\ life[p] = "user" /\ thr[c].step = "idle" /\ Forwards(c)
      /\ UNCHANGED <<hook, killSwitch, life, mp, spawns, imports, scope>>
  BY DEF EventAsks, Running, HookAssumption, AuditHookInv, ProcInv, HookTypes
<1>1. thr' = [thr EXCEPT ![c] = t]
  BY DEF EventAsks
<1>2. /\ t \in Thread /\ t.step = "asking" /\ t.m = m /\ t.config = hook[p].config
      /\ t.form = "none"
  BY <1>0, IdleType DEF Thread, ThrSteps, Hook
<1> HIDE DEF t
<1>3. PolicyInv' /\ FlightInv' /\ answers' = answers
  <2>1. (\E s \in Slots : Receive(s, c, Post("authorize", m))) \/ UNCHANGED policyVars
    BY DEF EventAsks
  <2>2. QED
    BY <1>0, <1>1, <1>2, <2>1, PostStep DEF AuditHookInv
<1>4. thr' \in [Callers -> Thread] /\ \A d \in Callers : thr'[d] = IF d = c THEN t ELSE thr[d]
  BY <1>0, <1>1, <1>2
<1>5. t.config = "closed" \/ hook[p].lax
  BY <1>0, <1>2 DEF Forwards, AuditHookInv, ProcInv, CoverInv, Hook, Configs
<1>6. HookTypes'
  BY <1>0, <1>4, Zenon DEF AuditHookInv, ProcInv, HookTypes
<1>7. CoverInv' /\ MpInv' /\ ImportAuthorised'
  BY <1>0, <1>3, Zenon DEF AuditHookInv, ProcInv, CoverInv, Strict, MpInv, ImportAuthorised
<1>8. ThreadInv'
  BY <1>0, <1>2, <1>4, <1>5 DEF AuditHookInv, ProcInv, ThreadInv, Strict
<1>9. SpawnInv'
  BY <1>0, <1>2, <1>4 DEF AuditHookInv, ProcInv, SpawnInv
<1>10. QED
  BY <1>3, <1>6, <1>7, <1>8, <1>9 DEF AuditHookInv, ProcInv

\* A thread is done with its event.
LEMMA EventDone ==
    ASSUME PolicyAssumption, HookAssumption, ProcInv, NEW c \in Callers,
           thr' = [thr EXCEPT ![c] = Idle],
           thr[c].step = "asking",
           UNCHANGED <<hook, killSwitch, life, mp, spawns, scope>>,
           imports' \subseteq [m: Modules, id: 0..MaxIds]
    PROVE  ProcInv'
<1>1. /\ thr' \in [Callers -> Thread]
      /\ \A d \in Callers : thr'[d] = IF d = c THEN Idle ELSE thr[d]
  BY IdleType DEF ProcInv, HookTypes
<1>2. HookTypes'
  BY <1>1, Zenon DEF ProcInv, HookTypes
<1>3. CoverInv' /\ MpInv'
  BY Zenon DEF ProcInv, CoverInv, Strict, MpInv
<1>4. ThreadInv' /\ SpawnInv'
  BY <1>1, IdleType DEF ProcInv, ThreadInv, Strict, SpawnInv
<1>5. QED
  BY <1>2, <1>3, <1>4 DEF ProcInv

\* A 200 is the sidecar's allow of this thread's own request.
LEMMA EventAnsweredStep ==
    ASSUME PolicyAssumption, HookAssumption, AuditHookInv, NEW c \in Callers,
           EventAnswered(c)
    PROVE  AuditHookInv'
<1>1. PICK s \in Slots :
        /\ call[s].who = c /\ ReplyTo(s)
        /\ IF call[s].status = 200 THEN GoesThrough(c, thr[c].m, call[s].line.id)
                                   ELSE UNCHANGED imports
  BY DEF EventAnswered
<1>2. /\ thr[c].step = "asking" /\ thr' = [thr EXCEPT ![c] = Idle]
      /\ UNCHANGED <<hook, killSwitch, life, mp, spawns, scope>>
      /\ thr \in [Callers -> Thread] /\ thr[c].m \in Modules
  BY DEF EventAnswered, AuditHookInv, ProcInv, HookTypes, Thread
<1>3. PolicyInv' /\ FlightInv' /\ answers' = answers
  BY <1>1, <1>2, WaitEnds DEF AuditHookInv
<1>4. /\ call[s].line.op = "authorize" /\ call[s].line.m = thr[c].m
      /\ call[s].line \in Line
  BY <1>1, <1>2 DEF AuditHookInv, FlightInv, PolicyInv, PolicyTypes, Handler, PolicyAssumption
<1>5. call[s].status = 200 => call[s].line \in answers /\ call[s].line.verdict = "allow"
  <2>1. call[s].status = 200 => call[s].line.verdict = "allow"
    BY <1>4 DEF AuditHookInv, PolicyInv, StatusInv
  <2>2. call[s].line.verdict = "allow" => call[s].line \in Tokens
    BY DEF Tokens, Signed
  <2>3. QED
    BY <2>1, <2>2 DEF AuditHookInv, PolicyInv, TokensInv
<1>6. \A i \in imports' : i \in imports
         \/ (call[s].status = 200 /\ i = [m |-> thr[c].m, id |-> call[s].line.id])
  BY <1>1 DEF GoesThrough
<1>7. imports' \subseteq [m: Modules, id: 0..MaxIds]
  BY <1>2, <1>4, <1>6 DEF AuditHookInv, ProcInv, HookTypes, Line
<1>8. ProcInv'
  BY <1>2, <1>7, EventDone DEF AuditHookInv
<1>9. ImportAuthorised'
  <2>1. ASSUME NEW i \in imports'
        PROVE  \E a \in answers : a.id = i.id /\ a.op = "authorize" /\ a.m = i.m
                                    /\ a.verdict = "allow"
    <3>1. CASE i \in imports
      BY <3>1 DEF AuditHookInv, ImportAuthorised
    <3>2. CASE call[s].status = 200 /\ i = [m |-> thr[c].m, id |-> call[s].line.id]
      <4>1. i.m = call[s].line.m /\ i.id = call[s].line.id
        BY <1>4, <3>2
      <4>2. QED
        BY <1>4, <1>5, <3>2, <4>1
    <3>3. QED
      BY <1>6, <3>1, <3>2
  <2>2. QED
    BY <1>3, <2>1 DEF ImportAuthorised
<1>10. QED
  BY <1>3, <1>8, <1>9 DEF AuditHookInv

LEMMA EventUnavailableStep ==
    ASSUME PolicyAssumption, HookAssumption, AuditHookInv, NEW c \in Callers,
           EventUnavailable(c)
    PROVE  AuditHookInv'
<1>1. /\ thr[c].step = "asking" /\ thr' = [thr EXCEPT ![c] = Idle]
      /\ UNCHANGED <<hook, killSwitch, life, mp, spawns, scope>>
      /\ HttpPostFails(c) /\ thr \in [Callers -> Thread]
  BY DEF EventUnavailable, AuditHookInv, ProcInv, HookTypes
<1>2. PolicyInv' /\ FlightInv' /\ answers' = answers
  BY <1>1, WaitEnds DEF AuditHookInv
<1>3. thr[c].config = "closed" \/ hook[ProcOf[c]].lax
  BY <1>1 DEF AuditHookInv, ProcInv, ThreadInv
<1>4. imports' = imports
  BY <1>3 DEF EventUnavailable, GoesThrough
<1>5. ProcInv'
  BY <1>1, <1>4, EventDone DEF AuditHookInv, ProcInv, HookTypes
<1>6. ImportAuthorised'
  BY <1>2, <1>4 DEF AuditHookInv, ImportAuthorised
<1>7. QED
  BY <1>2, <1>5, <1>6 DEF AuditHookInv

\* Installations that begin, and _patched_run, which may find the hook armed.
LEMMA BeginStep ==
    ASSUME PolicyAssumption, HookAssumption, AuditHookInv, NEW c \in Callers,
           \/ \E config \in {"closed", "open"} : InstallBegin(c, config)
           \/ Prologue(c) \/ PatchedRun(c)
    PROVE  AuditHookInv'
<1> DEFINE p == ProcOf[c]
<1>0. /\ p \in Procs /\ thr[c].step = "idle" /\ life[p] # "none" /\ hook[p] \in Hook
      /\ life \in [Procs -> Lives] /\ thr \in [Callers -> Thread]
  BY DEF InstallBegin, Running, Prologue, PatchedRun, HookAssumption, AuditHookInv,
         ProcInv, HookTypes
<1>1. CASE \E config \in {"closed", "open"} : InstallChecks(c, config)
  <2>1. PICK config \in {"closed", "open"} : InstallChecks(c, config)
    BY <1>1
  <2>2. ProcInv'
    BY <1>0, <2>1, ChecksStep DEF AuditHookInv
  <2> DEFINE t == [thr[c] EXCEPT !.step = "checked", !.config = config]
  <2>3. thr' = [thr EXCEPT ![c] = t]
    BY <1>0, <2>1 DEF InstallChecks
  <2> HIDE DEF t
  <2>4. UNCHANGED policyVars /\ imports' = imports
    BY <2>1 DEF InstallChecks
  <2>5. PolicyInv' /\ FlightInv' /\ answers' = answers
    BY <1>0, <2>3, <2>4, ThreadOnly
  <2>6. QED
    BY <2>2, <2>4, <2>5 DEF AuditHookInv, ImportAuthorised
<1>2. CASE /\ PatchedRun(c) /\ life' = [life EXCEPT ![p] = "user"]
           /\ UNCHANGED <<policyVars, hook, killSwitch, thr, mp, spawns, imports, scope>>
  <2>1. life[p] = "mprun"
    BY <1>2 DEF PatchedRun
  <2>2. /\ life' \in [Procs -> Lives]
        /\ \A q \in Procs : life'[q] = IF q = p THEN "user" ELSE life[q]
    BY <1>0, <1>2 DEF Lives
  <2>3. PolicyInv' /\ FlightInv' /\ answers' = answers
    BY <1>0, <1>2, ThreadOnly
  <2>4. HookTypes'
    BY <1>2, <2>2, Zenon DEF AuditHookInv, ProcInv, HookTypes
  <2>5. CoverInv'
    BY <1>2, <2>1, <2>2 DEF AuditHookInv, ProcInv, CoverInv, Strict
  <2>6. ThreadInv' /\ MpInv' /\ ImportAuthorised'
    BY <1>2, <2>3, Zenon DEF AuditHookInv, ProcInv, ThreadInv, Strict, MpInv, ImportAuthorised
  <2>7. SpawnInv'
    BY <1>2, <2>1, <2>2 DEF AuditHookInv, ProcInv, SpawnInv, Procs
  <2>8. QED
    BY <2>3, <2>4, <2>5, <2>6, <2>7 DEF AuditHookInv, ProcInv
<1>3. QED
  <2>1. CASE PatchedRun(c) /\ hook[p].config # "none" /\ ~hook[p].armed
    <3>1. hook[p].config \in {"closed", "open"}
      BY <1>0, <2>1 DEF Hook, Configs
    <3>2. InstallChecks(c, hook[p].config)
      BY <2>1 DEF PatchedRun
    <3>3. QED
      BY <1>1, <3>1, <3>2
  <2>2. CASE PatchedRun(c) /\ ~(hook[p].config # "none" /\ ~hook[p].armed)
    BY <1>2, <2>2 DEF PatchedRun
  <2>3. CASE (\E config \in {"closed", "open"} : InstallBegin(c, config)) \/ Prologue(c)
    BY <1>1, <2>3 DEF InstallBegin, Prologue
  <2>4. QED
    BY <2>1, <2>2, <2>3

LEMMA KillSwitchStep ==
    ASSUME PolicyAssumption, HookAssumption, AuditHookInv, NEW p \in Procs,
           SetKillSwitch(p)
    PROVE  AuditHookInv'
<1>1. UNCHANGED <<policyVars, hook, life, thr, mp, spawns, imports, scope>>
  BY DEF SetKillSwitch
<1>2. killSwitch' \in [Procs -> BOOLEAN]
  BY DEF SetKillSwitch, AuditHookInv, ProcInv, HookTypes
<1>3. HookTypes'
  BY <1>1, <1>2, Zenon DEF AuditHookInv, ProcInv, HookTypes
<1>4. CoverInv' /\ ThreadInv'
  BY <1>1, Zenon DEF AuditHookInv, ProcInv, CoverInv, ThreadInv, Strict
<1>5. SpawnInv' /\ MpInv'
  BY <1>1, Zenon DEF AuditHookInv, ProcInv, SpawnInv, MpInv
<1>6. /\ registry' = registry /\ sent' = sent /\ answers' = answers
      /\ call' = call /\ chain' = chain /\ ids' = ids /\ thr' = thr /\ imports' = imports
  BY <1>1 DEF policyVars
<1>7. PolicyInv'
  BY <1>6 DEF AuditHookInv, PolicyInv, PolicyTypes, IdsInv, Lines, SidecarInv,
              TokensInv, Tokens, StatusInv
<1>8. FlightInv' /\ ImportAuthorised'
  BY <1>6 DEF AuditHookInv, FlightInv, ImportAuthorised
<1>9. QED
  BY <1>3, <1>4, <1>5, <1>7, <1>8 DEF AuditHookInv, ProcInv

\* A forked child is as strict as its parent, and finds the original
\* Process.run whenever it finds the patched one.
LEMMA ForkStep ==
    ASSUME PolicyAssumption, HookAssumption, AuditHookInv, NEW c \in Callers, Fork(c)
    PROVE  AuditHookInv'
<1>0. /\ thr \in [Callers -> Thread] /\ hook \in [Procs -> Hook] /\ life \in [Procs -> Lives]
      /\ Child \in Procs /\ Parent \in Procs /\ Parent # Child /\ thr[c].step = "idle"
      /\ life[Parent] = "user" /\ killSwitch \in [Procs -> BOOLEAN]
  BY DEF AuditHookInv, ProcInv, HookTypes, HookAssumption, Procs, Fork, Running
<1>1. spawns = 0 /\ spawns' = 1
  <2>1. spawns \in 0..1 /\ scope \in Scope
    BY DEF AuditHookInv, ProcInv, HookTypes, HookAssumption
  <2>2. spawns < scope.spawns /\ scope.spawns \in {0, 1} /\ spawns' = spawns + 1
    BY <2>1 DEF Fork, Scope
  <2>3. QED
    BY <2>1, <2>2
<1>2. /\ life[Child] = "none" /\ \A d \in Callers : thr[d].form = "none"
      /\ \A d \in Callers : ProcOf[d] = Child => thr[d].step = "idle"
  BY <1>1 DEF AuditHookInv, ProcInv, SpawnInv
<1>3. UNCHANGED <<policyVars, thr, mp, imports, scope>>
  BY DEF Fork
<1>4. PICK l \in {"user", "mprun"} : life' = [life EXCEPT ![Child] = l]
  <2>1. mp.patched => mp.original
    BY DEF AuditHookInv, ProcInv, MpInv
  <2>2. QED
    BY <2>1 DEF Fork
<1>5. /\ life' \in [Procs -> Lives]
      /\ \A q \in Procs : life'[q] = IF q = Child THEN l ELSE life[q]
  BY <1>0, <1>4 DEF Lives
<1>6. /\ hook' \in [Procs -> Hook]
      /\ \A q \in Procs : hook'[q] = IF q = Child THEN hook[Parent] ELSE hook[q]
  BY <1>0 DEF Fork
<1>7. PolicyInv' /\ FlightInv' /\ answers' = answers
  BY <1>0, <1>3, ThreadOnly
<1>8. HookTypes'
  <2>1. killSwitch' \in [Procs -> BOOLEAN] /\ spawns' \in 0..1
    BY <1>0, <1>1 DEF Fork
  <2>2. QED
    BY <1>3, <1>5, <1>6, <2>1, Zenon DEF AuditHookInv, ProcInv, HookTypes
<1>9. CoverInv'
  BY <1>0, <1>4, <1>5, <1>6 DEF AuditHookInv, ProcInv, CoverInv, Strict
<1>10. ThreadInv'
  BY <1>0, <1>2, <1>3, <1>6 DEF AuditHookInv, ProcInv, ThreadInv, Strict, HookAssumption, Procs
<1>11. SpawnInv'
  BY <1>0, <1>1, <1>2, <1>3, <1>5 DEF SpawnInv
<1>12. MpInv' /\ ImportAuthorised'
  BY <1>3, <1>7, Zenon DEF AuditHookInv, ProcInv, MpInv, ImportAuthorised
<1>13. QED
  BY <1>7, <1>8, <1>9, <1>10, <1>11, <1>12 DEF AuditHookInv, ProcInv

\* The lock and the count of wrap_multiprocessing.
LEMMA MpStep ==
    ASSUME PolicyAssumption, HookAssumption, AuditHookInv, NEW c \in Callers,
           MpSave(c) \/ MpEnter(c) \/ MpExit(c) \/ MpForget(c)
    PROVE  AuditHookInv'
<1> DEFINE Mp == [count: 0..Cardinality(Callers), patched: BOOLEAN,
                  original: BOOLEAN, holder: Callers \cup {Nobody}]
<1>0. mp \in Mp /\ scope \in Scope /\ scope.mpUsers \subseteq Callers
  <2>1. mp \in Mp /\ scope \in Scope
    BY DEF AuditHookInv, ProcInv, HookTypes, HookAssumption
  <2>2. QED
    BY <2>1 DEF Scope
<1>1. UNCHANGED <<policyVars, hook, killSwitch, life, thr, spawns, imports, scope>>
  BY DEF MpSave, MpEnter, MpExit, MpForget
<1>2. /\ Cardinality(Callers) \in Nat /\ Cardinality(Callers) > 0
      /\ Cardinality(scope.mpUsers) <= Cardinality(Callers)
      /\ Cardinality(scope.mpUsers) \in Nat
  <2>1. IsFiniteSet(Callers)
    BY DEF HookAssumption
  <2>2. Cardinality(Callers) \in Nat /\ Cardinality(Callers) # 0
    BY <2>1, FS_CardinalityType, FS_EmptySet
  <2>3. /\ IsFiniteSet(scope.mpUsers)
        /\ Cardinality(scope.mpUsers) <= Cardinality(Callers)
    BY <1>0, <2>1, FS_Subset
  <2>4. Cardinality(scope.mpUsers) \in Nat
    BY <2>3, FS_CardinalityType
  <2>5. QED
    BY <2>2, <2>3, <2>4
<1>3. mp' \in Mp /\ MpInv'
  <2>0. /\ mp.count > 0 => mp.patched
        /\ mp.patched \/ mp.holder # Nobody => mp.original
    BY DEF AuditHookInv, ProcInv, MpInv
  <2>1. CASE MpSave(c)
    BY <1>0, <2>0, <2>1 DEF MpSave, MpInv
  <2>2. CASE MpEnter(c)
    <3>1. mp.count + 1 \in 0..Cardinality(Callers)
      BY <1>0, <1>2, <2>2 DEF MpEnter
    <3>2. mp.original
      BY <1>0, <2>0, <2>2 DEF MpEnter, PolicyAssumption
    <3>3. mp' = [mp EXCEPT !.patched = TRUE, !.holder = Nobody, !.count = @ + 1]
      BY <2>2 DEF MpEnter
    <3>4. QED
      BY <1>0, <3>1, <3>2, <3>3 DEF MpInv
  <2>3. CASE MpExit(c)
    <3>1. CASE mp.count = 1
      <4>1. mp' = [mp EXCEPT !.count = 0, !.patched = FALSE, !.holder = c]
        BY <2>3, <3>1 DEF MpExit
      <4>2. mp.original
        BY <2>0, <3>1
      <4>3. mp' \in Mp
        <5> DEFINE N == 0..Cardinality(Callers)
        <5>1. 0 \in N /\ mp \in [count: N, patched: BOOLEAN, original: BOOLEAN,
                                 holder: Callers \cup {Nobody}]
          BY <1>0, <1>2
        <5> HIDE DEF N
        <5>2. mp' \in [count: N, patched: BOOLEAN, original: BOOLEAN,
                       holder: Callers \cup {Nobody}]
          BY <4>1, <5>1
        <5>3. QED
          BY <5>2 DEF N
      <4>4. mp'.count = 0 /\ mp'.original = mp.original
        BY <1>0, <4>1
      <4>5. MpInv'
        BY <4>2, <4>4 DEF MpInv
      <4>6. QED
        BY <4>3, <4>5
    <3>2. CASE mp.count # 1
      <4>1. mp' = [mp EXCEPT !.count = @ - 1] /\ mp.count > 1
        BY <1>0, <2>3, <3>2 DEF MpExit
      <4>2. QED
        BY <1>0, <1>2, <2>0, <4>1 DEF MpInv
    <3>3. QED
      BY <3>1, <3>2
  <2>4. CASE MpForget(c)
    BY <1>0, <1>2, <2>4 DEF MpForget, MpIdle, MpInv
  <2>5. QED
    BY <2>1, <2>2, <2>3, <2>4
<1>4. HookTypes'
  BY <1>1, <1>3, Zenon DEF AuditHookInv, ProcInv, HookTypes
<1>5. CoverInv' /\ ThreadInv' /\ SpawnInv'
  BY <1>1, Zenon DEF AuditHookInv, ProcInv, CoverInv, ThreadInv, Strict, SpawnInv
<1>6. /\ registry' = registry /\ sent' = sent /\ answers' = answers
      /\ call' = call /\ chain' = chain /\ ids' = ids /\ thr' = thr /\ imports' = imports
  BY <1>1 DEF policyVars
<1>7. PolicyInv'
  BY <1>6 DEF AuditHookInv, PolicyInv, PolicyTypes, IdsInv, Lines, SidecarInv,
              TokensInv, Tokens, StatusInv
<1>8. FlightInv' /\ ImportAuthorised'
  BY <1>6 DEF AuditHookInv, FlightInv, ImportAuthorised
<1>9. QED
  BY <1>3, <1>4, <1>5, <1>7, <1>8 DEF AuditHookInv, ProcInv

\* The kernel's own steps, and requests of clients that have no hook.
LEMMA KernelSteps ==
    ASSUME PolicyAssumption, HookAssumption, AuditHookInv, KernelStep \/ OtherClient
    PROVE  AuditHookInv'
<1>1. /\ UNCHANGED hookVars /\ thr' = thr /\ imports' = imports
  BY DEF KernelStep, OtherClient, hookVars
<1>2. PolicyInv' /\ answers \subseteq answers' /\ Carried
  <2>1. CASE KernelStep
    BY <2>1, PolicyStep DEF KernelStep, AuditHookInv
  <2>2. CASE OtherClient
    <3>1. PICK s \in Slots, req \in Request : Receive(s, Nobody, req)
      BY <2>2 DEF OtherClient
    <3>2. answers' = answers
      BY <3>1 DEF Receive
    <3>3. QED
      BY <3>1, <3>2, ReceiveStep DEF AuditHookInv, Carried, SameRequest
  <2>3. QED
    BY <2>1, <2>2
<1>3. ProcInv'
  BY <1>1, ProcStutter DEF AuditHookInv
<1>4. FlightInv'
  <2>1. \A s \in Slots : call'[s].who # Nobody =>
           /\ call'[s].who = call[s].who
           /\ SameRequest(call'[s].line, call[s].line)
    BY <1>2 DEF Carried
  <2>2. QED
    BY <1>1, <2>1 DEF AuditHookInv, FlightInv, SameRequest
<1>5. ImportAuthorised'
  BY <1>1, <1>2 DEF AuditHookInv, ImportAuthorised
<1>6. QED
  BY <1>2, <1>3, <1>4, <1>5 DEF AuditHookInv

-----------------------------------------------------------------------------
LEMMA NextInv ==
    ASSUME PolicyAssumption, HookAssumption, AuditHookInv, [Next]_vars
    PROVE  AuditHookInv'
<1>1. CASE KernelStep \/ OtherClient
  BY <1>1, KernelSteps
<1>2. CASE \E p \in Procs : SetKillSwitch(p)
  BY <1>2, KillSwitchStep
<1>3. CASE \E c \in Callers :
             \/ \E config \in {"closed", "open"} : InstallBegin(c, config)
             \/ Prologue(c) \/ PatchedRun(c)
  BY <1>3, BeginStep
<1>4. CASE \E c \in Callers : InstallSuppressed(c) \/ InstallConfigures(c) \/ InstallArms(c)
  BY <1>4, InstallSuppressedStep, InstallConfiguresStep, InstallArmsStep
<1>5. CASE \E c \in Callers : PostEnds(c) \/ EventAnswered(c) \/ EventUnavailable(c)
  BY <1>5, PostEndsStep, EventAnsweredStep, EventUnavailableStep
<1>6. CASE \E c \in Callers, m \in Modules : EventPasses(c, m) \/ EventAsks(c, m)
  BY <1>6, EventPassesStep, EventAsksStep
<1>7. CASE \E c \in Callers, form \in Forms, stripped \in BOOLEAN :
             WrapSubprocess(c, form, stripped)
  BY <1>7, WrapStep
<1>8. CASE \E c \in Callers : Fork(c)
  BY <1>8, ForkStep
<1>9. CASE \E c \in Callers : MpSave(c) \/ MpEnter(c) \/ MpExit(c) \/ MpForget(c)
  BY <1>9, MpStep
<1>10. CASE UNCHANGED vars
  <2>1. /\ registry' = registry /\ sent' = sent /\ answers' = answers
        /\ call' = call /\ chain' = chain /\ ids' = ids /\ thr' = thr /\ imports' = imports
        /\ UNCHANGED hookVars
    BY <1>10 DEF vars, policyVars, hookVars
  <2>2. PolicyInv'
    BY <2>1 DEF AuditHookInv, PolicyInv, PolicyTypes, IdsInv, Lines, SidecarInv,
                TokensInv, Tokens, StatusInv
  <2>3. FlightInv' /\ ImportAuthorised'
    BY <2>1 DEF AuditHookInv, FlightInv, ImportAuthorised
  <2>4. ProcInv'
    BY <2>1, ProcStutter DEF AuditHookInv
  <2>5. QED
    BY <2>2, <2>3, <2>4 DEF AuditHookInv
<1>11. QED
  BY <1>1, <1>2, <1>3, <1>4, <1>5, <1>6, <1>7, <1>8, <1>9, <1>10 DEF Next

LEMMA SpecInv == Spec => []AuditHookInv
<1>1. Init => AuditHookInv
  BY HookInitInv, PolicyAssumption, HookAssumption
<1>2. AuditHookInv /\ [Next]_vars => AuditHookInv'
  BY NextInv, PolicyAssumption, HookAssumption
<1>3. QED
  BY <1>1, <1>2, PTL DEF Spec

\* The state keeps its type, for any number of threads, handlers and modules
\* (routes/policy/*, install_audit_hook.py).
THEOREM HookTypeCorrect == Spec => []TypeOK
<1>1. AuditHookInv => TypeOK
  <2>1. ASSUME AuditHookInv PROVE PolicyTypeOK
    BY <2>1 DEF AuditHookInv, PolicyInv, PolicyTypes, PolicyTypeOK, Handler
  <2>2. ASSUME AuditHookInv PROVE TypeOK
    BY <2>1, <2>2, Zenon DEF AuditHookInv, ProcInv, HookTypes, TypeOK, Hook, Thread
  <2>3. QED
    BY <2>2
<1>2. QED
  BY <1>1, SpecInv, PTL

\* No order of answers, timeouts, dropped handlers and reused connections
\* yields a token that says something else than what the sidecar answered to
\* that token's own request (policy_engine_client.rs, the check of request_id).
THEOREM TokensAreBacked == Spec => []TokenBacked
<1>1. AuditHookInv => TokenBacked
  BY DEF AuditHookInv, PolicyInv, TokensInv, TokenBacked
<1>2. QED
  BY <1>1, SpecInv, PTL

\* Of registrations that race for a module, one gets the receipt of a row
\* (routes/policy/register.rs).
THEOREM RowsHaveOneReceipt == Spec => []OneReceiptPerRow
<1>1. ASSUME AuditHookInv, NEW t \in Tokens, NEW u \in Tokens,
             t.op = "register", u.op = "register", t.m = u.m, t.at = u.at
      PROVE  t = u
  <2>1. /\ t \in answers /\ u \in answers /\ t.verdict = "new" /\ u.verdict = "new"
    BY <1>1 DEF AuditHookInv, PolicyInv, TokensInv
  <2>2. t \in Line /\ u \in Line /\ t \in Lines /\ u \in Lines
    BY <1>1, <2>1 DEF AuditHookInv, PolicyInv, PolicyTypes, Lines
  <2>3. t.id = t.at /\ u.id = u.at /\ t.id # 0
    BY <1>1, <2>1 DEF AuditHookInv, PolicyInv, SidecarInv, IdsInv
  <2>4. SameRequest(t, u)
    BY <1>1, <2>2, <2>3 DEF AuditHookInv, PolicyInv, IdsInv
  <2>5. QED
    BY <1>1, <2>1, <2>2, <2>3, <2>4, LineEq DEF SameRequest
<1>2. AuditHookInv => OneReceiptPerRow
  BY <1>1 DEF OneReceiptPerRow
<1>3. QED
  BY <1>2, SpecInv, PTL

\* A covered interpreter that was never told to be lax, and every wrapped
\* child of it, lets an event through only on the sidecar's allow of that
\* module for that very request (install_audit_hook.py, the hook's callback).
THEOREM ImportsAreAuthorised == Spec => []ImportAuthorised
<1>1. AuditHookInv => ImportAuthorised
  BY DEF AuditHookInv
<1>2. QED
  BY <1>1, SpecInv, PTL

\* Whoever enters and leaves wrap_multiprocessing in whatever order, a fork
\* finds the original behind the patch (subprocess_propagation.py).
THEOREM ForksRunTheirTarget == Spec => []ChildRunsTarget
<1>1. AuditHookInv => ChildRunsTarget
  BY DEF AuditHookInv, ProcInv, CoverInv, ChildRunsTarget
<1>2. QED
  BY <1>1, SpecInv, PTL

\* The patch lasts until the last of its users has left
\* (subprocess_propagation.py, the count of _mp_patch_state).
THEOREM PatchIsHeld == Spec => []PatchHeld
<1>1. AuditHookInv => PatchHeld
  BY DEF AuditHookInv, ProcInv, MpInv, PatchHeld
<1>2. QED
  BY <1>1, SpecInv, PTL
=============================================================================
