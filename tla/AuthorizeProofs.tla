-------------------------- MODULE AuthorizeProofs --------------------------
(***************************************************************************)
(* For any number of requests and any settings: nothing is forwarded by a  *)
(* gated route without a fresh, logged decision about that very request.   *)
(***************************************************************************)
EXTENDS Authorize, CircuitBreaker, TLAPS

\* The issued ttl is positive and within settings.max_token_ttl_s.
LEMMA IssuedTTLBounds ==
    ASSUME AuthorizeAssumption, NEW f \in Form
    PROVE  IssuedTTL(f) \in 1..MaxTTL
<1>1. f.ttl \in 0..(TTLLimit + 2)
  BY DEF Form, TTLField
<1>2. QED
  BY <1>1 DEF IssuedTTL, MaxOf, MinOf, AuthorizeAssumption

\* A production kernel that comes up and was not told to do without the log
\* has a client for it: every other way through the settings ends in an error.
LEMMA ObligedHasClient ==
    ASSUME NEW e \in KernelEnv, Boots(e), Obliged(e)
    PROVE  HasClient(e)
<1>1. TransparencyEnabled(e)
  BY DEF Obliged, TransparencyEnabled, KernelEnv
<1>2. QED
  BY <1>1 DEF Obliged, Boots, ClientBuilt, HasClient

LEMMA InitInv ==
    ASSUME AuthorizeAssumption, Init
    PROVE  AuthorizeInv
<1>1. TypeOK
  <2>1. client \in BOOLEAN
    BY DEF Init, HasClient
  <2>2. QED
    BY <2>1 DEF AuthorizeAssumption, Init, TypeOK, Seam, Kern
<1>2. QED
  BY <1>1 DEF AuthorizeAssumption, Init, AuthorizeInv, CheckedInv, SignedInv, LoggedInv,
              CapturedInv, AnsweredInv, GatedRuns

\* The middleware's steps.
LEMMA MiddlewareStep ==
    ASSUME AuthorizeAssumption, AuthorizeInv, NEW r \in Request, Middleware(r)
    PROVE  AuthorizeInv'
<1> USE DEF AuthorizeInv
<1>1. ASSUME NEW f \in Forms, SendGated(r, f) PROVE AuthorizeInv'
  <2>1. f \in Form /\ form[r] = <<>> /\ kern[r] = "none"
    BY <1>1 DEF SendGated, AuthorizeAssumption, CheckedInv, TypeOK
  <2>2. f # <<>>
    BY <2>1 DEF Form
  <2>3. TypeOK'
    BY <1>1, <2>1 DEF SendGated, TypeOK, Seam
  <2>4. CheckedInv'
    BY <1>1, <2>1, <2>2 DEF SendGated, CheckedInv, TypeOK
  <2>5. SignedInv' /\ LoggedInv' /\ CapturedInv'
    BY <1>1 DEF SendGated, SignedInv, LoggedInv, CapturedInv
  <2>6. \A p \in performed : p[1] # r
    BY <2>1 DEF AnsweredInv
  <2>7. \A p \in performed : form'[p[1]] = form[p[1]]
    BY <1>1, <2>6 DEF SendGated, TypeOK
  <2>8. AnsweredInv'
    BY <1>1, <2>7 DEF SendGated, AnsweredInv, GatedRuns
  <2>9. QED
    BY <2>3, <2>4, <2>5, <2>8
<1>2. ASSUME NEW f \in Forms, SendSupervised(r, f) PROVE AuthorizeInv'
  <2>1. f \in Form /\ form[r] = <<>> /\ kern[r] = "none"
    BY <1>2 DEF SendSupervised, AuthorizeAssumption, CheckedInv, TypeOK
  <2>2. f # <<>>
    BY <2>1 DEF Form
  <2>3. TypeOK'
    BY <1>2, <2>1 DEF SendSupervised, TypeOK, Seam
  <2>4. CheckedInv'
    BY <1>2, <2>1, <2>2 DEF SendSupervised, CheckedInv, TypeOK
  <2>5. SignedInv' /\ LoggedInv' /\ CapturedInv'
    BY <1>2 DEF SendSupervised, SignedInv, LoggedInv, CapturedInv
  <2>6. \A p \in performed : p[1] # r
    BY <2>1 DEF AnsweredInv
  <2>7. \A p \in performed : form'[p[1]] = form[p[1]]
    BY <1>2, <2>6 DEF SendSupervised, TypeOK
  <2>8. form'[r] = f /\ form'[<<r, clock>>[1]].tier = "supervised"
    BY <1>2 DEF SendSupervised, TypeOK
  <2>9. AnsweredInv'
    BY <1>2, <2>2, <2>7, <2>8 DEF SendSupervised, AnsweredInv, GatedRuns
  <2>10. QED
    BY <2>3, <2>4, <2>5, <2>9
<1>3. CASE Perform(r)
  <2>1. TypeOK' /\ CheckedInv' /\ SignedInv' /\ LoggedInv' /\ CapturedInv'
    BY <1>3 DEF Perform, TypeOK, Seam, CheckedInv, SignedInv, LoggedInv, CapturedInv
  <2>2. form[r] # <<>> /\ clock <= claims[r].exp + Leeway
    BY <1>3 DEF Perform, Unexpired, CheckedInv
  <2>3. AnsweredInv'
    BY <1>3, <2>2 DEF Perform, AnsweredInv, GatedRuns
  <2>4. QED
    BY <2>1, <2>3
<1>4. CASE Refuse(r)
  BY <1>4 DEF Refuse, TypeOK, Seam, CheckedInv, SignedInv, LoggedInv, CapturedInv,
              AnsweredInv, GatedRuns
<1>5. QED
  BY <1>1, <1>2, <1>3, <1>4 DEF Middleware

\* The kernel's handler.
LEMMA HandleStep ==
    ASSUME AuthorizeAssumption, AuthorizeInv, NEW r \in Request, Handle(r)
    PROVE  AuthorizeInv'
<1> USE DEF AuthorizeInv
<1>1. CASE ReceiveRefused(r)
  <2>1. PICK stage \in {"denied", "invalid"} : kern' = [kern EXCEPT ![r] = stage]
    BY <1>1 DEF ReceiveRefused, Goto
  <2>2. /\ form[r] # <<>> /\ kern[r] = "none"
        /\ UNCHANGED <<client, clock, form, seam, claims, answers, tlog, audit, performed>>
    BY <1>1 DEF ReceiveRefused, Arrived
  <2>3. TypeOK' /\ CheckedInv' /\ SignedInv' /\ LoggedInv' /\ CapturedInv'
    BY <2>1, <2>2 DEF TypeOK, Kern, CheckedInv, SignedInv, LoggedInv, CapturedInv
  <2>4. AnsweredInv'
    BY <2>1, <2>2 DEF TypeOK, AnsweredInv, GatedRuns
  <2>5. QED
    BY <2>3, <2>4
<1>2. CASE Receive(r)
  <2>1. form[r] \in Form
    BY <1>2 DEF Receive, Arrived, TypeOK
  <2>2. IssuedTTL(form[r]) \in 1..MaxTTL
    BY <2>1, IssuedTTLBounds
  <2>3. clock \in Nat /\ MaxTTL \in Nat /\ claims[r].ttl = 0 /\ kern[r] = "none"
    BY <1>2 DEF Receive, Arrived, TypeOK, CapturedInv, AuthorizeAssumption
  <2>4. TypeOK'
    BY <1>2, <2>2, <2>3 DEF Receive, Goto, TypeOK, Kern
  <2>5. CheckedInv' /\ LoggedInv'
    BY <1>2 DEF Receive, Arrived, Goto, TypeOK, CheckedInv, LoggedInv
  <2>6. SignedInv'
    BY <1>2 DEF Receive, Arrived, Goto, TypeOK, SignedInv
  <2>7. \A m \in answers : m.id # r
    BY <2>3 DEF CapturedInv
  <2>8. CapturedInv'
    BY <1>2, <2>2, <2>3, <2>7 DEF Receive, Goto, TypeOK, CapturedInv
  <2>9. AnsweredInv'
    BY <1>2, <2>3 DEF Receive, Goto, TypeOK, AnsweredInv, GatedRuns
  <2>10. QED
    BY <2>4, <2>5, <2>6, <2>8, <2>9
<1>3. CASE PolicyAllows(r)
  <2>1. claims[r].iat + claims[r].ttl \in Nat
    BY DEF TypeOK
  <2>2. TypeOK'
    BY <1>3, <2>1 DEF PolicyAllows, Signed, Goto, TypeOK, Kern
  <2>3. CheckedInv' /\ LoggedInv'
    BY <1>3 DEF PolicyAllows, Goto, TypeOK, CheckedInv, LoggedInv
  <2>4. SignedInv'
    <3>1. \E m \in answers' : m.id = r /\ m.allowed
      BY <1>3 DEF PolicyAllows, Accepted
    <3>2. claims'[r].exp = claims'[r].iat + claims'[r].ttl
      BY <1>3 DEF PolicyAllows, Signed, TypeOK
    <3>3. \A q \in Request \ {r} : kern'[q] = kern[q] /\ claims'[q] = claims[q]
      BY <1>3 DEF PolicyAllows, Goto, TypeOK
    <3>4. answers' = answers
      BY <1>3 DEF PolicyAllows
    <3>5. QED
      BY <3>1, <3>2, <3>3, <3>4 DEF SignedInv
  <2>5. CapturedInv'
    BY <1>3 DEF PolicyAllows, Signed, Goto, TypeOK, CapturedInv
  <2>6. AnsweredInv'
    BY <1>3 DEF PolicyAllows, Goto, TypeOK, AnsweredInv, GatedRuns
  <2>7. QED
    BY <2>2, <2>3, <2>4, <2>5, <2>6
<1>4. CASE PolicyDenies(r)
  <2>1. TypeOK'
    BY <1>4 DEF PolicyDenies, Goto, TypeOK, Kern
  <2>2. CheckedInv' /\ SignedInv' /\ LoggedInv'
    BY <1>4 DEF PolicyDenies, Goto, TypeOK, CheckedInv, SignedInv, LoggedInv
  <2>3. CapturedInv'
    BY <1>4 DEF PolicyDenies, Goto, TypeOK, CapturedInv
  <2>4. AnsweredInv'
    BY <1>4 DEF PolicyDenies, Goto, TypeOK, AnsweredInv, GatedRuns
  <2>5. QED
    BY <2>1, <2>2, <2>3, <2>4
<1>5. CASE TlogAppend(r)
  <2>1. PICK a \in LogAnswer :
           /\ Plausible(r, a)
           /\ kern' = [kern EXCEPT ![r] = IF Appended(r, a) THEN "allowing" ELSE "denying"]
    BY <1>5 DEF TlogAppend, Goto
  <2>2. /\ kern[r] = "append"
        /\ tlog' \in {tlog, tlog \cup {r}}
        /\ UNCHANGED <<client, clock, form, seam, claims, answers, audit, performed>>
    BY <1>5 DEF TlogAppend
  <2>3. kern'[r] = "allowing" => r \in tlog'
    <3>1. CASE Appended(r, a)
      BY <3>1, <2>1 DEF Appended, Plausible
    <3>2. CASE ~Appended(r, a)
      BY <3>2, <2>1 DEF TypeOK
    <3>3. QED
      BY <3>1, <3>2
  <2>4. kern'[r] \in {"allowing", "denying"} /\ \A q \in Request \ {r} : kern'[q] = kern[q]
    BY <2>1 DEF TypeOK
  <2>5. TypeOK'
    BY <2>1, <2>2 DEF TypeOK, Kern
  <2>6. CheckedInv' /\ SignedInv'
    BY <2>2, <2>4 DEF CheckedInv, SignedInv
  <2>7. LoggedInv'
    BY <2>2, <2>3, <2>4 DEF LoggedInv
  <2>8. CapturedInv'
    BY <2>2, <2>4 DEF CapturedInv
  <2>9. AnsweredInv'
    <3>1. \A p \in GatedRuns : p[1] \in Request
      BY DEF GatedRuns, TypeOK
    <3>2. QED
      BY <2>2, <2>4, <3>1 DEF AnsweredInv, GatedRuns
  <2>10. QED
    BY <2>5, <2>6, <2>7, <2>8, <2>9
<1>6. CASE AuditAppend(r)
  <2>1. TypeOK'
    BY <1>6 DEF AuditAppend, Verdict, Goto, TypeOK, Kern
  <2>2. CheckedInv' /\ SignedInv' /\ LoggedInv' /\ CapturedInv'
    BY <1>6 DEF AuditAppend, Goto, TypeOK, CheckedInv, SignedInv, LoggedInv, CapturedInv
  <2>3. UNCHANGED <<client, form, claims, tlog, performed>>
    BY <1>6 DEF AuditAppend
  <2>4. \A q \in Request \ {r} : kern'[q] = kern[q] /\
           \A v \in {"allow", "deny"} : <<q, v>> \in audit' => <<q, v>> \in audit
    BY <1>6 DEF AuditAppend, Goto, TypeOK
  <2>5. \A p \in GatedRuns' : kern'[p[1]] = "allowed" /\ p[2] <= claims'[p[1]].exp + Leeway
    <3>1. GatedRuns' = GatedRuns /\ \A p \in GatedRuns : p[1] \in Request
      BY <2>3 DEF GatedRuns, TypeOK
    <3>2. \A p \in GatedRuns : kern[p[1]] = "allowed" /\ p[1] # r
      BY <1>6 DEF AuditAppend, AnsweredInv
    <3>3. QED
      BY <2>3, <2>4, <3>1, <3>2 DEF AnsweredInv
  <2>6. ASSUME kern[r] = "allowing" PROVE AnsweredInv'
    <3>1. kern'[r] = "allowed" /\ (client => r \in tlog)
      BY <1>6, <2>6 DEF AuditAppend, Goto, TypeOK, LoggedInv
    <3>2. audit' \in {audit, audit \cup {<<r, "allow">>}}
      BY <1>6, <2>6 DEF AuditAppend, Verdict
    <3>3. <<r, "deny">> \notin audit
      BY <2>6 DEF AnsweredInv
    <3>4. <<r, "deny">> \notin audit'
      BY <3>2, <3>3
    <3>5. QED
      BY <2>3, <2>4, <2>5, <3>1, <3>4 DEF AnsweredInv
  <2>7. ASSUME kern[r] = "denying" PROVE AnsweredInv'
    <3>1. kern'[r] = "denied"
      BY <1>6, <2>7 DEF AuditAppend, Goto, TypeOK
    <3>2. audit' \in {audit, audit \cup {<<r, "deny">>}}
      BY <1>6, <2>7 DEF AuditAppend, Verdict
    <3>3. <<r, "allow">> \notin audit
      BY <2>7 DEF AnsweredInv
    <3>4. <<r, "allow">> \notin audit'
      BY <3>2, <3>3
    <3>5. QED
      BY <2>3, <2>4, <2>5, <3>1, <3>4 DEF AnsweredInv
  <2>8. AnsweredInv'
    BY <1>6, <2>6, <2>7 DEF AuditAppend
  <2>9. QED
    BY <2>1, <2>2, <2>8
<1>7. QED
  BY <1>1, <1>2, <1>3, <1>4, <1>5, <1>6 DEF Handle

\* The sidecar, a crash, the clock.
LEMMA EnvironmentStep ==
    ASSUME AuthorizeAssumption, AuthorizeInv,
           (\E r \in Request : Decide(r)) \/ KernelCrash \/ Tick \/ UNCHANGED vars
    PROVE  AuthorizeInv'
<1> USE DEF AuthorizeInv
<1>1. ASSUME NEW r \in Request, Decide(r) PROVE AuthorizeInv'
  <2>1. clock \in Nat
    BY DEF TypeOK
  <2>2. TypeOK'
    BY <1>1, <2>1 DEF Decide, TypeOK
  <2>3. CheckedInv' /\ SignedInv' /\ LoggedInv' /\ AnsweredInv'
    BY <1>1 DEF Decide, CheckedInv, SignedInv, LoggedInv, AnsweredInv, GatedRuns
  <2>4. CapturedInv'
    BY <1>1 DEF Decide, CapturedInv
  <2>5. QED
    BY <2>2, <2>3, <2>4
<1>2. CASE KernelCrash
  <2>1. PICK T \in SUBSET {r \in Request : kern[r] = "append"} : tlog' = tlog \cup T
    BY <1>2 DEF KernelCrash
  <2>2. PICK A \in SUBSET {r \in Request : kern[r] \in {"allowing", "denying"}} :
           audit' = audit \cup {<<r, Verdict(r)>> : r \in A}
    BY <1>2 DEF KernelCrash
  <2>3. UNCHANGED <<client, clock, form, seam, claims, answers, performed>>
    BY <1>2 DEF KernelCrash
  <2>4. kern' \in [Request -> Kern]
    BY <1>2 DEF KernelCrash, TypeOK, Kern
  <2>5. \A r \in Request :
           \/ kern'[r] = kern[r]
           \/ /\ kern'[r] = "crashed"
              /\ kern[r] \in {"policy", "append", "allowing", "denying"}
    <3> SUFFICES ASSUME NEW r \in Request
                 PROVE  \/ kern'[r] = kern[r]
                        \/ /\ kern'[r] = "crashed"
                           /\ kern[r] \in {"policy", "append", "allowing", "denying"}
      OBVIOUS
    <3>1. kern'[r] = IF kern[r] \in {"policy", "append", "allowing", "denying"}
                     THEN "crashed" ELSE kern[r]
      BY <1>2 DEF KernelCrash
    <3>2. QED
      BY <3>1
  <2>6. \A r \in A : Verdict(r) \in {"allow", "deny"}
    BY DEF Verdict
  <2>7. TypeOK'
    <3>1. tlog' \subseteq Request /\ audit' \subseteq Request \X {"allow", "deny"}
      BY <2>1, <2>2, <2>6 DEF TypeOK
    <3>2. QED
      BY <2>3, <2>4, <3>1, Zenon DEF TypeOK
  <2>8. CheckedInv' /\ SignedInv' /\ LoggedInv'
    BY <2>1, <2>3, <2>5 DEF CheckedInv, SignedInv, LoggedInv
  <2>9. CapturedInv'
    BY <2>3, <2>5 DEF CapturedInv
  <2>10. \A p \in performed : p[1] \in Request
    BY DEF TypeOK
  <2>11. \A p \in GatedRuns' :
            kern'[p[1]] = "allowed" /\ p[2] <= claims'[p[1]].exp + Leeway
    BY <2>3, <2>5, <2>10 DEF AnsweredInv, GatedRuns
  <2>12. ASSUME NEW r \in Request
         PROVE  /\ <<r, "allow">> \in audit' =>
                      kern'[r] \in {"allowed", "crashed"} /\ (client' => r \in tlog') /\ <<r, "deny">> \notin audit'
                /\ <<r, "deny">> \in audit' => kern'[r] \in {"denied", "crashed"}
    <3>1. /\ <<r, "allow">> \in audit' => <<r, "allow">> \in audit \/ kern[r] = "allowing"
          /\ <<r, "deny">> \in audit' => <<r, "deny">> \in audit \/ kern[r] = "denying"
      BY <2>2 DEF Verdict
    <3>2. kern[r] \in {"allowing", "denying"} => kern'[r] = "crashed"
      BY <1>2, <2>12 DEF KernelCrash
    <3>3. client /\ kern[r] = "allowing" => r \in tlog
      BY <2>12 DEF LoggedInv
    <3>4. r \in tlog => r \in tlog'
      BY <2>1
    <3>5. /\ <<r, "allow">> \in audit =>
                kern[r] \in {"allowed", "crashed"} /\ (client => r \in tlog) /\ <<r, "deny">> \notin audit
          /\ <<r, "deny">> \in audit => kern[r] \in {"denied", "crashed"}
      BY <2>12 DEF AnsweredInv
    <3>6. kern[r] \in {"allowed", "denied", "crashed"} => kern'[r] = kern[r]
      BY <2>5, <2>12
    <3>7. QED
      BY <2>3, <3>1, <3>2, <3>3, <3>4, <3>5, <3>6
  <2>13. AnsweredInv'
    BY <2>3, <2>11, <2>12 DEF AnsweredInv
  <2>14. QED
    BY <2>7, <2>8, <2>9, <2>13
<1>3. CASE Tick
  <2>1. TypeOK'
    <3>1. clock' \in 0..MaxTime
      BY <1>3 DEF Tick, AuthorizeAssumption, TypeOK
    <3>2. UNCHANGED <<client, form, seam, kern, claims, answers, tlog, audit, performed>>
      BY <1>3 DEF Tick
    <3>3. QED
      BY <3>1, <3>2 DEF TypeOK
  <2>2. CapturedInv'
    <3>1. clock \in Nat /\ clock' = clock + 1 /\ \A r \in Request : claims[r].iat \in Nat
      BY <1>3 DEF Tick, TypeOK
    <3>2. UNCHANGED <<kern, claims, answers>>
      BY <1>3 DEF Tick
    <3>3. \A r \in Request : claims[r].iat <= clock'
      BY <3>1 DEF CapturedInv
    <3>4. QED
      BY <3>2, <3>3 DEF CapturedInv
  <2>3. CheckedInv' /\ SignedInv' /\ LoggedInv' /\ AnsweredInv'
    BY <1>3 DEF Tick, CheckedInv, SignedInv, LoggedInv, AnsweredInv, GatedRuns
  <2>4. QED
    BY <2>1, <2>2, <2>3
<1>4. CASE UNCHANGED vars
  BY <1>4 DEF vars, TypeOK, CheckedInv, SignedInv, LoggedInv, CapturedInv, AnsweredInv, GatedRuns
<1>5. QED
  BY <1>1, <1>2, <1>3, <1>4

\* AuthorizeInv holds in every reachable state.
THEOREM InvCorrect == Spec => []AuthorizeInv
<1>1. Init => AuthorizeInv
  BY InitInv, AuthorizeAssumption
<1>2. AuthorizeInv /\ [Next]_vars => AuthorizeInv'
  <2> SUFFICES ASSUME AuthorizeInv, [Next]_vars PROVE AuthorizeInv'
    OBVIOUS
  <2>1. ASSUME NEW r \in Request, Middleware(r) PROVE AuthorizeInv'
    BY <2>1, MiddlewareStep, AuthorizeAssumption
  <2>2. ASSUME NEW r \in Request, Handle(r) PROVE AuthorizeInv'
    BY <2>2, HandleStep, AuthorizeAssumption
  <2>3. ASSUME (\E r \in Request : Decide(r)) \/ KernelCrash \/ Tick \/ UNCHANGED vars
        PROVE  AuthorizeInv'
    BY <2>3, EnvironmentStep, AuthorizeAssumption
  <2>4. QED
    BY <2>1, <2>2, <2>3 DEF Next
<1>3. QED
  BY <1>1, <1>2, PTL DEF Spec

\* A gated request is forwarded only when the sidecar allowed this request.
THEOREM NoSilentAllowCorrect == Spec => []NoSilentAllow
<1>1. AuthorizeInv => NoSilentAllow
  <2> SUFFICES ASSUME AuthorizeInv, NEW p \in GatedRuns
               PROVE  ~Forbidden(form[p[1]]) /\ \E m \in answers : m.id = p[1] /\ m.allowed
    BY DEF NoSilentAllow
  <2>1. p[1] \in Request /\ kern[p[1]] = "allowed"
    BY DEF AuthorizeInv, AnsweredInv, TypeOK, GatedRuns
  <2>2. QED
    BY <2>1 DEF AuthorizeInv, CheckedInv, SignedInv
<1>2. QED
  BY <1>1, InvCorrect, PTL

\* What a gated route forwards is in the transparency log, if the kernel has
\* a client for it, and an obliged kernel has one.
THEOREM ForwardedIsLoggedCorrect == Spec => []ForwardedIsLogged
<1>1. AuthorizeInv => ForwardedIsLogged
  <2> SUFFICES ASSUME AuthorizeInv, client \/ client \in ObligedClients, NEW p \in GatedRuns
               PROVE  p[1] \in tlog
    BY DEF ForwardedIsLogged
  <2>1. client
    <3>1. ASSUME client \in ObligedClients PROVE client
      <4>1. PICK e \in Booted : Obliged(e) /\ client = HasClient(e)
        BY <3>1 DEF ObligedClients
      <4>2. e \in KernelEnv /\ Boots(e)
        BY DEF Booted
      <4>3. QED
        BY <4>1, <4>2, ObligedHasClient
    <3>2. QED
      BY <3>1
  <2>2. p[1] \in Request /\ kern[p[1]] = "allowed"
    BY DEF AuthorizeInv, AnsweredInv, TypeOK, GatedRuns
  <2>3. QED
    BY <2>1, <2>2 DEF AuthorizeInv, LoggedInv
<1>2. QED
  BY <1>1, InvCorrect, PTL

\* A gated request runs within MaxTTL and the leeway of its decision.
THEOREM DecisionIsFreshCorrect == Spec => []DecisionIsFresh
<1>1. AuthorizeInv => DecisionIsFresh
  <2> SUFFICES ASSUME AuthorizeInv, NEW p \in GatedRuns, NEW m \in answers, m.id = p[1]
               PROVE  p[2] <= m.at + MaxTTL + Leeway
    BY DEF DecisionIsFresh
  <2>1. /\ p[1] \in Request /\ p[2] \in Nat
        /\ kern[p[1]] = "allowed"
        /\ p[2] <= claims[p[1]].exp + Leeway
    BY DEF AuthorizeInv, AnsweredInv, TypeOK, GatedRuns
  <2>2. /\ claims[p[1]].exp = claims[p[1]].iat + claims[p[1]].ttl
        /\ claims[p[1]].ttl <= MaxTTL
        /\ claims[p[1]].iat <= m.at
    BY <2>1 DEF AuthorizeInv, SignedInv, CapturedInv
  <2>3. /\ claims[p[1]].iat \in Nat /\ claims[p[1]].ttl \in Nat /\ m.at \in Nat
        /\ MaxTTL \in Nat /\ Leeway \in Nat
    BY <2>1, AuthorizeAssumption DEF AuthorizeAssumption, AuthorizeInv, TypeOK
  <2>4. QED
    BY <2>1, <2>2, <2>3
<1>2. QED
  BY <1>1, InvCorrect, PTL

\* The audit chain never contradicts the log or what ran.
THEOREM AuditIsRightCorrect == Spec => []AuditIsRight
<1>1. AuthorizeInv => AuditIsRight
  <2> SUFFICES ASSUME AuthorizeInv, NEW r \in Request
               PROVE  /\ <<r, "allow">> \in audit => (client => r \in tlog) /\ <<r, "deny">> \notin audit
                      /\ <<r, "deny">> \in audit => \A p \in GatedRuns : p[1] # r
    BY DEF AuditIsRight
  <2>1. /\ <<r, "allow">> \in audit => (client => r \in tlog) /\ <<r, "deny">> \notin audit
        /\ <<r, "deny">> \in audit => kern[r] \in {"denied", "crashed"}
        /\ \A p \in GatedRuns : kern[p[1]] = "allowed"
    BY DEF AuthorizeInv, AnsweredInv
  <2>2. QED
    BY <2>1
<1>2. QED
  BY <1>1, InvCorrect, PTL

-----------------------------------------------------------------------------
(***************************************************************************)
(* The circuit breaker through which the kernel is called, for any number  *)
(* of callers and every threshold, timeout and cooldown with               *)
(* CallTimeout < Cooldown.                                                 *)
(***************************************************************************)

\* A new breaker is closed, has counted nothing and has no call in flight.
LEMMA BreakerStart == BreakerInit => BreakerInv
<1> SUFFICES ASSUME BreakerInit PROVE BreakerInv
  OBVIOUS
<1>1. call \in [Caller -> Calls] /\ Probes = {}
  BY BreakerAssumption DEF BreakerInit, Idle, Calls, Probes, InFlight
<1>2. /\ current = "Closed" /\ consecutiveFailures = 0
      /\ opened = 0 /\ probeInFlight = FALSE
  BY DEF BreakerInit
<1>3. BreakerTypeOK
  <2>1. consecutiveFailures \in 0..CountMax /\ opened \in 0..Cooldown
    BY <1>2, BreakerAssumption
  <2>2. QED
    BY <1>1, <1>2, <2>1 DEF BreakerTypeOK, CircuitState
<1>4. StateMatchesCounter
  <2>1. consecutiveFailures < Threshold
    BY <1>2, BreakerAssumption
  <2>2. QED
    BY <1>2, <2>1 DEF StateMatchesCounter
<1>5. ProbeAge /\ SingleProbe
  BY <1>1 DEF ProbeAge, SingleProbe
<1>6. QED
  BY <1>3, <1>4, <1>5 DEF BreakerInv

\* A call that ends takes its probe with it and disturbs no other call.
LEMMA EndedProbes ==
    ASSUME BreakerTypeOK, NEW c \in Caller, Ended(c)
    PROVE  /\ call' \in [Caller -> Calls]
           /\ Probes' \subseteq Probes
           /\ \A d \in Probes' : call'[d] = call[d]
BY BreakerAssumption DEF BreakerTypeOK, Ended, Idle, Calls, Probes, InFlight

\* No probe is travelling when the cooldown of an open breaker is over.
LEMMA NoOldProbe ==
    ASSUME BreakerInv, current = "Open", CooldownElapsed
    PROVE  Probes = {}
<1> SUFFICES ASSUME NEW c \in Probes PROVE FALSE
  OBVIOUS
<1>1. call[c].age \in 0..CallTimeout /\ opened \in Nat
  BY BreakerAssumption DEF BreakerInv, BreakerTypeOK, Calls, Probes
<1>2. opened <= call[c].age /\ opened >= Cooldown
  BY DEF BreakerInv, ProbeAge, CooldownElapsed
<1>3. QED
  BY <1>1, <1>2, BreakerAssumption

\* Admitting a call, probe or not, keeps the invariant.
LEMMA AdmitStep ==
    ASSUME BreakerInv, NEW c \in Caller, Admit(c)
    PROVE  BreakerInv'
<1> PICK endpoint \in Endpoint : PermitCall(c, endpoint) \/ PermitProbe(c, endpoint)
  BY DEF Admit
<1> USE BreakerAssumption
<1>1. CASE PermitCall(c, endpoint)
  <2>1. current = "Closed" /\ ~probeInFlight
    BY <1>1 DEF PermitCall, GateDecision, BreakerInv, StateMatchesCounter, BreakerTypeOK, CircuitState
  <2>2. call' = [call EXCEPT ![c] = [endpoint |-> endpoint, probe |-> FALSE, age |-> 0]]
    BY <1>1, <2>1 DEF PermitCall, Sent
  <2>3. BreakerTypeOK'
    BY <1>1, <2>1, <2>2 DEF PermitCall, BreakerInv, BreakerTypeOK, Calls
  <2>4. Probes' \subseteq Probes
    BY <2>2 DEF Probes, InFlight, BreakerInv, BreakerTypeOK
  <2>5. StateMatchesCounter' /\ ProbeAge' /\ SingleProbe'
    BY <1>1, <2>1, <2>4 DEF PermitCall, BreakerInv, StateMatchesCounter, ProbeAge, SingleProbe
  <2>6. QED
    BY <2>3, <2>5 DEF BreakerInv
<1>2. CASE PermitProbe(c, endpoint)
  <2>1. current = "Open" /\ CooldownElapsed
    BY <1>2 DEF PermitProbe, GateDecision, BreakerInv, BreakerTypeOK, CircuitState
  <2>2. call' = [call EXCEPT ![c] = [endpoint |-> endpoint, probe |-> TRUE, age |-> 0]]
    BY <1>2 DEF PermitProbe, Sent
  <2>3. Probes' \subseteq {c}
    BY <2>1, <2>2, NoOldProbe DEF Probes, InFlight, BreakerInv, BreakerTypeOK
  <2>4. BreakerTypeOK'
    BY <1>2, <2>2 DEF PermitProbe, BreakerInv, BreakerTypeOK, Calls, CircuitState
  <2>5. StateMatchesCounter' /\ ProbeAge' /\ SingleProbe'
    BY <1>2, <2>1, <2>3 DEF PermitProbe, BreakerInv, StateMatchesCounter, ProbeAge, SingleProbe
  <2>6. QED
    BY <2>4, <2>5 DEF BreakerInv
<1>3. QED
  BY <1>1, <1>2

\* Whatever outcome a call reports, and in whatever state the breaker is by
\* then, the invariant is kept.
LEMMA OutcomeStep ==
    ASSUME BreakerInv, NEW c \in Caller,
           Success(c) \/ Failure(c) \/ Unrecorded(c) \/ Cancelled(c)
    PROVE  BreakerInv'
<1> USE BreakerAssumption
<1>1. /\ call' \in [Caller -> Calls]
      /\ Probes' \subseteq Probes
      /\ \A d \in Probes' : call'[d] = call[d]
  BY EndedProbes DEF BreakerInv, Success, Failure, Unrecorded, Cancelled
<1>2. SingleProbe'
  BY <1>1 DEF BreakerInv, SingleProbe
<1>3. CASE Success(c)
  <2>1. /\ current' = "Closed" /\ consecutiveFailures' = 0
        /\ opened' = 0 /\ probeInFlight' = FALSE
    BY <1>3 DEF Success, RecordSuccess
  <2>2. /\ consecutiveFailures' \in 0..CountMax /\ opened' \in 0..Cooldown
        /\ consecutiveFailures' < Threshold
    BY <2>1
  <2>3. BreakerTypeOK'
    BY <1>1, <2>1, <2>2 DEF BreakerTypeOK, CircuitState
  <2>4. StateMatchesCounter' /\ ProbeAge'
    BY <2>1, <2>2 DEF StateMatchesCounter, ProbeAge
  <2>5. QED
    BY <1>2, <2>3, <2>4 DEF BreakerInv
<1>4. CASE Failure(c)
  <2> USE <1>4 DEF Failure, RecordFailure, BreakerInv, BreakerTypeOK, CircuitState
  <2>1. Saturating(consecutiveFailures) \in 0..CountMax
        /\ Saturating(consecutiveFailures) >= consecutiveFailures
    BY DEF Saturating
  <2>2. BreakerTypeOK'
    <3>1. current' \in CircuitState /\ opened' \in 0..Cooldown
      OBVIOUS
    <3>2. probeInFlight' = FALSE
      OBVIOUS
    <3>3. QED
      BY <1>1, <2>1, <3>1, <3>2
  <2>3. StateMatchesCounter'
    BY <2>1 DEF StateMatchesCounter, ShouldOpen
  <2>4. ProbeAge'
    <3>1. \A d \in Probes : call[d].age \in Nat
      BY DEF Probes, Calls
    <3>2. QED
      BY <1>1, <3>1 DEF ProbeAge, ShouldOpen
  <2>5. QED
    BY <1>2, <2>2, <2>3, <2>4
<1>5. CASE Unrecorded(c) \/ Cancelled(c)
  BY <1>1, <1>2, <1>5
     DEF Unrecorded, Cancelled, BreakerInv, BreakerTypeOK, StateMatchesCounter, ProbeAge
<1>6. QED
  BY <1>3, <1>4, <1>5

\* Time ages the opening and every call alike.
LEMMA BreakerTickStep ==
    ASSUME BreakerInv, BreakerTick
    PROVE  BreakerInv'
<1> USE BreakerAssumption DEF BreakerInv, BreakerTypeOK
<1>1. \A c \in Caller : call[c] \in Calls
  OBVIOUS
<1>2. ASSUME NEW c \in Caller
      PROVE  /\ call'[c] \in Calls
             /\ call'[c].endpoint = call[c].endpoint
             /\ call'[c].probe = call[c].probe
             /\ InFlight(c) => call'[c].age = call[c].age + 1
  BY <1>1 DEF BreakerTick, Calls, InFlight
<1>3. BreakerTypeOK'
  BY <1>2 DEF BreakerTick
<1>4. Probes' = Probes
  BY <1>2 DEF Probes, InFlight
<1>5. StateMatchesCounter' /\ SingleProbe'
  BY <1>4 DEF BreakerTick, StateMatchesCounter, SingleProbe
<1>6. ProbeAge'
  <2>1. \A c \in Probes : call[c].age \in Nat /\ call'[c].age = call[c].age + 1
    BY <1>1, <1>2 DEF Probes, Calls
  <2>2. current' = current /\ opened' <= opened + 1
    BY DEF BreakerTick
  <2>3. QED
    BY <1>4, <2>1, <2>2 DEF BreakerTick, ProbeAge
<1>7. QED
  BY <1>3, <1>5, <1>6

\* The invariant holds in every reachable state.
LEMMA BreakerInvariant == BreakerSpec => []BreakerInv
<1>1. BreakerInit => BreakerInv
  BY BreakerStart
<1>2. BreakerInv /\ [BreakerNext]_breakerVars => BreakerInv'
  <2> SUFFICES ASSUME BreakerInv, [BreakerNext]_breakerVars PROVE BreakerInv'
    OBVIOUS
  <2>1. CASE BreakerNext
    BY <2>1, AdmitStep, OutcomeStep, BreakerTickStep DEF BreakerNext
  <2>2. CASE UNCHANGED breakerVars
    BY <2>2 DEF breakerVars, BreakerInv, BreakerTypeOK, StateMatchesCounter, ProbeAge, SingleProbe, Probes, InFlight
  <2>3. QED
    BY <2>1, <2>2
<1>3. QED
  BY <1>1, <1>2, PTL DEF BreakerSpec

\* At most one probe travels, although the gate that guards it may be
\* released by the outcome of another call.
THEOREM SingleProbeCorrect == BreakerSpec => []SingleProbe
<1>1. BreakerInv => SingleProbe
  BY DEF BreakerInv
<1>2. QED
  BY <1>1, BreakerInvariant, PTL

\* The breaker is closed exactly while fewer than Threshold failures were
\* recorded since the last success, and holds its gate exactly in HalfOpen.
THEOREM CounterCorrect == BreakerSpec => []StateMatchesCounter
<1>1. BreakerInv => StateMatchesCounter
  BY DEF BreakerInv
<1>2. QED
  BY <1>1, BreakerInvariant, PTL

\* How a breaker gets stuck in HalfOpen, the exception of BreakerRecovers: it
\* is stranded only by a probe that ends without reporting its outcome (an
\* answer of authorize that is not recorded, or a dropped future), and from
\* there nothing but the late outcome of an older call leads out: the gate
\* admits nobody and no amount of time helps.
THEOREM OnlySilenceStrands ==
    BreakerSpec =>
      /\ [][Stranded' /\ ~Stranded => \E c \in Probes : Unrecorded(c) \/ Cancelled(c)]_breakerVars
      /\ [][Stranded /\ ~Stranded' => \E c \in Caller : Success(c) \/ Failure(c)]_breakerVars
<1> DEFINE Silenced == Stranded' /\ ~Stranded => \E c \in Probes : Unrecorded(c) \/ Cancelled(c)
           Rescued == Stranded /\ ~Stranded' => \E c \in Caller : Success(c) \/ Failure(c)
<1>1. BreakerInv /\ [BreakerNext]_breakerVars => [Silenced]_breakerVars /\ [Rescued]_breakerVars
  <2> SUFFICES ASSUME BreakerInv, BreakerNext PROVE Silenced /\ Rescued
    BY Zenon
  <2> USE DEF Stranded
  <2>1. ASSUME NEW c \in Caller, Admit(c) PROVE Silenced /\ Rescued
    <3> PICK endpoint \in Endpoint : PermitCall(c, endpoint) \/ PermitProbe(c, endpoint)
      BY <2>1 DEF Admit
    <3>1. current # "HalfOpen"
      BY DEF PermitCall, PermitProbe, GateDecision, BreakerInv, StateMatchesCounter
    <3>2. CASE PermitCall(c, endpoint)
      BY <3>1, <3>2 DEF PermitCall
    <3>3. CASE PermitProbe(c, endpoint)
      <4>1. c \in Probes'
        BY <3>3 DEF PermitProbe, Sent, Probes, InFlight, Endpoint, BreakerInv, BreakerTypeOK
      <4>2. QED
        BY <3>1, <4>1
    <3>4. QED
      BY <3>2, <3>3
  <2>2. ASSUME NEW c \in Caller, Success(c) \/ Failure(c) PROVE Silenced /\ Rescued
    <3>1. current' # "HalfOpen" \/ (current' = current /\ current # "HalfOpen")
      BY <2>2 DEF Success, RecordSuccess, Failure, RecordFailure, ShouldOpen
    <3>2. QED
      BY <2>2, <3>1
  <2>3. ASSUME NEW c \in Caller, Unrecorded(c) \/ Cancelled(c) PROVE Silenced /\ Rescued
    <3>1. current' = current /\ Ended(c)
      BY <2>3 DEF Unrecorded, Cancelled
    <3>2. /\ Probes' \subseteq Probes
          /\ \A d \in Probes : d # c => d \in Probes'
      BY <3>1, EndedProbes DEF BreakerInv, Ended, Probes, InFlight, BreakerTypeOK
    <3>3. QED
      BY <2>3, <3>1, <3>2
  <2>4. ASSUME BreakerTick PROVE Silenced /\ Rescued
    <3>1. current' = current /\ Probes' = Probes
      BY <2>4 DEF BreakerTick, Probes, InFlight, BreakerInv, BreakerTypeOK, Calls
    <3>2. QED
      BY <3>1
  <2>5. QED
    BY <2>1, <2>2, <2>3, <2>4 DEF BreakerNext
<1>2. QED
  BY <1>1, BreakerInvariant, PTL DEF BreakerSpec
=============================================================================
