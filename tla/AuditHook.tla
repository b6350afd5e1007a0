------------------------------ MODULE AuditHook ------------------------------
(***************************************************************************)
(* The Python audit hook (py-defense/safety_kernel_defense): installing it *)
(* in an interpreter, asking the kernel's authorize route on every audited *)
(* event, and carrying it into child processes (wrap_subprocess,           *)
(* wrap_multiprocessing).  It composes with PolicyRoutes: the threads are  *)
(* that module's Callers.                                                  *)
(*                                                                         *)
(* A process is one interpreter with several threads; nothing locks the    *)
(* installation, so its statements interleave with other installations and *)
(* with the events of other threads.  Every event of the model is of an    *)
(* audited kind (import, exec, compile).  Events raised by the hook's own  *)
(* HTTP call find the guard of their thread set and change nothing.        *)
(***************************************************************************)
EXTENDS PolicyRoutes

CONSTANTS
    Parent, Child,  \* the interpreters
    ProcOf,         \* thread -> its interpreter
    Scopes          \* bounds: what takes part in a behaviour, see Scope

Procs == {Parent, Child}

\* A behaviour stays within one scope: the threads that run, the routes that
\* other clients call, the threads that use wrap_multiprocessing, the number
\* of request ids and of child processes, and whether the kill switch may be
\* turned.
Scope == [threads: SUBSET Callers, clients: SUBSET Ops, mpUsers: SUBSET Callers,
          ids: 0..MaxIds, spawns: {0, 1}, killSwitch: BOOLEAN]

ASSUME HookAssumption ==
    /\ IsFiniteSet(Callers)
    /\ Parent # Child
    /\ ProcOf \in [Callers -> Procs]
    /\ Scopes \subseteq Scope

VARIABLES
    hook,      \* process -> _installed, and what it was asked to guarantee
    killSwitch,\* process -> ARYA_AUDIT_HOOK_DISABLED=1 in its environment
    life,      \* process -> what its main code is doing
    thr,       \* thread -> what it is doing
    mp,        \* _mp_patch_state and Process.run of the parent
    spawns,    \* processes started so far
    imports,   \* events of covered processes that went through
    scope      \* the scope of this behaviour

hookVars == <<hook, killSwitch, life, thr, mp, spawns, imports, scope>>
vars == <<policyVars, hookVars>>

-----------------------------------------------------------------------------
(* State.                                                                  *)

\* fail_closed_on_unreachable of the captured config; "none" is config None.
Configs == {"none", "closed", "open"}

\* armed and config are _installed; hooked is CPython's list of callbacks.
\* covered and lax say what the process may count on: an installation has
\* returned (or the wrapped child has reached its user code), and no kill
\* switch or fail-open config has ever been accepted in it.
NotInstalled == [config |-> "none", armed |-> FALSE, hooked |-> FALSE,
                 covered |-> FALSE, lax |-> FALSE]

\* "none": not started; "prologue": injected code of wrap_subprocess;
\* "mprun": in _patched_run; "lost": _patched_run without an original, which
\* returns without running the target; "dead": the prologue raised.
Lives == {"none", "prologue", "mprun", "user", "lost", "dead"}

ThrSteps == {"idle", "checked", "configured", "asking", "posting"}
Idle == [step |-> "idle", config |-> "none", form |-> "none",
         m |-> CHOOSE m \in Modules : TRUE]

\* Process.run is the original or _patched_run; `original' tells whether the
\* saved one is there; holder is the thread that has _mp_patch_lock.
MpIdle == [count |-> 0, patched |-> FALSE, original |-> FALSE, holder |-> Nobody]

HookInit ==
    /\ hook = [p \in Procs |-> NotInstalled]
    /\ life = [p \in Procs |-> IF p = Parent THEN "user" ELSE "none"]
    /\ thr = [c \in Callers |-> Idle]
    /\ mp = MpIdle
    /\ spawns = 0
    /\ imports = {}
    /\ scope \in Scopes
    /\ killSwitch = [p \in Procs |-> FALSE]

Init == PolicyInit /\ HookInit

Running(c) ==
    c \in scope.threads /\ life[ProcOf[c]] = "user" /\ thr[c].step = "idle"

\* The POSTs of the hook carry the worker key and a correct fingerprint.
Post(op, m) == [op |-> op, m |-> m, pat |-> "match",
                role |-> "worker", wellFormed |-> TRUE]

\* The POST cannot connect or times out (KernelUnavailable).  A handler that
\* was working on it loses its client, not its life.
HttpPostFails(c) ==
    /\ call' = [s \in Slots |-> IF call[s].who = c
                  THEN [call[s] EXCEPT !.who = Nobody] ELSE call[s]]
    /\ UNCHANGED <<registry, sent, answers, chain, ids>>

PostEvent(c) ==
    /\ ids < scope.ids
    /\ \E s \in Slots, m \in Modules : Receive(s, c, Post("event", m))

-----------------------------------------------------------------------------
(* install_audit_hook, one statement that others can see at a time.        *)

\* Armed already: a warning or HookConfigError, and nothing changes.
InstallChecks(c, config) ==
    /\ ~hook[ProcOf[c]].armed
    /\ thr' = [thr EXCEPT ![c].step = "checked", ![c].config = config]
    /\ UNCHANGED <<policyVars, hook, killSwitch, life, mp, spawns, imports, scope>>

InstallBegin(c, config) == Running(c) /\ InstallChecks(c, config)

\* Once installed, a child goes on to the code it was started for.
Returned(p) == IF life[p] \in {"prologue", "mprun"} THEN "user" ELSE life[p]

\* The kill switch is on: the config is kept, the hook is not armed, and the
\* bypass is reported, best effort.
InstallSuppressed(c) ==
    LET p == ProcOf[c] IN
    /\ thr[c].step = "checked"
    /\ killSwitch[p]
    /\ hook' = [hook EXCEPT ![p].config = thr[c].config, ![p].armed = FALSE,
                            ![p].lax = TRUE]
    /\ thr' = [thr EXCEPT ![c] = [Idle EXCEPT !.step = "posting"]]
    /\ \/ PostEvent(c)
       \/ UNCHANGED policyVars
    /\ UNCHANGED <<killSwitch, life, mp, spawns, imports, scope>>

InstallConfigures(c) ==
    LET p == ProcOf[c] IN
    /\ thr[c].step = "checked"
    /\ ~killSwitch[p]
    /\ hook' = [hook EXCEPT ![p].config = thr[c].config,
                            ![p].lax = @ \/ thr[c].config = "open"]
    /\ thr' = [thr EXCEPT ![c].step = "configured"]
    /\ UNCHANGED <<policyVars, killSwitch, life, mp, spawns, imports, scope>>

\* addaudithook, armed = True and the return; report_preloaded_modules posts
\* an event on the way.
InstallArms(c) ==
    LET p == ProcOf[c] IN
    /\ thr[c].step = "configured"
    /\ hook' = [hook EXCEPT ![p].hooked = TRUE, ![p].armed = TRUE,
                            ![p].covered = TRUE]
    /\ \/ /\ thr' = [thr EXCEPT ![c] = [Idle EXCEPT !.step = "posting"]]
          /\ PostEvent(c)
          /\ UNCHANGED life
       \/ /\ thr' = [thr EXCEPT ![c] = Idle]
          /\ life' = [life EXCEPT ![p] = Returned(p)]
          /\ UNCHANGED policyVars
    /\ UNCHANGED <<killSwitch, mp, spawns, imports, scope>>

\* The command lines wrap_subprocess tells apart: python with -c, with a
\* script, with a script that is a Path, with -m; the same with a -c of its
\* own, and a value for it, among the program's arguments; bare python; and a
\* program that is not python, or a shell command.
Forms == {"code", "script", "path", "module", "scriptC", "pathC", "moduleC", "bare", "foreign"}

\* _inject_python_prologue: the argument the prologue is put in front of.  The
\* first -c is taken for the interpreter's, wherever it stands; the word after
\* -m is taken for a script; what is not a str is left alone.
InjectPythonPrologue(form) ==
    CASE form \in {"code", "script"} -> "program"
      [] form \in {"scriptC", "pathC", "moduleC"} -> "argument"
      [] form = "module" -> "module"
      [] form \in {"bare", "path"} -> "nothing"

\* What the interpreter then runs first: -m refuses the name of a module that
\* the prologue has become, and an argument is only data.
PythonRuns(form) ==
    CASE InjectPythonPrologue(form) = "program" -> "prologue"
      [] InjectPythonPrologue(form) = "module" -> "dead"
      [] OTHER -> "user"

\* What a child started in this form does first.  Without a config in the
\* parent and without the variables in the environment the prologue fails on
\* os.environ, and the child ends before its user code.
StartsAs(form) ==
    CASE form = "foreign" -> {"none"}
      [] form # "foreign" /\ PythonRuns(form) = "prologue" /\ hook[Parent].config = "none"
            -> {"prologue", "dead"}
      [] OTHER -> {PythonRuns(form)}

\* The forms in which a child may count on the hook.  The others run without
\* it, and only "foreign" is reported.
Propagated == {"code", "script"}

\* The caller's env= may set the kill switch for the child, or drop it.
Popen(form) ==
    /\ \E l \in StartsAs(form) : life' = [life EXCEPT ![Child] = l]
    /\ \E on \in {killSwitch[Parent], scope.killSwitch} :
          killSwitch' = [killSwitch EXCEPT ![Child] = on]
    /\ hook' = [hook EXCEPT ![Child].covered = form \in Propagated]

\* A best-effort POST ends, with whatever status, or times out; what it was
\* made for goes on.
PostEnds(c) ==
    LET p == ProcOf[c] IN
    /\ thr[c].step = "posting"
    /\ \/ \E s \in Slots : call[s].who = c /\ ReplyTo(s)
       \/ HttpPostFails(c)
    /\ thr' = [thr EXCEPT ![c] = Idle]
    /\ IF thr[c].form # "none"
         THEN Popen(thr[c].form)
         ELSE /\ life' = [life EXCEPT ![p] = Returned(p)]
              /\ UNCHANGED <<hook, killSwitch>>
    /\ UNCHANGED <<mp, spawns, imports, scope>>

\* The environment of a process changes.
SetKillSwitch(p) ==
    /\ scope.killSwitch
    /\ life[p] = "user"
    /\ killSwitch' = [killSwitch EXCEPT ![p] = ~@]
    /\ UNCHANGED <<policyVars, hook, life, thr, mp, spawns, imports, scope>>

-----------------------------------------------------------------------------
(* _audit_callback.                                                        *)

\* The re-entrancy guard as a plain module attribute.
InHookAnyThread(c) ==
    \E d \in Callers : ProcOf[d] = ProcOf[c] /\ thr[d].step = "asking"

\* The re-entrancy guard is thread-local.
InHookGuard(c) == thr[c].step = "asking"

Forwards(c) ==
    LET h == hook[ProcOf[c]] IN
    h.hooked /\ h.config # "none" /\ h.armed /\ ~InHookGuard(c)

\* What goes through in a process that counts on the hook is remembered with
\* the request that allowed it (0: nobody was asked).
GoesThrough(c, m, id) ==
    LET h == hook[ProcOf[c]] IN
    imports' = IF h.covered /\ ~h.lax THEN imports \cup {[m |-> m, id |-> id]}
                                      ELSE imports

\* An event the callback does not forward goes through.
EventPasses(c, m) ==
    /\ Running(c)
    /\ ~Forwards(c)
    /\ GoesThrough(c, m, 0)
    /\ UNCHANGED <<policyVars, hook, killSwitch, life, thr, mp, spawns, scope>>

\* Otherwise the thread sets its guard and asks the kernel; the config it
\* read stays with it until the answer.  The kernel may be out of reach.
EventAsks(c, m) ==
    /\ Running(c)
    /\ Forwards(c)
    /\ \/ ids < scope.ids /\ \E s \in Slots : Receive(s, c, Post("authorize", m))
       \/ UNCHANGED policyVars
    /\ thr' = [thr EXCEPT ![c] = [Idle EXCEPT !.step = "asking", !.m = m,
                                         !.config = hook[ProcOf[c]].config]]
    /\ UNCHANGED <<hook, killSwitch, life, mp, spawns, imports, scope>>

\* 200 lets the event through, every other status raises.
EventAnswered(c) ==
    /\ thr[c].step = "asking"
    /\ \E s \in Slots :
          /\ call[s].who = c
          /\ ReplyTo(s)
          /\ IF call[s].status = 200 THEN GoesThrough(c, thr[c].m, call[s].line.id)
                                     ELSE UNCHANGED imports
    /\ thr' = [thr EXCEPT ![c] = Idle]
    /\ UNCHANGED <<hook, killSwitch, life, mp, spawns, scope>>

\* The POST times out or cannot connect: the event raises under a
\* fail-closed config and goes through under a fail-open one.
EventUnavailable(c) ==
    /\ thr[c].step = "asking"
    /\ HttpPostFails(c)
    /\ IF thr[c].config = "closed" THEN UNCHANGED imports
                                   ELSE GoesThrough(c, thr[c].m, 0)
    /\ thr' = [thr EXCEPT ![c] = Idle]
    /\ UNCHANGED <<hook, killSwitch, life, mp, spawns, scope>>

-----------------------------------------------------------------------------
(* Children.                                                               *)

\* A caller's env= without the variables, and a child that is not python, are
\* reported to the kernel, best effort, before the child is started; with no
\* config there is nowhere to report to.
WrapSubprocess(c, form, stripped) ==
    /\ Running(c) /\ ProcOf[c] = Parent
    /\ spawns < scope.spawns
    /\ spawns' = spawns + 1
    /\ IF hook[Parent].config # "none" /\ (stripped \/ form = "foreign")
         THEN /\ thr' = [thr EXCEPT ![c] = [Idle EXCEPT !.step = "posting", !.form = form]]
              /\ PostEvent(c) \/ UNCHANGED policyVars
              /\ UNCHANGED <<hook, killSwitch, life>>
         ELSE Popen(form) /\ UNCHANGED <<policyVars, thr>>
    /\ UNCHANGED <<mp, imports, scope>>

\* The main thread of the child runs the prologue's install_audit_hook.  Its
\* fail-closed flag is the parent's, unless a value already in the environment
\* keeps it out.
Prologue(c) ==
    LET p == ProcOf[c] IN
    /\ life[p] = "prologue"
    /\ thr[c].step = "idle"
    /\ \E config \in {"closed", "open"} : InstallChecks(c, config)

\* _patched_run in a forked child: it installs again with the inherited
\* config, which fails on an armed hook and is only logged, then runs the
\* target.
PatchedRun(c) ==
    LET p == ProcOf[c] IN
    /\ life[p] = "mprun"
    /\ thr[c].step = "idle"
    /\ IF hook[p].config # "none" /\ ~hook[p].armed
         THEN InstallChecks(c, hook[p].config)
         ELSE /\ life' = [life EXCEPT ![p] = "user"]
              /\ UNCHANGED <<policyVars, hook, killSwitch, thr, mp, spawns, imports, scope>>

\* A multiprocessing child is forked: it inherits the interpreter's state as
\* it is at that instant, Process.run and the saved original included.
Fork(c) ==
    /\ Running(c) /\ ProcOf[c] = Parent
    /\ spawns < scope.spawns
    /\ spawns' = spawns + 1
    /\ hook' = [hook EXCEPT ![Child] = hook[Parent]]
    /\ killSwitch' = [killSwitch EXCEPT ![Child] = killSwitch[Parent]]
    /\ life' = [life EXCEPT ![Child] = IF ~mp.patched THEN "user"
                                       ELSE IF mp.original THEN "mprun" ELSE "lost"]
    /\ UNCHANGED <<policyVars, thr, mp, imports, scope>>

-----------------------------------------------------------------------------
(* wrap_multiprocessing.                                                   *)

\* __enter__ under the lock: the first user saves Process.run ...
MpSave(c) ==
    /\ Running(c) /\ c \in scope.mpUsers
    /\ mp.holder = Nobody /\ mp.count = 0
    /\ mp' = [mp EXCEPT !.original = TRUE, !.holder = c]
    /\ UNCHANGED <<policyVars, hook, killSwitch, life, thr, spawns, imports, scope>>

\* ... and replaces it; every user is counted.
MpEnter(c) ==
    /\ Running(c) /\ c \in scope.mpUsers
    /\ \/ mp.holder = c /\ mp.count = 0 /\ ~mp.patched
       \/ mp.holder = Nobody /\ mp.count \in 1..(Cardinality(scope.mpUsers) - 1)
    /\ mp' = [mp EXCEPT !.patched = TRUE, !.holder = Nobody, !.count = @ + 1]
    /\ UNCHANGED <<policyVars, hook, killSwitch, life, thr, spawns, imports, scope>>

\* The exit that does not count its users.
MpExitUncounted(c) ==
    /\ Running(c) /\ c \in scope.mpUsers
    /\ mp.holder = Nobody /\ mp.count > 0
    /\ mp' = [mp EXCEPT !.count = @ - 1, !.patched = FALSE,
                        !.holder = IF mp.count = 1 THEN c ELSE @]
    /\ UNCHANGED <<policyVars, hook, killSwitch, life, thr, spawns, imports, scope>>

\* The exit that clears the saved original before it restores Process.run.
MpExitClearsFirst(c) ==
    /\ Running(c) /\ c \in scope.mpUsers
    /\ mp.holder = Nobody /\ mp.count > 0
    /\ mp' = IF mp.count = 1
               THEN [mp EXCEPT !.count = 0, !.original = FALSE, !.holder = c]
               ELSE [mp EXCEPT !.count = @ - 1]
    /\ UNCHANGED <<policyVars, hook, killSwitch, life, thr, spawns, imports, scope>>

\* The exit that runs although the entry has not.
MpExitUnbalanced(c) ==
    /\ Running(c) /\ c \in scope.mpUsers
    /\ mp.holder = Nobody
    /\ mp' = IF mp.count = 1
               THEN [mp EXCEPT !.count = 0, !.patched = FALSE, !.holder = c]
               ELSE [mp EXCEPT !.count = @ - 1]
    /\ UNCHANGED <<policyVars, hook, killSwitch, life, thr, spawns, imports, scope>>

\* __exit__ under the lock: the last user restores Process.run ...
MpExit(c) ==
    /\ Running(c) /\ c \in scope.mpUsers
    /\ mp.holder = Nobody /\ mp.count > 0
    /\ mp' = IF mp.count = 1
               THEN [mp EXCEPT !.count = 0, !.patched = FALSE, !.holder = c]
               ELSE [mp EXCEPT !.count = @ - 1]
    /\ UNCHANGED <<policyVars, hook, killSwitch, life, thr, spawns, imports, scope>>

\* ... and forgets the saved one.
MpForget(c) ==
    /\ mp.holder = c /\ mp.count = 0 /\ ~mp.patched
    /\ mp' = MpIdle
    /\ UNCHANGED <<policyVars, hook, killSwitch, life, thr, spawns, imports, scope>>

-----------------------------------------------------------------------------
KernelStep ==
    /\ PolicyNext
    /\ UNCHANGED hookVars

OtherClient ==
    /\ ids < scope.ids
    /\ \E s \in Slots, req \in {r \in Request : r.op \in scope.clients} :
          Receive(s, Nobody, req)
    /\ UNCHANGED hookVars

Next ==
    \/ KernelStep \/ OtherClient
    \/ \E c \in Callers :
          \/ \E config \in {"closed", "open"} : InstallBegin(c, config)
          \/ InstallSuppressed(c) \/ InstallConfigures(c) \/ InstallArms(c)
          \/ PostEnds(c)
          \/ \E m \in Modules : EventPasses(c, m) \/ EventAsks(c, m)
          \/ EventAnswered(c) \/ EventUnavailable(c)
          \/ \E form \in Forms, stripped \in BOOLEAN : WrapSubprocess(c, form, stripped)
          \/ Prologue(c) \/ PatchedRun(c) \/ Fork(c)
          \/ MpSave(c) \/ MpEnter(c) \/ MpExit(c) \/ MpForget(c)
    \/ \E p \in Procs : SetKillSwitch(p)

Spec == Init /\ [][Next]_vars

-----------------------------------------------------------------------------
(* Properties.                                                             *)

TypeOK ==
    /\ PolicyTypeOK
    /\ hook \in [Procs -> [config: Configs, armed: BOOLEAN, hooked: BOOLEAN,
                           covered: BOOLEAN, lax: BOOLEAN]]
    /\ killSwitch \in [Procs -> BOOLEAN]
    /\ life \in [Procs -> Lives]
    /\ thr \in [Callers -> [step: ThrSteps, config: Configs, m: Modules,
                            form: Forms \cup {"none"}]]
    /\ mp \in [count: 0..Cardinality(Callers), patched: BOOLEAN,
               original: BOOLEAN, holder: Callers \cup {Nobody}]
    /\ spawns \in 0..1
    /\ scope \in Scopes
    /\ imports \subseteq [m: Modules, id: 0..MaxIds]

\* ImportAuthorised: in a process whose installation has returned, that never
\* accepted a kill switch or a fail-open config, and in a python child that
\* wrap_subprocess starts in a form _inject_python_prologue can rewrite
\* (Propagated: a child with a Path for a script, with -m or with a -c among
\* its own arguments runs without the hook), an audited event goes through
\* only if the sidecar allowed that module for that very request: not because
\* another thread is inside the hook, not on somebody else's answer, not on a
\* timeout.
ImportAuthorised ==
    \A i \in imports :
        \E a \in answers : a.id = i.id /\ a.op = "authorize" /\ a.m = i.m
                             /\ a.verdict = "allow"

\* ChildRunsTarget: a child forked at any instant of entering or leaving
\* wrap_multiprocessing runs its target: it never finds _patched_run in place
\* with no original to call.
ChildRunsTarget == \A p \in Procs : life[p] # "lost"

\* PatchHeld: while somebody is inside wrap_multiprocessing, Process.run stays
\* patched, whoever leaves first.
PatchHeld == mp.count > 0 => mp.patched /\ mp.original
=============================================================================
