----------------------------- MODULE MCAuditHook -----------------------------
(* Small instance: two threads in the parent, one in the child.            *)
EXTENDS AuditHook, TLC

CONSTANTS t1, t2, u1

MCProcOf == [c \in {t1, t2, u1} |-> IF c = u1 THEN Child ELSE Parent]

\* Every route, called by clients the hook has nothing to do with.
Routes == [threads |-> {}, clients |-> Ops, mpUsers |-> {}, ids |-> 2, spawns |-> 0,
           killSwitch |-> FALSE]

\* Registrations of one module that race.
Registrations == [Routes EXCEPT !.clients = {"register"}, !.ids = 3]

\* Two threads of one interpreter.
TwoThreads == [Routes EXCEPT !.threads = {t1, t2}, !.clients = {}]

\* Their installations and the kill switch, before anybody asks the kernel.
Installs == [TwoThreads EXCEPT !.ids = 1, !.killSwitch = TRUE]

\* One thread and the child it starts.
Children == [Routes EXCEPT !.threads = {t1, u1}, !.clients = {}, !.ids = 1, !.spawns = 1,
                           !.killSwitch = TRUE]

\* Forks while two threads enter and leave wrap_multiprocessing.
Multiprocessing == [Routes EXCEPT !.threads = {t1, t2, u1}, !.clients = {},
                                  !.mpUsers = {t1, t2}, !.ids = 0, !.spawns = 1]

SlotSymmetry == Permutations(Slots)

MCScopes == {Routes, Registrations, TwoThreads, Installs, Children, Multiprocessing}
=============================================================================
