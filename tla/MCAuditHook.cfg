SPECIFICATION Spec
CONSTANTS
    t1 = t1
    t2 = t2
    u1 = u1
    Callers = {t1, t2, u1}
    Nobody = nobody
    Modules = {m1}
    Items = {item}
    Slots = {s1, s2}
    MaxIds = 3
    Parent = parent
    Child = child
    ProcOf <- MCProcOf
    Scopes <- MCScopes
INVARIANTS
    TypeOK
    TokenBacked
    OneReceiptPerRow
    ImportAuthorised
    ChildRunsTarget
    PatchHeld
SYMMETRY SlotSymmetry
CHECK_DEADLOCK FALSE
