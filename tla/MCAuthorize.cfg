CONSTANTS
    r1 = r1
    r2 = r2
    chat = chat
    shell = shell
    Request = {r1, r2}
    Action = {chat, shell}
    ApiAllowed = {chat}
    DefaultTTL = 1
    MaxTTL = 1
    TTLLimit = 2
    Forms <- MCForms
    Leeway = 1
    MaxTime = 3
SPECIFICATION Spec
CHECK_DEADLOCK FALSE
SYMMETRY RequestSymmetry
INVARIANTS
    NoSilentAllow
    ForwardedIsLogged
    DecisionIsFresh
    AuditIsRight
