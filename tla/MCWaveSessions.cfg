CONSTANTS
    Env <- MCEnv
    c1 = c1
    c2 = c2
    s1 = s1
    n1 = n1
    Client = {c1, c2}
    Session = {s1}
    Note = {n1}
    Posted <- MCPosted
    ApiKey = "secret"
    SkillKeys <- MCSkillKeys
    Capacity = 1
    MaxLeaves = 2
    MaxStops = 2
SPECIFICATION Spec
CHECK_DEADLOCK FALSE
SYMMETRY ClientSymmetry
INVARIANTS
    TypeOK
    AnswerMatchesLedger
    LabelsVerify
    AcknowledgedResolves
    CreatedOnce
