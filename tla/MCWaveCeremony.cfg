CONSTANTS
    p1 = p1
    p2 = p2
    s1 = s1
    s2 = s2
    Plan <- MCPlan
    Session <- MCSession
    Path = {"doc", "gate"}
    SurfaceOf <- MCSurfaceOf
    Verdicts <- MCVerdicts
    MaxRuns = 5
SYMMETRY Symmetry
SPECIFICATION Spec
INVARIANTS
    PurpleTeamHeld
    LearnedSessionHeld
    CompleteIsOneCeremony
    ClosedIsComplete
