CONSTANTS
    c1 = c1
    c2 = c2
    c3 = c3
    Caller = {c1, c2, c3}
    Threshold = 3
    Cooldown = 4
    CallTimeout = 3
    CountMax = 5
SPECIFICATION FairSpec
INVARIANTS
    SingleProbe
    StateMatchesCounter
PROPERTIES
    BreakerRecovers
