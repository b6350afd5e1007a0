CONSTANTS
    p1 = p1
    p2 = p2
    Payload = {p1, p2}
    MaxLeaves = 7
SPECIFICATION Spec
CHECK_DEADLOCK FALSE
INVARIANTS
    HashTreeMatchesSlices
    InclusionIsExact
    ConsistencyIsExact
