CONSTANTS
    c1 = c1
    c2 = c2
    c3 = c3
    k1 = k1
    k2 = k2
    k3 = k3
    p1 = p1
    p2 = p2
    Task = {c1, c2}
    Key = {k1, k2}
    Payload = {p1, p2}
    Backends = {"memory", "postgres"}
    MaxLeaves = 2
    MaxSeq = 4
SPECIFICATION Spec
SYMMETRY LogSymmetry
INVARIANTS
    TypeOK
    AppendIsIdempotent
    MemoryEntryMatchesProof
    ConsistencyAccepted
PROPERTIES
    ImplementsLog
