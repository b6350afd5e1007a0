CONSTANTS
    r1 = r1
    r2 = r2
    r3 = r3
    box = box
    twin = twin
    vm1 = vm1
    vm2 = vm2
    Rid = {r1, r2}
    Target = {box, twin}
    Instance = {vm1, vm2}
    InstanceOf <- SharedName
    Deployed <- Booted
    TTL = 1
    Leeway = 1
    Watched = box
    Scratch = box
    Protected = {twin}
    Deadline = 1
    Expiry = TRUE
SPECIFICATION Spec
SYMMETRY RidSymmetry
INVARIANTS
    TypeOK
    FenceHolds
    FenceIsPrecise
    NothingUnlogged
PROPERTIES
    QueueLosesNothing
    BlipDoesNotFire
