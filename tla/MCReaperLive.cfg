CONSTANTS
    r1 = r1
    r2 = r2
    r3 = r3
    box = box
    twin = twin
    vm1 = vm1
    vm2 = vm2
    Rid = {r1, r2}
    Target = {box}
    Instance = {vm1}
    InstanceOf <- OwnName
    Deployed <- WithClient
    TTL = 1
    Leeway = 0
    Watched = box
    Scratch = box
    Protected = {}
    Deadline = 1
    Expiry = FALSE
SPECIFICATION FairSpec
PROPERTIES
    KillTakesEffect
    DarkKernelStops
