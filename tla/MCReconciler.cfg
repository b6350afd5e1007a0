SPECIFICATION FairSpec
CONSTANTS
    Images <- MCImages
    Configured <- MCConfigured
    NoDigest = NoDigest
    Digests = {d1, d2}
    MaxAge = 1
    MaxTime = 2
    MaxReleases = 2
    MaxPushes = 1
    MaxCrashes = 1
INVARIANTS
    DecisionIsGrounded
PROPERTY
    DriftReported
\* A registry query that never returns stops the loop for good.
CHECK_DEADLOCK FALSE
