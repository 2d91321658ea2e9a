SPECIFICATION FairSpec
CONSTANTS
    Server = {s1, s2}
    Request = {r1}
    None = None
    MaxLocks = 2
    MaxFaults = 2
    MaxDeaths = 1
CHECK_DEADLOCK FALSE
INVARIANTS
    OneOwner
PROPERTIES
    ReclaimsOnlyUnlaunched
    HandoffResolves
