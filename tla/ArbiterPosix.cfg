SPECIFICATION FairSpec
CONSTANTS
    a1 = a1
    a2 = a2
    a3 = a3
    p1 = p1
    p2 = p2
    Caller = {a1, a2}
    Process = {a1, a2}
    ProcessOf <- OneEach
    Poller = {}
    File = {f1, f2}
    None = None
    Platform = "posix"
    Faults = {"write"}
    MaxKills = 1
    Attempts = 2
CHECK_DEADLOCK FALSE
INVARIANTS
    ClaimSurvives
PROPERTIES
    DeadOwnerRecovered
