SPECIFICATION Spec
CONSTANTS
    a1 = a1
    a2 = a2
    a3 = a3
    p1 = p1
    p2 = p2
    Caller = {a1, a2, a3}
    Process = {a1, a2, a3}
    ProcessOf <- OneEach
    Poller = {q}
    File = {f1, f2, f3}
    None = None
    Platform = "nt"
    Faults = {"write", "unlink"}
    MaxKills = 1
    Attempts = 2
VIEW Referenced
SYMMETRY Symmetry
CHECK_DEADLOCK FALSE
INVARIANTS
    MutualExclusion
    MalformedIsAbandoned
