SPECIFICATION Spec
CONSTANTS
    Process = {p1, p2, p3}
    Server = {s1, s2}
    None = None
    Faults = {"scan", "write", "unlink"}
    MaxDeaths = 2
CHECK_DEADLOCK FALSE
PROPERTIES
    GrantedAlone
    ImplementsAtomicLock
