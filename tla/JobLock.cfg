SPECIFICATION FairSpec
CONSTANTS
    t1 = t1
    t2 = t2
    t3 = t3
    server1 = server1
    server2 = server2
    Thread = {t1, t2, t3}
    Process = {server1, server2}
    ProcessOf <- MCProcessOf
    None = None
    Faults = {"create", "write", "read", "inspect", "unlink"}
    MaxDeaths = 1
CHECK_DEADLOCK FALSE
INVARIANTS
    LeftLockIsDead
PROPERTIES
    ImplementsAtomicLock
    AcquireEnds
    DeadLockRecovered
