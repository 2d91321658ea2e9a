\* One process: two starts, one connect, every fault.
SPECIFICATION FairSpec
CONSTANTS
    SessionFaults = {"clear", "release", "persist"}
    MaxStarts = 2
    MaxConnects = 1
INVARIANTS SessionInv NothingLeaks
CHECK_DEADLOCK FALSE
PROPERTIES EndedStaysEnded StartEnds
