SPECIFICATION FairSpec
CONSTANTS
    MaxAttempts = 2
    MaxFaults = 2
CHECK_DEADLOCK FALSE
INVARIANTS
    RecordIsTrue
PROPERTIES
    CancelsItsOwn
    DeadlineStops
