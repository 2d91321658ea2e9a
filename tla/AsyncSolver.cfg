SPECIFICATION FairSpec
CONSTANTS
    Client = {client1, client2}
    Stages = 1
    None = None
    MaxRuns = 2
    MaxStudies = 1
    MaxCalls = 4
    MaxDepth = 5
CHECK_DEADLOCK FALSE
INVARIANTS
    CancelIsHeeded
    EndIsHeard
PROPERTIES
    ImplementsSlot
    AllReturn
