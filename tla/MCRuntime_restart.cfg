SPECIFICATION FairSpec
CONSTANTS
    r1 = r1
    k1 = k1
    Calls <- OneRunOneCompile
    Compiles = {k1}
    MaxConcurrency = 1
    MaxRestarts = 1
CHECK_DEADLOCK FALSE
INVARIANTS
    TypeOK
    CapacityRespected
    OneReply
    NothingIsForgotten
PROPERTIES
    SlotRetained
    DeadlineDecides
    KeepsPromise
    WorkStops
