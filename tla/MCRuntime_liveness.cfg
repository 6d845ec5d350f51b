SPECIFICATION FairSpec
CONSTANTS
    r1 = r1
    k1 = k1
    Calls <- OneRunOneCompile
    Compiles = {k1}
    MaxConcurrency = 1
    MaxRestarts = 0
CHECK_DEADLOCK FALSE
PROPERTIES
    EveryCallEnds
    SlotsReturn
