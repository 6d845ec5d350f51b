SPECIFICATION FairSpec
CONSTANTS
    Ids = {1, 2}
    MaxCalls = 2
    MaxConcurrent = 2
    Batches <- GrantedOnly
CHECK_DEADLOCK FALSE
PROPERTIES
    CallbacksEnd
    StopReturns
    WaitEnds
