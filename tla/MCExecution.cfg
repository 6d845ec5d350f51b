SPECIFICATION ExecutionSpec
CONSTANTS
    Ids = {1, 2, 3}
    MaxCalls = 3
    MaxConcurrent = 2
    Batches <- NoBatches
    MaxNesting = 1
    MaxCount = 4
CHECK_DEADLOCK FALSE
INVARIANTS
    BrokerAcceptsBridge
    PromisesMatch
    LimitIsFatal
PROPERTIES
    ImplementsCallbacks
