SPECIFICATION Spec
CONSTANTS
    Ids = {i1, i2, i3, i4}
    MaxCalls = 3
    MaxConcurrent = 2
    Batches <- AnyBatch
SYMMETRY Interchangeable
CHECK_DEADLOCK FALSE
INVARIANTS
    TypeOK
    NoCallbackOutlivesRun
    RequestsAccounted
    CallbackIsBounded
PROPERTIES
    WithinBudget
