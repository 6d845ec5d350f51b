SPECIFICATION Spec
CONSTANTS
    MaxCalls = 2
    MaxConcurrent = 2
CHECK_DEADLOCK FALSE
INVARIANTS
    SettledRootDecides
