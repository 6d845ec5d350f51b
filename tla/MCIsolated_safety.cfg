SPECIFICATION Spec
CONSTANTS
    MaxCalls = 4
    MaxConcurrent = 2
CHECK_DEADLOCK FALSE
INVARIANTS
    TypeOK
    OutcomeIsEarned
PROPERTIES
    FlagsHaveCause
