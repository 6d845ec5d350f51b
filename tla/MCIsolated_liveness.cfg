SPECIFICATION FairSpec
CONSTANTS
    MaxCalls = 3
    MaxConcurrent = 2
CHECK_DEADLOCK FALSE
PROPERTIES
    RunAnswers
    ChildStops
