SPECIFICATION FairSpec
CONSTANTS
    MaxMemory = 3
    MaxOutput = 2
    MaxStderr = 1
    Sizes = {1, 2}
CHECK_DEADLOCK FALSE
INVARIANTS
    TypeOK
    BudgetsHold
    NothingLost
    VerdictTellsCause
PROPERTIES
    StopsWhenTold
