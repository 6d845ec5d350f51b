SPECIFICATION Spec
CONSTANTS
    ARCH = 1
    Allowed <- AllowedCalls
    SYS_tgkill = 20
    SYS_fcntl = 21
    Commands <- FcntlCommands
    Pid = 7
    Inputs <- AnyCall
CHECK_DEADLOCK FALSE
INVARIANTS
    VerdictIsPolicy
