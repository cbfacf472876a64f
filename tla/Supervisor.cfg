CONSTANTS
    Loops = {l1, l2}
    Callers = {t1}
    MaxStates = 2
    MaxProcs = 2
    MaxBackoff = 2
    NoTask = NoTask
SPECIFICATION FairSpec
INVARIANTS
    SupTypeOK
    OneProcessPerApp
    ResidentHasLoop
PROPERTIES
    CrashesRestart
CHECK_DEADLOCK FALSE
