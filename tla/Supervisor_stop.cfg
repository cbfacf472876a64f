CONSTANTS
    Loops = {l1, l2}
    Callers = {t1}
    MaxStates = 1
    MaxProcs = 1
    MaxBackoff = 3
    NoTask = NoTask
SPECIFICATION FairSpec
PROPERTIES
    StopsFinish
CHECK_DEADLOCK FALSE
