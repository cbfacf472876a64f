CONSTANTS
    Inner = k1
    Outer = k2
    Caller = j1
    CallIds = {k1, k2}
    Jobs = {j1}
    Nested <- MCNested
    NoCall = NoCall
    Threshold = 2
SPECIFICATION FairSpec
INVARIANTS
    ClientTypeOK
    OwnReply
    WaitersArePending
PROPERTIES
    JobsFinish
    LossEndsMain
    IdleAppsExit
    ConnectGivesUp
CHECK_DEADLOCK FALSE
