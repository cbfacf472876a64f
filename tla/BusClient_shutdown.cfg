CONSTANTS
    Inner = k1
    Outer = k2
    Caller = j1
    CallIds = {k1, k2}
    Jobs = {j1}
    Nested <- MCNested
    NoCall = NoCall
    Threshold = 2
SPECIFICATION FairSpec
PROPERTIES
    ShutdownEndsMain
CHECK_DEADLOCK FALSE
