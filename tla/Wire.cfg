CONSTANTS
    Base = 4
    HeaderLen = 2
    MaxFrame = 3
    MaxFrames = 3
    Frames <- MCFrames
SPECIFICATION Spec
INVARIANTS
    WireTypeOK
    NoRefusal
PROPERTIES
    ImplementsChannel
    FramesArrive
    LossIsNoticed
CHECK_DEADLOCK FALSE
