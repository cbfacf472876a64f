CONSTANTS
    Servers = {b1, b2}
    Clients = {x1, x2}
    Old = old
    Backlog = 1
    None = None
SPECIFICATION Spec
INVARIANTS
    ListenTypeOK
    PathServed
    LoneStartsDecide
PROPERTIES
    ConnectReturns
    BacklogIsServed
CHECK_DEADLOCK FALSE
