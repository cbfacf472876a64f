CONSTANTS
    Services = {s1}
    Conns = {c1, c2}
    First = c1
    Second = c2
    Service = s1
    MaxTokens = 2
    InProcess = InProcess
    None = None
    CallIds = {k1, k2}
    Timed = {k1}
    Authed = {k1}
    Catalog <- MCCatalog
    LocalServices = {s1}
    LocalCatalog <- MCLocalCatalog
SPECIFICATION MCSpec
INVARIANTS
    CallsTypeOK
    Correlation
    OnlyPermittedRuns
    NoPendingLeak
PROPERTIES
    ImplementsRpc
CHECK_DEADLOCK FALSE
