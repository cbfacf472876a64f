CONSTANTS
    Services = {s1}
    Conns = {c1, c2}
    First = c1
    Second = c2
    Service = s1
    MaxTokens = 2
    InProcess = InProcess
    None = None
    CallIds = {k1, k2}
    Timed = {k1, k2}
    Apped = {k1, k2}
    Early = k1
    Authed = {k1}
    Catalog <- MCCatalog
    LocalServices = {s1}
    LocalCatalog <- MCLocalCatalog
SPECIFICATION MCSpec
INVARIANTS
    AppCorrelation
    OnlyPermittedRuns
PROPERTIES
    AppCallsReturn
    TimedCallsReturn
CHECK_DEADLOCK FALSE
