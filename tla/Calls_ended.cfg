CONSTANTS
    Services = {s1}
    Conns = {c1}
    First = c1
    Second = c1
    Service = s1
    MaxTokens = 1
    InProcess = InProcess
    None = None
    CallIds = {k2}
    Timed = {}
    Authed = {}
    Catalog <- MCCatalog
    LocalServices = {}
    LocalCatalog <- MCLocalCatalog
SPECIFICATION MCFairSpec
PROPERTIES
    EndedSessionsRelease
CHECK_DEADLOCK FALSE
