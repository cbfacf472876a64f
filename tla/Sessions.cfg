CONSTANTS
    Services = {s1, s2}
    Conns = {c1, c2}
    LocalServices = {s1}
    MaxTokens = 2
    InProcess = InProcess
    None = None
SPECIFICATION MCFairSpec
INVARIANTS
    TypeOK
    SingleUseTokens
    NoDanglingEntry
    CapsNotFromAnother
PROPERTIES
    NoForeignEviction
    SessionsEnd
CHECK_DEADLOCK FALSE
