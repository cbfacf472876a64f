CONSTANTS
    Services = {s1}
    Conns = {c1, c2}
    LocalServices = {}
    MaxTokens = 2
    InProcess = InProcess
    None = None
SPECIFICATION Spec
PROPERTIES
    SuccessorKeepsEntry
CHECK_DEADLOCK FALSE
