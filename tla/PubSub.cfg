CONSTANTS
    Publisher = c1
    First = c2
    Second = c3
    Source = s1
    Sink = s2
    Topic = t1
    Other = t2
    Prefix = p1
    Services = {s1, s2}
    Conns = {c1, c2, c3}
    LocalServices = {}
    MaxTokens = 3
    InProcess = InProcess
    None = None
    Publishers = {c1}
    Topics = {t1, t2}
    Prefixes = {p1}
    StartsWith <- MCStartsWith
    MaxEvents = 2
SPECIFICATION MCSpec
INVARIANTS
    PubSubTypeOK
    OnceInOrder
    NeverToTheReplaced
PROPERTIES
    SubscribersHear
CHECK_DEADLOCK FALSE
