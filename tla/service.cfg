SPECIFICATION FairSpec
CONSTANTS
    Caller = {c1, c2}
    Searcher = {c1, c2}
    MaySearch = {c1}
    Orders <- SomeOrders
    KeySets <- SomeKeys
    IP = {ip1}
    RateLimit = 1
    Minute = 2
    MaxCalls = 3
INVARIANTS
    TypeOK
    AnswerJustified
    MetricsAddUp
    TwiceTheLimit
    NobodyLockedOut
    NilMeansAnswered
PROPERTIES
    StopEnds
    OnlyBrowsersHang
CHECK_DEADLOCK FALSE
