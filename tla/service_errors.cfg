SPECIFICATION Spec
CONSTANTS
    Caller = {c1, c2}
    Searcher = {c1, c2}
    MaySearch = {c1}
    Orders <- SomeOrders
    KeySets <- SomeKeys
    IP = {ip1}
    RateLimit = 1
    Minute = 2
    MaxCalls = 1
INVARIANT ProviderErrorsTold
CHECK_DEADLOCK FALSE
