SPECIFICATION Spec
CONSTANTS
    Call = {c1}
    Threshold = 2
    Cooldown = 1
    RetryMax = 2
    HasSolver = FALSE
    HasSession = FALSE
    NoFallback = FALSE
    NProxy = 0
    MaxFails = 1
    Rest = 1
    Rotation = "roundRobin"
    Weight <- UnitWeight
    Cycle = 1
    MaxSearches = 2
INVARIANT GaugeFollowsSuccess
CHECK_DEADLOCK FALSE
