SPECIFICATION Spec
CONSTANTS
    Call = {c1, c2}
    Threshold = 3
    Cooldown = 1
    RetryMax = 1
    HasSolver = FALSE
    HasSession = FALSE
    NoFallback = TRUE
    NProxy = 2
    MaxFails = 1
    Rest = 1
    Rotation = "roundRobin"
    Weight <- UnitWeight
    Cycle = 2
    MaxSearches = 1
INVARIANT BlameEarned
CHECK_DEADLOCK FALSE
