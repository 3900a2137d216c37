SPECIFICATION FairSpec
CONSTANTS
    Call = {c1}
    Threshold = 2
    Cooldown = 2
    RetryMax = 3
    HasSolver = TRUE
    HasSession = TRUE
    NoFallback = FALSE
    NProxy = 2
    MaxFails = 2
    Rest = 1
    Rotation = "roundRobin"
    Weight <- UnitWeight
    Cycle = 2
    MaxSearches = 2
INVARIANTS
    RequestsBounded
    BlameEarned
PROPERTIES
    CooldownKept
    SearchReturns
CHECK_DEADLOCK FALSE
