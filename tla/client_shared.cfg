SPECIFICATION Spec
CONSTANTS
    Call = {c1, c2}
    Threshold = 2
    Cooldown = 1
    RetryMax = 1
    HasSolver = TRUE
    HasSession = TRUE
    NoFallback = FALSE
    NProxy = 0
    MaxFails = 1
    Rest = 1
    Rotation = "roundRobin"
    Weight <- UnitWeight
    Cycle = 1
    MaxSearches = 1
INVARIANTS
    TypeOK
    OpenMeansTripped
    OpenBoundsRequests
    OwnTokenFresh
SYMMETRY Symmetry
CHECK_DEADLOCK FALSE
