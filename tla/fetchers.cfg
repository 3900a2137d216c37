SPECIFICATION FairSpec
CONSTANTS
    Caller = {c1, c2}
    Sleeper = {c1, c2}
    Solver = {c1, c2}
    Base = 2
    MaxDelay = 1
    Threshold = 2
    Cooldown = 1
    Chain <- Solvers2
    BlockPage <- Pages
    PollInterval = 1
    PollTimeout = 0
    MaxFetches = 1
INVARIANTS
    TypeOK
    SlotsSpaced
    SleepersApart
    FetchBounded
    OpenBoundsFetch
    PollsBounded
PROPERTY OnlyTheBrowserHangs
CHECK_DEADLOCK FALSE
