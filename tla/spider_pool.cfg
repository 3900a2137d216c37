SPECIFICATION FairSpec
CONSTANTS
    a = a  b = b  c = c  d = d  e = e
    w1 = w1  w2 = w2
    URL = {a, b, c, d, e}
    Start <- CrowdedStart
    Pages <- CrowdedPages
    Allowed = {a, b, c, d}
    Worker = {w1, w2}
    QueuePerWorker = 1
    OutPerWorker = 1
    MaxPages = 3
    MaxDepth = 1
    MaxRestarts = 0
INVARIANTS
    TypeOK
    InFlightExact
    NoDoubleFetch
    PauseBoundsOverrun
    NoWorkAfterReturn
    NilMeansComplete
PROPERTIES
    KeepsPromise
    RunReturns
    CancelEndsRun
