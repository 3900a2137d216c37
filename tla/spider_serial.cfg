SPECIFICATION Spec
CONSTANTS
    a = a  b = b  c = c  d = d  e = e
    w1 = w1  w2 = w2
    URL = {a, b, c, d, e}
    Start <- LadderStart
    Pages <- LadderPages
    Allowed = {a, b, c, d, e}
    Worker = {w1}
    QueuePerWorker = 8
    OutPerWorker = 4
    MaxPages = 5
    MaxDepth = 2
    MaxRestarts = 2
INVARIANTS
    CompleteWithinDepth
    NoRefetchAfterRestart
PROPERTY KeepsPromise
