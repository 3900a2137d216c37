SPECIFICATION Spec
CONSTANTS
    a = a  b = b  c = c  d = d  e = e
    w1 = w1  w2 = w2
    URL = {a, b, c, d, e}
    Start <- DiamondStart
    Pages <- DiamondPages
    Allowed = {a, b, c, e}
    Worker = {w1, w2}
    QueuePerWorker = 1
    OutPerWorker = 1
    MaxPages = 5
    MaxDepth = 1
    MaxRestarts = 1
INVARIANT ResumeComplete
