SPECIFICATION Spec
CONSTANTS
    a = a  b = b  c = c  d = d  e = e
    w1 = w1  w2 = w2
    URL = {0,1,2,3,4}
    Start <- StarStart
    Pages <- StarPages
    Allowed = {0,1,2,3,4}
    Worker = {w1}
    QueuePerWorker = 1
    OutPerWorker = 1
    MaxPages = 200
    MaxDepth = 4
    MaxRestarts = 0
INVARIANT NoCircularWait
