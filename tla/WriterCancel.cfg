SPECIFICATION PoolSpec
CONSTANTS
    Parts = {"writer"}
    w1 = w1
    w2 = w2
    Ops <- MCOps
    WriterStorm = 1
    MaxWriterFaults = 1
    MaxCancels = 1
    c1 = c1
    c2 = c2
    Clients <- MCTwo
    N = 2
    StormLimit = 1
    MaxFaults = 3
CHECK_DEADLOCK FALSE
INVARIANT CancelledIsRolledBack
