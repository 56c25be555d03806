SPECIFICATION PoolSpec
CONSTANTS
    Parts = {"reader", "writer"}
    w1 = w1
    w2 = w2
    Ops <- MCOps
    WriterStorm = 1
    MaxWriterFaults = 2
    MaxCancels = 1
    c1 = c1
    c2 = c2
    Clients <- MCTwo
    N = 2
    StormLimit = 1
    MaxFaults = 3
CHECK_DEADLOCK FALSE
INVARIANT LineServes
INVARIANT SlotsConserved
INVARIANT GreenIsWhole
INVARIANT AnswersHonest
INVARIANT WriterTracked
PROPERTY ReadsAnswered
PROPERTY Served
