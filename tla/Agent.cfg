SPECIFICATION FairSpec
CONSTANTS
    a = a
    b = b
    NoWork = NoWork
    Apps <- MCApps
    Works <- MCWorks
    Library <- MCApps
    Verdicts <- MCVerdicts
    PollLimit <- MCPoll
    MaxJobs = 1
    RunLimit = 1
    JobLimit = 0
    MaxCalls = 3
    MaxPrunes = 1
    MaxFaults = 1
    MaxStops = 1
CHECK_DEADLOCK FALSE
INVARIANT SingleFlight
INVARIANT SelectionReturned
PROPERTY PrefillHonest
PROPERTY GateFreed
