SPECIFICATION Spec
CONSTANTS
    a = a
    b = b
    NoWork = NoWork
    Apps <- MCApps
    Works <- MCWorks
    Library <- MCApps
    Verdicts <- MCVerdicts
    PollLimit <- MCPoll
    MaxJobs = 1
    RunLimit = 1
    JobLimit = 0
    MaxCalls = 1
    MaxPrunes = 0
    MaxFaults = 0
    MaxStops = 1
CHECK_DEADLOCK FALSE
INVARIANT NoOrphan
