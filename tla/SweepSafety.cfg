SPECIFICATION BothSpec
CONSTANTS
    Parts = {"sweep", "steam"}
    g1 = g1
    g2 = g2
    Games <- MCGames
    FirstStatus <- MCFirstStatus
    Threshold = 2
    Window = 1
    Backoff = 1
    MaxNow = 2
    Batch = 2
    MaxRuns = 2
    MaxFaults = 1
    App = "app"
    Content <- MCContent
    Skipped = {"lang", "redist"}
    Redist = {"redist"}
    MaxBuilds = 1
    MaxChecks = 1
    MaxHarm = 1
SYMMETRY MCSymmetry
INVARIANT BothTypeOK
INVARIANT BreakerHolds
INVARIANT LogExplainsStatus
INVARIANT PurgeIsMeasured
INVARIANT GreenIsOnDisk
INVARIANT PurgedComesBack
PROPERTY NoticePaced
PROPERTY PassCovers
