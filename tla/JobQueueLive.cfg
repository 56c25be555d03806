SPECIFICATION FairSpec
CONSTANTS
    g1 = g1
    steam = steam
    r1 = r1
    r2 = r2
    NoScope = NoScope
    Games <- MCGames
    Platforms <- MCPlatforms
    Offered <- MCOfferedGlobal
    Legacy <- MCNone
    Reqs <- MCOneReq
    MaxJobs = 2
    MaxFaults = 3
    MaxRestarts = 1
PROPERTY QueuedIsClaimed
PROPERTY FlightEnds
