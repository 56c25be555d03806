SPECIFICATION Spec
CONSTANTS
    g1 = g1
    steam = steam
    r1 = r1
    r2 = r2
    NoScope = NoScope
    Games <- MCGames
    Platforms <- MCPlatforms
    Offered <- MCOffered
    Legacy <- MCLegacy
    Reqs <- MCReqs
    MaxJobs = 2
    MaxFaults = 3
    MaxRestarts = 1
SYMMETRY MCSymmetry
INVARIANT PayloadHonest
INVARIANT OutcomeHonest
INVARIANT GreenIsScheduled
PROPERTY ImplementsLedger
