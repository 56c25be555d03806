SPECIFICATION BothSpec
CONSTANTS
    Parts = {"library", "session", "chunks"}
    g1 = g1
    NoGame = NoGame
    Games <- MCGames
    MaxLogins = 2
    MaxFaults = 1
    MaxOps = 1
    Offers <- MCOffers
    Hosts = {"cdn1", "cdn2"}
    Identifier <- MCIdentifier
    Known = {"epic1", "epic2"}
    Attempts = 2
    Slots = 2
    MaxPulls = 2
    MaxMishaps = 1
INVARIANT RestartKeepsSession
INVARIANT PulledIsFound
PROPERTY DownloadsEnd
CHECK_DEADLOCK FALSE
