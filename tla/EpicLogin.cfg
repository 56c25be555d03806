SPECIFICATION BothSpec
CONSTANTS
    Parts = {"session"}
    g1 = g1
    NoGame = NoGame
    Games <- MCGames
    MaxLogins = 2
    MaxFaults = 0
    MaxOps = 0
    Offers <- MCOffers
    Hosts = {"cdn1", "cdn2"}
    Identifier <- MCIdentifier
    Known = {"epic1", "epic2"}
    Attempts = 2
    Slots = 2
    MaxPulls = 2
    MaxMishaps = 1
PROPERTY LoginLands
CHECK_DEADLOCK FALSE
