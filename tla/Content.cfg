SPECIFICATION ContentSpec
CONSTANTS
    Parts = {"curation", "archive", "guard", "budget", "fetch"}
    brawl = brawl
    sdk = sdk
    NoInfo = NoInfo
    Apps <- MCApps
    Answers <- MCAnswers
    Legacy <- MCLegacy
    Fetches = 1
    MaxOps = 2
    MaxFaults = 1
    Manifests = {"v1"}
    MaxIO = 2
    Counts = {2, 3, 5}
    Zones = {8}
    Budgets = {0, 4}
    Horizon = 3
    MaxDays = 3
    Threshold = 2
    Window = 0
    Cooldown = 1
    Latch = 4
    MaxEvents = 3
    MaxLost = 3
    Titles = {"duo", "solo", "huge"}
    OutOfRange = {"huge"}
    Ships <- MCShips
    Hollow = {"hollow"}
    Ratio = 50
    MaxFetches = 2
    MaxTrouble = 1
INVARIANT ContentTypeOK
INVARIANT OperatorWins
INVARIANT ArchiveWhole
INVARIANT FetchAccounted
PROPERTY SelectionConverges
PROPERTY ArchiveCatchesUp
PROPERTY AlarmTellsLoss
CHECK_DEADLOCK FALSE
