SPECIFICATION SyncSpec
CONSTANTS
    Devices = {1, 2, 3}
    Creator = 2
    MaxLogical = 1
    Tolerance = 1
    MaxNow <- MCMaxNow
    MaxPhysical = 1
    MaxEdits <- MCMaxEdits
    MaxInFlight = 1
    GroupDevices = {1, 2, 3}
    GroupMaxClock = 3
    MaxGroupLog = 4
    MaxKeyEpoch = 2
    MaxLedger = 1
    ItemChoices <- MCItems
    RuleChoices <- MCRules
    LaneChoices <- MCLanes
    AnyCollection = "none"
    MaxSelected = 2
    Peers = {1, 2, 3}
    MaxRetries = 2
    MaxEpoch = 2
    SnippetKeys = {1}
    Contents = {2, 3}
    MaxUserEdits = 3
    Messages <- MCMessages
    Capacity = 2
    GuardMaxNow = 3
    Tokens = {1, 2, 3}
    QuotaOf <- MCQuotas
    MaxTokens = 2
    MaxWindow = 2
    MaxEvents = 6
    Retention = 3
INVARIANTS
    TypeOK
    Convergent
    AddWins
    NoUndoneWrite
PROPERTIES
    OwnWriteShows
    ClientsGetTheirShare
    MirrorKeepsEdits
    GroupIsOfOneMind
    TransfersAreHonest
CHECK_DEADLOCK FALSE
