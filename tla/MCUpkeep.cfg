SPECIFICATION UpkeepSpec
CONSTANTS
    ResubscribeLimit = 7
    RestartLimit = 5
    Clips = {1, 2}
    Blobs = {1, 2}
    Body <- MCBody
    Private = {}
    ScrubPage = 1
    MaxFaults = 1
    MaxCuts = 1
    RetIds = {1, 2, 3}
    RetScope <- MCScope
    RetSize <- MCSize
    RuleOrder <- MCOrder
    RuleChoices <- MCRules
    CollectionRule <- MCCollection
    Unreadable = {3}
    MaxEvictions = 1
    PreviewLimit = 1
    RetMaxNow = 1
    LifeClips = {1, 2}
    Detected = {2}
    ImportIds = {1, 2}
    MaxAge = 1
    LifeMaxNow = 1
    RowIds = {1, 2, 11}
    ContentOf <- MCContent
    OldRows <- MCOld
    Secret = {1}
    ScanBatch = 1
    AuditBatch = 1
    MaxCopies = 1
    MaxStops = 1
    SqlClips = {1, 2}
    CodeClips = {2}
    BlobUses <- MCUses
    SqlSecrets = {1}
    MaxSeq = 2
    UpRows = {1, 2, 3}
    LostRows = {3}
    MaxHarm = 1
    Importers = {1, 2}
    ImportRows = {1, 2}
    Spilling = {2}
    MaxImports = 2
    MinPoll = 1
    MaxPoll = 2
    StallTimeout = 3
    RecoveryDelay <- MCDelay
    ReadFailureLimit = 2
INVARIANTS
    PatienceIsBounded
    StoreIsAccounted
    UpkeepIsAccounted
    ResidencyIsKept
    SqliteKeepsHistory
PROPERTIES
    ReaderKeepsBytes
    HealthIsHonest
    PassesKeepTheirPromises
