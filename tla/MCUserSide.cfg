SPECIFICATION UserSpec
CONSTANTS
    key = key
    otp = otp
    card = card
    Kinds = {key, otp, card}
    Lifetime <- MCLifetime
    InMemory = {key, otp}
    OneTimePassword = otp
    SecretTtl = 4
    RecoveryTtl = 2
    KeyIds = {1, 2, 3}
    FirstKey = 1
    MaxSequence = 3
    MaxDecays = 2
    PopClips = {1, 2, 3}
    Large = {1}
    Masked = {2}
    VolatileCap = 1
    StackCap = 3
    MaxItems = 4
    Sizes = {1, 2}
    ProfileSize = 1
    Typed <- MCTyped
    MaxEdits = 2
    Searches <- MCSearches
    MaxSearchable = 8
    TypoLength = {3, 4, 5, 6, 7, 8}
    WideLength = 6
    ResultLimit = 2
    ResultBytes = 3
    BatchRows = 2
    BatchBytes = 3
    Tokens <- MCTokens
    MaxTyped = 3
    QueryClips <- MCQueryClips
    KindSlugs = {"url", "html"}
    KindSynonyms <- MCSynonyms
    Durations <- MCDurations
    Dates <- MCDates
    Shelf <- MCShelf
    SameText <- MCSameText
    Bits <- MCBits
    LikeHits = {"first", "second", "third"}
    FtsHits = {"second", "third"}
    Moments = {1, 2}
    MaxShielded = 1
    FtsRows = 3
    LatencyWindow = 2
    AskFactor = 2
    PrintBatch = 1
    Distances = {3, 4}
    MaxWrites = 2
INVARIANTS
    GateFailsClosed
    FindingsAreHonoured
    DecisionsHold
    SearchesAreHonest
\* The bounds on edits, items and sequences end some behaviours.
CHECK_DEADLOCK FALSE
