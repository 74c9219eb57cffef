SPECIFICATION FairSpec
CONSTANTS
    clip = clip
    starter = starter
    photo = photo
    gated = gated
    husk = husk
    empty = empty
    Contents = {photo, clip}
    Empty = empty
    Verdict <- MCVerdict
    Heavy <- MCHeavy
    HasText <- MCHasText
    Loads = {"normal", "hard"}
    OwnClips = {clip}
    ReadBack <- MCReadBack
    Ttl = 1
    Capacity = 1
    MaxReadFailures = 2
    RecoveryWindow = 1
    ShedRetry = 1
    ResubscribeLimit = 1
    RestartLimit = 1
PROPERTY SettledCopyIsStored
