SPECIFICATION CaptureSpec
CONSTANTS
    clip = clip
    starter = starter
    photo = photo
    gated = gated
    husk = husk
    empty = empty
    Contents = {clip, starter}
    Empty = empty
    Verdict <- MCVerdict
    Heavy <- MCHeavy
    HasText <- MCHasText
    Loads = {"normal"}
    OwnClips = {clip, starter}
    ReadBack <- MCReadBack
    Ttl = 2
    Capacity = 2
    MaxReadFailures = 2
    RecoveryWindow = 2
    ShedRetry = 2
    ResubscribeLimit = 1
    RestartLimit = 1
PROPERTY SelfWriteNotRecaptured
