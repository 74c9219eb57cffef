SPECIFICATION CaptureSpec
CONSTANTS
    clip = clip
    starter = starter
    photo = photo
    gated = gated
    husk = husk
    empty = empty
    Contents = {clip, photo, gated, husk}
    Empty = empty
    Verdict <- MCVerdict
    Heavy <- MCHeavy
    HasText <- MCHasText
    Loads = {"normal", "soft"}
    OwnClips = {clip}
    ReadBack <- MCReadBack
    Ttl = 2
    Capacity = 1
    MaxReadFailures = 1
    RecoveryWindow = 1
    ShedRetry = 1
    ResubscribeLimit = 1
    RestartLimit = 1
INVARIANTS CaptureSafety
PROPERTIES SelfWriteNotRecaptured OneRecoveryPerClick
