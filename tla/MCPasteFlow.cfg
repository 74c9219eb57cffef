SPECIFICATION PopupSpec
CONSTANTS
    safari = safari
    editor = editor
    plain = plain
    secret = secret
    blob = blob
    other = other
    picker = picker
    noClip = noClip
    noApp = noApp
    Clips <- MCClips
    Sensitive <- MCSensitive
    Unverifiable <- MCUnverifiable
    Other = other
    Apps <- MCApps
    Picker = picker
    NoClip = noClip
    NoApp = noApp
    PasteDelay = 2
    ConfirmDelay = 1
    ConfirmTimeout = 3
    WinClips = {1, 2, 3}
    Dies <- MCDies
    Matching = {1, 2}
    ListLimit = 2
    WinMaxNow = 1
    MaxChanges = 1
    first = first
    second = second
    third = third
    Processes = {first, second, third}
    NoProcess = noApp
    Purposes <- MCPurposes
    Attempts = 1
    MaxFaults = 1
INVARIANTS
    TypeOK
    KeystrokeServesIntent
    ArmedOnLatestWrite
    UnexcludedIsNeverPasted
    LaunchSafety
PROPERTIES
    WindowShowsTheTruth
    UserIsAnswered
