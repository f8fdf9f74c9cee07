SPECIFICATION Spec
CHECK_DEADLOCK FALSE
CONSTANTS
    Posts = 4
    MaxPins = 1
    Window = 2
    Steps = {0, 1}
    LooksOf <- MCLooksOf
    CommentPage <- MCCommentPage
    TextOf <- MCTextOf
    Configs <- MCConfigs
    SeenStop = 2
    StagnantStop = 2
    HistoryLimit = 1
    MaxScans = 2
    MaxEvents = 2
INVARIANTS NewestNotHidden AnnouncedOnce SnapshotKeysDiffer
PROPERTIES MatchesAsConfigured
