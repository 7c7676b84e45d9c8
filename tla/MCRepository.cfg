CONSTANTS
    Parts = {"expire", "blocks", "recovery", "databases", "remap"}
    Options <- MCOptions
    MaxBackups = 3
    MaxSeg = 5
    MaxTimeline = 2
    MaxId = 2
    MaxExpires = 2
    Segments = {0, 2}
    MaxWork = 5
    PathSize = 2
    None = None
SPECIFICATION MCSpec
CHECK_DEADLOCK FALSE
INVARIANTS AvailableIsConsistent WalKept NothingLeftBehind BlocksAreRestored RestoreIsFollowed RestoredAsAsked
PROPERTY NewestFullKept
