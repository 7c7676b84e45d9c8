CONSTANTS
    Parts = {"backup", "manifest", "queue", "wal"}
    Files = {f1, f2}
    Types = {"full", "incr"}
    Sizes = {1}
    MaxWal = 2
    MaxNow = 4
    MaxRuns = 3
    MaxWork = 4
    DeltaMayChange = FALSE
    None = None
SYMMETRY Symmetry
SPECIFICATION MCSpec
CHECK_DEADLOCK FALSE
INVARIANTS ListedIsRestorable PartsAreKept
PROPERTY CompletedIsKept
