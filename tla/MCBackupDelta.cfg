CONSTANTS
    Parts = {"backup"}
    Files = {f1, f2}
    Types = {"full"}
    Sizes = {1}
    MaxWal = 2
    MaxNow = 4
    MaxRuns = 3
    MaxWork = 4
    DeltaMayChange = TRUE
    None = None
SYMMETRY Symmetry
SPECIFICATION MCSpec
CHECK_DEADLOCK FALSE
INVARIANT ListedIsRestorable
