\* Restore, and all parts of the library.
SPECIFICATION MCSpec
CONSTANTS
    Parts = {"restore", "config", "storage", "iterator", "pack", "json", "memory", "encode", "list", "buffer"}
    Files <- MCFiles
    Version = "PG_VERSION"
    Backups <- MCBackups
    Cluster <- Clusters
    Workers = {w1, w2}
    MaxRuns = 2
    MaxCrashes = 1
    Block <- MCBlocks
    Bad = Bad
    None = None
    NoContext = NoContext
    NoValue = "none."
    Procs = {p1, p2}
SYMMETRY Symmetry
CHECK_DEADLOCK FALSE
INVARIANTS
    StartableIsRestored
    PrecedenceHolds
    FilesAreWhole AnswerIsTrue
    ItrIsExact
    ValuesAreExact
    KeysAreFound
    ErrorRestores FreedExactlyOnce
PROPERTY ReplacedIsUntouched
