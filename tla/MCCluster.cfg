\* Two segments, two repositories, both modes, a rival host; three clusters; three pages.
SPECIFICATION MCSpec
CONSTANTS
  Parts = {"push", "standby", "pages"}
  a1 = a1  a2 = a2  FG = FG  NoLock = NoLock  NoCluster = NoCluster
  Repo = {1, 2}
  MaxSeg = 2
  Async = {a1, a2}
  ArchiveAsync = {TRUE, FALSE}
  QueueMax = 1
  ProcessMax = 2
  MaxFault = 1
  MaxWal <- SomeWal  MaxCrashes = 1
  Rival = TRUE
SYMMETRY AsyncSymmetry
CHECK_DEADLOCK FALSE
INVARIANTS DoneIsArchived OkStaysForReader CopiedIsConsistent PagesAreReported
