\* Two segments, several repositories, one outage or crash, one jump of recovery.
SPECIFICATION MCFairSpec
CONSTANTS
  Parts = {"get", "push"}
  a1 = a1  a2 = a2  FG = FG  NoLock = NoLock  NoCluster = NoCluster
  Repo = {1, 2}
  MaxSeg = 2
  Async = {a1, a2}
  ArchiveAsync = {TRUE}
  QueueMax = 2
  ProcessMax = 1
  MaxFault = 1
  MaxWal <- SomeWal  MaxCrashes = 1
  Rival = FALSE
CHECK_DEADLOCK FALSE
PROPERTY WaitingIsServed
