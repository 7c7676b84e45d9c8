\* All parts, every loop fair.
SPECIFICATION MCSpec
CONSTANTS
  Parts = {"parallel", "io", "objects", "connection", "remote"}
  None = None
  Omitted = Omitted
  j1 = j1  j2 = j2  j3 = j3  j4 = j4  NoJob = NoJob
  Job = {j1, j2, j3, j4}
  Client = {1, 2, 3}
  Dist <- Standby
  ThrowOnError = TRUE
  MaxFault = 2
  ObjectSize = 3
  InputSize = 1
  Slots = {"w1", "w2", "r1", "rm", "ls"}
  Sessions = {1, 2, 3, 4, 5}
  Writers = {"w1", "w2"}  Readers = {"r1"}  Remover = "rm"  Lister = "ls"
  Together = {{"w1", "w2"}, {"w1", "r1"}, {"w1", "rm"}, {"r1", "rm"}}
  MaxFaults = 1
CHECK_DEADLOCK FALSE
INVARIANTS
  CompletedIsDone
  StreamIsExact
  OwnResponse TransfersAreExact RemovedIsEmpty
PROPERTIES
  ImplementsPool WorkEnds
