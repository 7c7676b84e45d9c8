\* Three invocations contend for one lock.
SPECIFICATION MCSpec
CONSTANTS
  Parts = {"lock"}
  p1 = p1  p2 = p2  p3 = p3  r1 = r1  r2 = r2
  i1 = i1  i2 = i2  i3 = i3  i4 = i4
  None = None  OnExecId = OnExecId
  Proc = {p1, p2, p3}
  Reader = {}
  File = {1}
  Inode = {i1, i2, i3, i4}
  ExecId <- OwnExecId
  LockFiles <- SameFiles
  ReturnOnNoLock = {}
  TestFirst = {}
  Progress = {}
  Remove = {}
  AllowStart = FALSE
  VerifyRepos <- AllRepos
  VerifyErrors = 1
  Databases = {d1, d2}
  MaxChanges = 2  MaxRuns = 5  MaxFaults = 2
SYMMETRY Symmetry
CHECK_DEADLOCK FALSE
INVARIANT MutualExclusion
