\* verify alone: files of their own, no job ends with an error of its own.
SPECIFICATION MCSpec
CONSTANTS
  Parts = {"verify"}
  p1 = p1  p2 = p2  p3 = p3  r1 = r1  r2 = r2
  i1 = i1  i2 = i2  i3 = i3  i4 = i4
  None = None  OnExecId = OnExecId
  Proc = {p1, p2}
  Reader = {r1, r2}
  File = {1, 2}
  Inode = {i1, i2, i3}
  ExecId <- OwnExecId
  LockFiles <- OneAndAll
  ReturnOnNoLock = {p2}
  TestFirst = {p2}
  Progress = {p1}
  Remove = {r1}
  AllowStart = TRUE
  VerifyRepos <- PlainRepos
  VerifyErrors = 0
  Databases = {d1, d2}
  MaxChanges = 2  MaxRuns = 5  MaxFaults = 2
CHECK_DEADLOCK FALSE
INVARIANT ValidIsValid
