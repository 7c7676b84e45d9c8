\* Locks: an archive foreground with two repositories and .returnOnNoLock, a process it starts that locks one
\* of the files, stop --force, start and info.
\* verify and the stanza commands as their instances say.
SPECIFICATION MCSpec
CONSTANTS
  Parts = {"lock", "verify", "stanza"}
  p1 = p1  p2 = p2  p3 = p3  r1 = r1  r2 = r2
  i1 = i1  i2 = i2  i3 = i3  i4 = i4
  None = None  OnExecId = OnExecId
  Proc = {p1, p2}
  Reader = {r1, r2}
  File = {1, 2}
  Inode = {i1, i2}
  ExecId <- OneExecId
  LockFiles <- OneAndAll
  ReturnOnNoLock = {p2}
  TestFirst = {p2}
  Progress = {p1}
  Remove = {r1}
  AllowStart = TRUE
  VerifyRepos <- AllRepos
  VerifyErrors = 1
  Databases = {d1, d2}
  MaxChanges = 2  MaxRuns = 5  MaxFaults = 2
SYMMETRY Symmetry
CHECK_DEADLOCK FALSE
INVARIANTS
  ListAgreesWithKernel HeldCoversLockFiles
  ReportIsTrue
  OneDatabasePerId AtMostOneAhead
