\* A read with read-ahead, a job, a database session and a keep-alive on one connection.
SPECIFICATION FairSpec
CONSTANTS
  Fatal = Fatal
  Session = {read, job, db, noop}
  Async = {read, job}
  Opens = {read, db}
  MaxRequest = 1
  MaxError = 1
  MaxLoss = 1
CHECK_DEADLOCK FALSE
INVARIANT ServerSessionIsOpen
INVARIANT InSync
PROPERTY CallEnds
