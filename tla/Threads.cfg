SPECIFICATION FairSpec
CONSTANTS
  Workers = {1, 2}
  Master = 3
  nBatchSize = 2
  MaxChecks = 4
  MaxBlocks = 2
  ServiceThreads = {1}
  Tasks = {k1, k2}
  Repeating = {k2}
  deltaSeconds = 1
  MaxTime = 4
  MaxRequests = 2
  HttpWorkers = {1, 2}
  maxDepth = 1
  Operations = {o1}
  NoOperation = none
  AsyncWorkers = {a1}
INVARIANTS CheckQueueIdle VerdictRight NotEarly OperationsEnded QueueUnused
PROPERTIES BlockIsChecked TaskIsCalled RequestAnswered ShutdownEnds
CHECK_DEADLOCK FALSE
