SPECIFICATION LifecycleSpec
CONSTANTS
  Pids = {p1, p2}
  NoTree = NoTree
  MaxVersion = 2
  MaxCalls = 2
  MaxFaults = 1
  Concurrent = FALSE
PROPERTY FailureRestoresPrior
CHECK_DEADLOCK FALSE
