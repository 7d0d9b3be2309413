SPECIFICATION LifecycleSpec
CONSTANTS
  Pids = {p1, p2}
  NoTree = NoTree
  MaxVersion = 1
  MaxCalls = 2
  MaxFaults = 0
  Concurrent = TRUE
PROPERTY InstallIsCreateOnly
CHECK_DEADLOCK FALSE
