CONSTANTS
  Procs = {p1, p2}
  Outputs = {f1, f2}
  NoFile = NoFile
  Outsider = Outsider
  MaxOutputs = 2
  Removable = {Outsider, p1, p2}
SPECIFICATION CreateSpec
PROPERTIES
  RollbackOnlyOwn
CHECK_DEADLOCK FALSE
