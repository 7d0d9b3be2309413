CONSTANTS
  Procs = {p1, p2}
  Outputs = {f1, f2}
  NoFile = NoFile
  Outsider = Outsider
  MaxOutputs = 2
  Removable = {Outsider}
  Writers = {p1, p2}
  Sources = {s1, s2}
  NoOutput = NoOutput
  Torn = Torn
  None = None
  MaxEdits = 1
  Pids = {p1, p2}
  NoTree = NoTree
  MaxVersion = 2
  MaxCalls = 4
  MaxFaults = 1
  Concurrent = FALSE
  system = system
  ca = ca
  cb = cb
  g1 = g1
  g2 = g2
  g3 = g3
  w1 = w1
  w2 = w2
  Declared <- MCDeclared
  Fingerprints <- MCFingerprints
  WaiverIds <- MCWaiverIds
  Targets <- MCTargets
  Intervals <- MCIntervals
  EvaluationTime = 1
  Unparsable = Unparsable
  MaxWaivers = 2
SPECIFICATION Spec
INVARIANTS
  CreateTypeOK
  CompleteOutputs
  RefusalLeavesNothing
  StoreTypeOK
  OneAuthor
  ZipIsWhole
  SuccessMeansValid
  LifecycleTypeOK
  ReplacedIsOlder
  WaiverTypeOK
  OrderDoesNotMatter
  RaisesExactlyOnDefects
  NoPassFromWaivers
PROPERTIES
  ImplementsCreateOnly
  DirectoryOnlyGrows
  InstallationSurvives
  EditsArePreserved
  UpgradeIsAllOrNothing
CHECK_DEADLOCK FALSE
