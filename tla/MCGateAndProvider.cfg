CONSTANTS
  v1 = v1
  v2 = v2
  a = a
  b = b
  x = x
  y = y
  z = z
  i1 = i1
  i2 = i2
  c1 = c1
  c2 = c2
  s1 = s1
  s2 = s2
  Versions <- MCVersions
  FileVersions <- MCFileVersions
  Members <- MCMembers
  Bytes <- MCBytes
  Inventory <- MCInventory
  IdsBytes <- MCIdsBytes
  IfcBytes <- MCIfcBytes
  SourceIds <- MCSourceIds
  Registered <- MCRegistered
  PackageVerdict <- MCPackageVerdict
  DiffVerdict <- MCDiffVerdict
  IdsVerdict <- MCIdsVerdict
  Calls <- MCCalls
  Absent = Absent
  Torn = Torn
  None = None
  MaxChanges = 2
  MaxFaults = 1
  Missing = Missing
  small = small
  large = large
  Names = {a1, a2}
  Size <- MCSize
  MaxBytes = 3
  MaxFiles = 5
  MaxAttempts = 2
  NoAnswer = NoAnswer
SPECIFICATION Spec
INVARIANTS
  EvaluationTypeOK
  ResultFollowsFromIdentities
  ReportedIsFirstValidated
  NothingAskedIsSkipped
  
  RunnerTypeOK
  NothingStartsUnadmitted
  AcceptedIsAsDeclared
  RegularEndIsClean
  SpendIsAuthorised
  RetriesAreTransient
PROPERTIES
  EvaluationEnds
  RunEnds
CHECK_DEADLOCK FALSE
