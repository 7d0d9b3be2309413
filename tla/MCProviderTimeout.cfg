CONSTANTS
  small = small
  large = large
  Names = {a1, a2}
  FileVersions <- MCFileVersions
  Size <- MCSize
  MaxBytes = 3
  MaxFiles = 5
  Missing = Missing
  MaxAttempts = 2
  NoAnswer = NoAnswer
SPECIFICATION RunnerSpec
INVARIANTS
  TimeoutEndsContainer
CHECK_DEADLOCK FALSE
