CONSTANTS
  Writers = {p1, p2}
  Sources = {s1, s2}
  NoOutput = NoOutput
  Torn = Torn
  None = None
  MaxEdits = 1
SPECIFICATION StoreSpec
INVARIANTS
  EmbeddedIsRegistered
CHECK_DEADLOCK FALSE
