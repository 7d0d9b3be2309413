CONSTANTS
  KeyOrder <- MCKeyOrder
  KeyLength <- MCKeyLength
  Records <- MCRecords
  ValueStates <- MCValueStates
  Action <- MCAction
SPECIFICATION Spec
INVARIANTS
  EveryStateIsEvaluated
CHECK_DEADLOCK FALSE
