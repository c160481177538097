CONSTANTS
  Inputs <- MCInputs
  IntWidth = 4
  MaxCalls = 6
SPECIFICATION Spec
INVARIANT NoCharacterDropped
CHECK_DEADLOCK FALSE
