CONSTANTS
  Inputs <- MCInputs
  IntWidth = 4
  MaxCalls = 6
SPECIFICATION Spec
INVARIANTS TypeOK GapsSkippable LexemesGreedy EndOfInputSticky
CHECK_DEADLOCK FALSE
