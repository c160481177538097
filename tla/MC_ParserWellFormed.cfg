CONSTANTS
  TokenInputs <- MCTokenInputs
  Written <- WellFormedPrograms
SPECIFICATION Spec
INVARIANT ParsesAsWritten
CHECK_DEADLOCK FALSE
