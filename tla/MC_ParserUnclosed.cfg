CONSTANTS
  TokenInputs <- Truncated
  Written <- WellFormedPrograms
SPECIFICATION Spec
INVARIANT UnclosedBlockRejected
CHECK_DEADLOCK FALSE
