CONSTANTS
  TokenInputs <- MCTokenInputs
  Written <- AcceptedPrograms
SPECIFICATION Spec
INVARIANTS TypeOK PrecedenceClimbing ParsesAsWritten StrayTokenSkipped
CHECK_DEADLOCK FALSE
