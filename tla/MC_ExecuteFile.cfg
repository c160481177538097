\* Does a program that passed --typecheck run without the errors the
\* checker is meant to rule out?
CONSTANTS
  Programs <- MCFilePrograms
  IntWidth = 4
  FloatPrec = 2
  FloatEmax = 3
SPECIFICATION FileSpec
INVARIANT WellTypedRunsAgree
CHECK_DEADLOCK FALSE
