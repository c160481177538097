\* Arithmetic at the ends of the i64 range, inside live blocks.
CONSTANTS
  Programs <- MCEdgePrograms
  IntWidth = 4
  FloatPrec = 2
  FloatEmax = 3
SPECIFICATION Spec
INVARIANT NoPanic
CHECK_DEADLOCK FALSE
