\* Evaluator and live-block controller over the sample programs.
CONSTANTS
  Programs <- MCPrograms
  IntWidth = 4
  FloatPrec = 2
  FloatEmax = 3
SPECIFICATION Spec
INVARIANT TypeOK
INVARIANT SuccessOnlyOnFirstAttempt
INVARIANT ReturnMarkerContained
PROPERTY ErrorsPropagate
PROPERTY Termination
PROPERTY LiveBlockRefinement
PROPERTY DivisionByZeroFails
PROPERTY MixedOrderSound
\* A run ends when the program's evaluation returns.
CHECK_DEADLOCK FALSE
