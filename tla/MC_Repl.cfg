\* REPL sessions of up to three lines over one Interpreter.
CONSTANTS
  Sessions <- MCSessions
  Programs <- MCPrograms
  IntWidth = 4
  FloatPrec = 2
  FloatEmax = 3
SPECIFICATION ReplSpec
INVARIANT ReplTypeOK
PROPERTY LinesAnswered
\* A session ends at exit, at the end of input or when the process panics.
CHECK_DEADLOCK FALSE
