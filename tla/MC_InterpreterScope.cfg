CONSTANTS
  Programs <- MCPrograms
  IntWidth = 4
  FloatPrec = 2
  FloatEmax = 3
SPECIFICATION Spec
PROPERTY LiveBodyScoped
CHECK_DEADLOCK FALSE
