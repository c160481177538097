CONSTANTS
  Inputs <- RoundTripInputs
  IntWidth = 4
  MaxCalls = 2
SPECIFICATION Spec
INVARIANT LiteralRoundTrip
CHECK_DEADLOCK FALSE
