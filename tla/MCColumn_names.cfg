SPECIFICATION Spec
CONSTANTS
  Capacity = 1
  Default = 1
  N = 2
  Sizes <- Thousand
  Base = 10
  Limit = 1000
  None = None
INVARIANT RoundTrip
CHECK_DEADLOCK FALSE
