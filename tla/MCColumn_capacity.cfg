SPECIFICATION Spec
CONSTANTS
  Capacity = 1
  Default = 2
  N = 2
  Sizes <- UpToEight
  Base = 10
  Limit = 1000
  None = None
INVARIANT RoundTrip
CHECK_DEADLOCK FALSE
