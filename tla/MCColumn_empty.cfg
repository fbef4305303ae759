SPECIFICATION Spec
CONSTANTS
  Capacity = 2
  Default = 2
  N = 2
  Sizes <- UpToEight
  Base = 10
  Limit = 1000
  None = None
INVARIANT LocalIndicesAreRows
CHECK_DEADLOCK FALSE
