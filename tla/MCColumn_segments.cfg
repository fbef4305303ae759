SPECIFICATION Spec
CONSTANTS
  Capacity = 2
  Default = 2
  N = 3
  Sizes <- UpToEight
  Base = 10
  Limit = 1000
  None = None
INVARIANTS TypeOK RoundTrip LocalPartition
PROPERTY SegmentsPutOnce
CHECK_DEADLOCK FALSE
