SPECIFICATION SerialSpec
CONSTANTS
  Initial = 8
  Unset = Unset
  Garbage = Garbage
  Nothing = Nothing
  Objects <- MCObjects
INVARIANTS
  InBounds
  TightGrowth
  RoundTrip
PROPERTIES
  KeepsBytes
CHECK_DEADLOCK FALSE
