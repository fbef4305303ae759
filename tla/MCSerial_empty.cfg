SPECIFICATION SerialSpec
CONSTANTS
  Initial = 8
  Unset = Unset
  Garbage = Garbage
  Nothing = Nothing
  Objects <- MCObjects
INVARIANT EmptyValuesSent
CHECK_DEADLOCK FALSE
