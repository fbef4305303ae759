\* One key that callers put at will.
SPECIFICATION Spec
CONSTANTS
  Threads = {t1, t2}
  Keys = {k2}
  Once = {}
  Values = {v1, v2}
  NoValue = NoValue
  Garbage = Garbage
  NoThread = NoThread
  MaxCalls = 3
  MaxSpurious = 0
CHECK_DEADLOCK FALSE
INVARIANT ReturnsACopy
