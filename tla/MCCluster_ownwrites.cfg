SPECIFICATION Spec
CONSTANTS
  N = 3
  Script <- OwnWritesScript
  Barrier = TRUE
  None = None

CHECK_DEADLOCK FALSE
INVARIANT GetFindsKey
