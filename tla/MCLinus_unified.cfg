SPECIFICATION Spec
CONSTANTS
  N = 3
  Script <- LinusScript
  Barrier = TRUE
  None = None
  Stages = 1
  InputSegments = 1
  DeltaSegments = 3
CHECK_DEADLOCK FALSE
INVARIANT GetFindsKey
