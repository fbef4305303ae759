SPECIFICATION FairSpec
CONSTANTS
  N = 2
  Script <- LinusScript
  Barrier = TRUE
  None = None
  Stages = 1
  InputSegments = 1
  DeltaSegments = 2
CHECK_DEADLOCK FALSE
PROPERTY AppsFinish
