SPECIFICATION FairSpec
CONSTANTS
  N = 2
  Script <- LinusScript
  Barrier = FALSE
  None = None
  Stages = 1
  InputSegments = 1
  DeltaSegments = 1
CHECK_DEADLOCK FALSE
PROPERTY AppsFinish
