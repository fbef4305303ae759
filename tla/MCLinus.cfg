SPECIFICATION FairSpec
CONSTANTS
  N = 3
  Script <- LinusScript
  Barrier = TRUE
  None = None
  Stages = 2
  InputSegments = 2
  DeltaSegments = 1
INVARIANTS TypeOK GetFindsKey
PROPERTY AppsFinish
