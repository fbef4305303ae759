SPECIFICATION Spec
CONSTANTS
  N = 3
  Script <- MeshScript
  Barrier = TRUE
  None = None

CHECK_DEADLOCK FALSE
INVARIANT OneConnectionPerPair
