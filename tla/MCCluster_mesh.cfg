SPECIFICATION FairSpec
CONSTANTS
  N = 3
  Script <- MeshScript
  Barrier = TRUE
  None = None
INVARIANT ReplyMatchesRequest
PROPERTY CleanShutdown
