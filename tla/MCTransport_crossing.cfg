SPECIFICATION FairSpec
CONSTANTS
  Sends <- Crossing
  Buffer = 2
PROPERTY AllDelivered
CHECK_DEADLOCK FALSE
