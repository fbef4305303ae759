SPECIFICATION FairSpec
CONSTANTS
  Sends <- OneWay
  Buffer = 2
INVARIANT TypeOK
PROPERTIES Fifo AllDelivered
CHECK_DEADLOCK FALSE
