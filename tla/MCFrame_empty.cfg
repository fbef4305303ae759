SPECIFICATION Spec
CONSTANTS
  N = 2
  Capacity = 2
  Types <- MCTypes
  MaxRows = 5
  Heap <- MCHeap
  Null = Null
INVARIANT MapsEmptyFrames
CHECK_DEADLOCK FALSE
