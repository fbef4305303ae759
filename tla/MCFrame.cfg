SPECIFICATION Spec
CONSTANTS
  N = 2
  Capacity = 2
  Types <- MCTypes
  MaxRows = 5
  Heap <- MCHeap
  Null = Null
INVARIANTS
  OneOwner
  RowsOnce
  LocalReads
CHECK_DEADLOCK FALSE
