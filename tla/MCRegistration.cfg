SPECIFICATION Spec
CONSTANTS
  N = 4
  Backlog = 1
  None = None
INVARIANTS TypeOK NoAssertFails HandsOver
PROPERTY EveryoneRegisters
CHECK_DEADLOCK FALSE
