\* Callers put k1 once and k2 at will.
SPECIFICATION FairSpec
CONSTANTS
  Threads = {t1, t2, t3}
  Keys = {k1, k2}
  Once = {k1}
  Values = {v1, v2, v3}
  NoValue = NoValue
  Garbage = Garbage
  NoThread = NoThread
  MaxCalls = 4
  MaxSpurious = 1
INVARIANTS TypeOK MutualExclusion NoMissedNotify OneOwner NoUseAfterFree
PROPERTIES Linearizable WaitersReturn
CHECK_DEADLOCK FALSE
