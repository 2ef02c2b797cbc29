CONSTANTS
  t1 = t1
  t2 = t2
  t3 = t3
  t4 = t4
  NoThread = NoThread
  Threads <- MCThreads
  Waiters <- MCThreads
  InitCount = 0
  MaxPosts = 3
  MaxWaits = 4
SPECIFICATION Spec
INVARIANTS TypeOK NoLostWakeup PermitsCovered
PROPERTY PermitsGetUsed
CHECK_DEADLOCK FALSE
