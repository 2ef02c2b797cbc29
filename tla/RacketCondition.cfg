CONSTANTS
  t1 = t1
  t2 = t2
  t3 = t3
  Threads <- MCThreads
  MaxWaits = 3
  MaxSignals = 2
  MaxBroadcasts = 1
SPECIFICATION Spec
INVARIANT CountsExact
PROPERTIES BroadcastReleasesAll NotificationsReturn
CHECK_DEADLOCK FALSE
