CONSTANTS
  t1 = t1
  t2 = t2
  t3 = t3
  t4 = t4
  v1 = v1
  v2 = v2
  NoHolder = NoHolder
  Nil = Nil
  Threads <- MCThreads
  Values <- MCValues
  MaxPuts = 3
  MaxGets = 2
  MaxSpurious = 1
SPECIFICATION ChannelSpec
INVARIANTS TypeOK NoLostSignal
PROPERTIES DocumentedSpec Progress
CHECK_DEADLOCK FALSE
