CONSTANTS
  SigNums = {2, 15}
  Threads = {t1, t2}
  MaxRaises = 4
  MaxBytes = 3
  MaxCalls = 2
  MaxLines = 6
  FirstLen = 1
  LastLen = 2
SPECIFICATION MCSpec
INVARIANTS NoSignalLost BytesAccounted PagesAreLines RecvAllExact
PROPERTIES NotTwice SignalsHandled ReadingEnds
CHECK_DEADLOCK FALSE
