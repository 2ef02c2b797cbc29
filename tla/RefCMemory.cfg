CONSTANTS
  MaxCells = 9
  MaxOps = 3
SPECIFICATION MCSpec
INVARIANTS CountsExact NamesAlive NoGarbage
CHECK_DEADLOCK FALSE
