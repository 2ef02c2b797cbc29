CONSTANTS
  A = A
  B = B
  C = C
  Modules <- MCModules
  MaxImports = 2
  MaxFiles = 2
SPECIFICATION TreeSpec
INVARIANTS ErrorsExact OrderIsTopological
CHECK_DEADLOCK FALSE
