CONSTANTS
  Mods <- MCMods
  Order <- MCOrder
  Imports <- MCImports
  Reexports <- MCReexports
  Contents <- MCContents
  Public <- MCPublic
  Fits <- MCFits
  FirstContent = "a"
  NoContent = "no content"
  NoIface = NoIface
  MaxClock = 3
  MaxEdits = 2
  MaxBuilds = 3
  MaxCrashes = 1
SPECIFICATION Spec
INVARIANTS SuccessMeansFresh SuccessMeansConsistent FailureHasReason
PROPERTY NoNeedlessRebuild
CHECK_DEADLOCK FALSE
