SPECIFICATION FairSpec
CONSTANTS
  Production = TRUE
  MaxCrashes = 1
  MaxTornWrites = 1
  MaxMoves = 1
INVARIANTS
  AllocatedExactly
  DeployerCoversRest
  PaidOnceUnlessMoved
PROPERTIES
  EventuallyAllocated
CHECK_DEADLOCK FALSE
