SPECIFICATION Spec
CONSTANTS
  PRECISE_UNIT = 10
  Components = {"holding", "debt"}
  InitialUnits <- StartUnits
  InitialSupply = {0, 1, 13, 20}
  Rates = {0, 3, 5}
  ONE_YEAR_IN_SECONDS = 4
  Elapsed = {0, 1, 3, 7}
  MaxAccruals = 3
  Bound = 21
INVARIANTS
  HoldingsBacked
  DebtsKept
  RoundsAsNamed
CHECK_DEADLOCK FALSE
