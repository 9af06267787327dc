SPECIFICATION FairSpec
CONSTANTS
  Developers = {"ann", "bob"}
  Words = {"viewer", "manager"}
  DigitWords <- Threecrv
  HandNumbers = {25}
  LastScript = 23
  MaxBranches = 2
INVARIANTS
  SkippedForCause
PROPERTIES
  EveryScriptRuns
CHECK_DEADLOCK FALSE
