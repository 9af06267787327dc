CONSTANTS
  NetworkConstant = "production"
  TestingProduction = FALSE
  MaxCrashes = 0
  MaxTornWrites = 0
  MaxCheckouts = 0
  LastStage = 1
  Script <- MCScript
  Retired = {}
  Names <- MCNames
  Types <- MCTypes
  KnownDependencies = {}
  MaxOverlaps = 1
  MaxFailures = 0
  MaxTaskCrashes = 0
SPECIFICATION FairVerifySpec
INVARIANTS
  FinishedStagesRecorded
