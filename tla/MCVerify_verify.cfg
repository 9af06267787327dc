CONSTANTS
  NetworkConstant = "production"
  TestingProduction = FALSE
  MaxCrashes = 1
  MaxTornWrites = 1
  MaxCheckouts = 0
  LastStage = 1
  Script <- MCScript
  Retired = {}
  Names <- MCNames
  Types <- MCTypes
  KnownDependencies = {}
  MaxOverlaps = 1
  MaxFailures = 1
  MaxTaskCrashes = 1
SPECIFICATION FairVerifySpec
INVARIANTS
  FlagsAreTrue
  FlagsComplete
  TurnsKeepRunInvariant
PROPERTIES
  TaskKeepsLedger
  EventuallyPublished
