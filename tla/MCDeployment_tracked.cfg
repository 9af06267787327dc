CONSTANTS
  NetworkConstant = "staging"
  TestingProduction = FALSE
  MaxCrashes = 1
  MaxTornWrites = 0
  MaxCheckouts = 0
  LastStage = 2
  Script <- MCScript
  Retired <- MCRetired
  Names <- MCNames
  Types <- MCTypes
  KnownDependencies = {"TREASURY"}
SPECIFICATION FairSpec
INVARIANTS
  EachDeploymentTracked
