CONSTANTS
  NetworkConstant = "development"
  TestingProduction = FALSE
  MaxCrashes = 0
  MaxTornWrites = 0
  MaxCheckouts = 0
  LastStage = 2
  Script <- MCScript
  Retired <- MCRetired
  Names <- MCNames
  Types <- MCTypes
  KnownDependencies = {}
SPECIFICATION FairSpec
PROPERTIES
  ClearedForDevelopment
