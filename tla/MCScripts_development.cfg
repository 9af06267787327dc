CONSTANTS
  NetworkConstant = "development"
  NetworkId = 50
  TestingProduction = FALSE
  MaxCrashes = 1
  MaxTornWrites = 0
  MaxCheckouts = 0
  LastStage = 23
  Script <- AllScripts
  Retired <- RetiredScripts
  Names <- AllNames
  Types <- AllTypes
  KnownDependencies <- Dependencies
SPECIFICATION FairSpec
INVARIANTS
  UnrecordedIsAdoptable
  OrphansBounded
PROPERTIES
  EventuallyDeployed
