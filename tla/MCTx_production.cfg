CONSTANTS
  NetworkConstant = "production"
  NetworkId = 1
  TestingProduction = TRUE
  MaxCrashes = 1
  MaxTornWrites = 0
  MaxCheckouts = 0
  LastStage = 23
  Script <- AllScripts
  Retired <- RetiredScripts
  Names <- AllNames
  Types <- AllTypes
  KnownDependencies <- Dependencies
  Owner = "TREASURY_MULTI_SIG"
  SpacedNames <- MCSpacedNames
  MaxConsoles = 0
SPECIFICATION ScriptsSpec
INVARIANTS
  NoAliases
  FinishedStagesCalled
  CompareIsSound
  DecodedTruly
  DeferredIsExecutable
PROPERTIES
  EventuallyDeployed
