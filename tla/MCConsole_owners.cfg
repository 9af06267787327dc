CONSTANTS
  NetworkConstant = "staging"
  TestingProduction = TRUE
  MaxCrashes = 1
  MaxTornWrites = 1
  MaxCheckouts = 1
  LastStage = 2
  Script <- MCScript
  Retired <- MCRetired
  Names <- MCNames
  Types <- MCTypes
  KnownDependencies = {"TREASURY"}
  Owner = "TREASURY"
  SpacedNames = {"Extension"}
  MaxConsoles = 1
SPECIFICATION FairTxSpec
INVARIANTS
  HandedOverLast
  DeployerRetired
  DeferralsBounded
  ConsoleIsCurrent
PROPERTIES
  EventuallyEffective
