CONSTANTS
  NetworkConstant = "development"
  TestingProduction = FALSE
  MaxCrashes = 2
  MaxTornWrites = 1
  MaxCheckouts = 1
  LastStage = 3
  Script <- MCFaultyScript
  Retired = {}
  Names <- MCFaultyNames
  Types <- MCTypes
  KnownDependencies = {}
SPECIFICATION FairSpec
INVARIANTS
  TypeOK
  UntrackedBounded
  RunInvariant
  DeployedAsScripted
PROPERTIES
  ImplementsRegistry
  LedgerOnlyGrows
