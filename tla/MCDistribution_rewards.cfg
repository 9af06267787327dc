SPECIFICATION DistributionSpec
CONSTANTS
  Lists <- MCLists
  AccountOf <- MCAccountOf
  MaxClaims = 3
  Sizes <- MCSizes
  Others = {0}
  Leaf <- MCLeaf
  Hash <- MCHash
INVARIANTS
  ClaimsVerify
  NothingElseVerifies
  RootIsReference
  NobodyIsShort
  EarningsArePaid
  RepositoryListsAreClean
CHECK_DEADLOCK FALSE
