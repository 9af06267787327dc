--------------------------- MODULE DeployScripts ---------------------------
(***************************************************************************)
(* The twenty-four deploy scripts deploy/000_*.ts to deploy/023_*.ts as    *)
(* data: for each, the sequence of names it provides and calls it makes,   *)
(* in the order of the code, on the network the environment selects.       *)
(*                                                                         *)
(* The arguments of a deployment are the names of the addresses that its   *)
(* constructor gets; the other constructor arguments are abstracted to a   *)
(* salt, and deployments of one type have equal salts where the code       *)
(* passes equal constants.  The lists of investors (015, 018) and of       *)
(* contributors (023) are cut to two entries each.                         *)
(***************************************************************************)
EXTENDS Outputs, Sequences

CONSTANT NetworkId  \* 1 mainnet, 42 kovan, 50 a local chain

Production  == NetworkConstant = "production"
Development == NetworkConstant = "development"

-----------------------------------------------------------------------------
(***************************************************************************)
(* The table of dependencies.ts: the names it has an address for, by       *)
(* network.  An empty string there counts as no address.                   *)
(***************************************************************************)
OnEveryNetwork ==
  {"DPI", "WBTC", "WETH", "USDC", "ETHFLI", "BTCFLI", "DPI_ETH_UNI_POOL",
   "ETHFLI_UNI_POOL", "DEBT_ISSUANCE_MODULE", "COMPOUND_LEVERAGE_MODULE",
   "STREAMING_FEE_MODULE", "SINGLE_INDEX_MODULE", "GENERAL_INDEX_MODULE",
   "GOVERNANCE_MODULE", "AMM_SPLITTER", "C_ETH", "C_USDC", "C_WBTC",
   "COMPOUND_COMPTROLLER", "CHAINLINK_ETH", "CHAINLINK_BTC", "CHAINLINK_USDC",
   "TREASURY_MULTI_SIG", "UNISWAP_V3_QUOTER"}
OnMainnet ==
  {"MVI", "BED", "MVI_UNI_POOL", "INDEX_ETH_UNISWAP", "INDEX_ETH_SUSHISWAP",
   "MASTERCHEF", "OPS_MULTI_SIG", "SET_LABS", "DFP_MULTI_SIG", "BANKLESS_MULTI_SIG"}

Dependencies == CASE NetworkId = 1  -> OnEveryNetwork \cup OnMainnet
                  [] NetworkId = 42 -> OnEveryNetwork
                  [] OTHER          -> {}

-----------------------------------------------------------------------------
(***************************************************************************)
(* The shapes of a step.                                                   *)
(***************************************************************************)
Deploy(name, type, salt, args, saver) ==
  <<[kind |-> "deploy", name |-> name, type |-> type, salt |-> salt,
     fresh |-> FALSE, args |-> args, saver |-> saver]>>

\* Mutant: a dependency that is unknown is left so.
PolyfillNothing(name) == <<>>

\* if (findDependency(name) === "") record a random address, or the deployer's.
Polyfill(name)           == <<[kind |-> "mock", name |-> name, value |-> "random", polyfill |-> TRUE]>>
PolyfillWithDeployer(name) == <<[kind |-> "mock", name |-> name, value |-> "deployer", polyfill |-> TRUE]>>

\* Outside production the deployer stands in for a multisig, whatever the table has.
StandIn(name) ==
  IF Production THEN <<>>
  ELSE <<[kind |-> "mock", name |-> name, value |-> "deployer", polyfill |-> FALSE]>>

\* A token mock where the network has no such token.
TokenMock(name) ==
  IF name \in Dependencies THEN <<>>
  ELSE Deploy(name, "StandardTokenMock", name, <<"deployer">>, "write")

Call(op, target, subject, deferrable) ==
  <<[kind |-> "call", op |-> op, target |-> target, subject |-> subject,
     deferrable |-> deferrable]>>

Transfer(recipient)       == Call("transfer", "IndexToken", recipient, FALSE)
AddExtension(manager, extension)      == Call("adapter", manager, extension, TRUE)
AddExtensionNow(manager, extension)   == Call("adapter", manager, extension, FALSE)

InProduction(name) == IF Production THEN name ELSE "deployer"
Treasury == InProduction("TREASURY_MULTI_SIG")
IndexGov == IF Development THEN "deployer" ELSE "TREASURY_MULTI_SIG"
Pool(name) == IF name \in Dependencies THEN name ELSE "deployer"

IndexToken(saver) == Deploy("IndexToken", "IndexToken", "", <<"deployer">>, saver)

-----------------------------------------------------------------------------
(***************************************************************************)
(* 000: the INDEX token, its first distributors and vestings, and the      *)
(* initial allocation.                                                     *)
(***************************************************************************)
\* In development the vesting periods are counted from the start of the process.
Vesting(name, recipient) ==
  LET deployment == Deploy(name, "Vesting", name, <<"IndexToken", recipient>>, "write")
  IN  <<[deployment[1] EXCEPT !.fresh = Development]>>

\* Mutant: the first distributor is deployed from the artifact of the next block.
DistributorsSwapped ==
  IndexToken("write")
  \o Deploy("MerkleDistributor", "StakingRewards", "2020-10", <<"IndexToken">>, "write")
  \o Deploy("StakingRewards", "StakingRewards", "",
            <<Treasury, "IndexToken", Pool("DPI_ETH_UNI_POOL")>>, "write")

Distributors ==
  IndexToken("write")
  \o Deploy("MerkleDistributor", "MerkleDistributor", "2020-10", <<"IndexToken">>, "write")
  \o Deploy("StakingRewards", "StakingRewards", "",
            <<Treasury, "IndexToken", Pool("DPI_ETH_UNI_POOL")>>, "write")

Vestings ==
  Vesting("IndexMethodologyTreasuryVesting", Treasury)
  \o Vesting("YearOneTreasuryVesting", Treasury)
  \o Vesting("YearTwoTreasuryVesting", Treasury)
  \o Vesting("YearThreeTreasuryVesting", Treasury)
  \o Vesting("YearOneSetLabsVesting", InProduction("SET_LABS"))
  \o Vesting("YearTwoSetLabsVesting", InProduction("SET_LABS"))
  \o Vesting("YearThreeSetLabsVesting", InProduction("SET_LABS"))
  \o Vesting("YearOneDFPVesting", InProduction("DFP_MULTI_SIG"))
  \o Vesting("YearTwoDFPVesting", InProduction("DFP_MULTI_SIG"))
  \o Vesting("YearThreeDFPVesting", InProduction("DFP_MULTI_SIG"))

Allocation ==
  Transfer(Treasury) \o Transfer("IndexMethodologyTreasuryVesting")
  \o Transfer("MerkleDistributor") \o Transfer("StakingRewards")
  \o Transfer("YearOneTreasuryVesting") \o Transfer("YearTwoTreasuryVesting")
  \o Transfer("YearThreeTreasuryVesting")
  \o Transfer("YearOneSetLabsVesting") \o Transfer("YearTwoSetLabsVesting")
  \o Transfer("YearThreeSetLabsVesting")
  \o Transfer("YearOneDFPVesting") \o Transfer("YearTwoDFPVesting")
  \o Transfer("YearThreeDFPVesting")

BaseSystem ==
  StandIn("TREASURY_MULTI_SIG") \o StandIn("DFP_MULTI_SIG")
  \o Distributors \o Vestings \o Allocation

\* 001
ICManager ==
  Polyfill("DPI") \o Polyfill("SINGLE_INDEX_MODULE") \o Polyfill("STREAMING_FEE_MODULE")
  \o Deploy("ICManager", "ICManager", "",
            <<"DPI", "SINGLE_INDEX_MODULE", "STREAMING_FEE_MODULE",
              "TREASURY_MULTI_SIG", "DFP_MULTI_SIG">>, "write")

\* 002, 008, 011: liquidity mining.  All three pay for thirty days.
\* Mutant: the pool of the script this one was copied from.
StakingRewardsForDPI(name, pool, saver) ==
  Deploy(name, "StakingRewardsV2", "30 days",
         <<Treasury, "IndexToken", Pool("DPI_ETH_UNI_POOL")>>, saver)

StakingRewards(name, pool, saver) ==
  Deploy(name, "StakingRewardsV2", "30 days", <<Treasury, "IndexToken", Pool(pool)>>, saver)

LMExtension ==
  StandIn("TREASURY_MULTI_SIG") \o PolyfillWithDeployer("DPI_ETH_UNI_POOL")
  \o IndexToken("write")
  \o StakingRewards("StakingRewardsV2 - December", "DPI_ETH_UNI_POOL", "write")

FLIStakingReward ==
  StandIn("TREASURY_MULTI_SIG") \o PolyfillWithDeployer("ETHFLI_UNI_POOL")
  \o IndexToken("save")
  \o StakingRewards("StakingRewardsV2 - ETHFLI", "ETHFLI_UNI_POOL", "save")

MVIStakingReward ==
  PolyfillWithDeployer("MVI_UNI_POOL") \o IndexToken("write")
  \o StakingRewards("StakingRewardsV2 - MVI", "MVI_UNI_POOL", "save")

\* 003 to 006, 010, 014, 016: one Merkle root a month.
CoopRewards(name) == Deploy(name, "MerkleDistributor", name, <<"IndexToken">>, "save")

NovRewards == CoopRewards("RewardsNov20MerkleDistributor")
DecRewards == CoopRewards("RewardsDec20MerkleDistributor")
JanRewards == CoopRewards("RewardsJan21MerkleDistributor")
FebRewards == CoopRewards("RewardsFeb21MerkleDistributor")
MarRewards == CoopRewards("RewardsMar21MerkleDistributor")
AprRewards == CoopRewards("RewardsApr21MerkleDistributor")
MayRewards == CoopRewards("RewardsMay21MerkleDistributor")

-----------------------------------------------------------------------------
(***************************************************************************)
(* 007 and 012: the two leveraged tokens.                                  *)
(***************************************************************************)
ETHFLIDependencies ==
  Polyfill("ETHFLI") \o Polyfill("COMPOUND_LEVERAGE_MODULE")
  \o Polyfill("DEBT_ISSUANCE_MODULE") \o Polyfill("COMPOUND_COMPTROLLER")
  \o Polyfill("CHAINLINK_ETH") \o Polyfill("CHAINLINK_USDC")
  \o TokenMock("WETH") \o TokenMock("USDC") \o TokenMock("C_ETH") \o TokenMock("C_USDC")

ETHFLISystem ==
  ETHFLIDependencies
  \o Deploy("SupplyCapIssuanceHook", "SupplyCapIssuanceHook", "", <<Treasury>>, "save")
  \o Deploy("BaseManager", "BaseManager", "",
            <<"ETHFLI", "deployer", InProduction("DFP_MULTI_SIG")>>, "save")
  \o Deploy("FlexibleLeverageStrategyExtension", "FlexibleLeverageStrategyExtension",
            "ETH settings",
            <<"BaseManager", "ETHFLI", "COMPOUND_LEVERAGE_MODULE", "COMPOUND_COMPTROLLER",
              "C_ETH", "C_USDC", "WETH", "USDC", "CHAINLINK_ETH", "CHAINLINK_USDC">>, "save")
  \o Deploy("FeeSplitAdapter", "FeeSplitAdapter", "",
            <<"BaseManager", "STREAMING_FEE_MODULE", "DEBT_ISSUANCE_MODULE">>, "save")
  \o AddExtensionNow("BaseManager", "FlexibleLeverageStrategyExtension")
  \o AddExtensionNow("BaseManager", "FeeSplitAdapter")

BTCFLIDependencies ==
  Polyfill("BTCFLI") \o Polyfill("CHAINLINK_BTC")
  \o TokenMock("WBTC") \o TokenMock("USDC") \o TokenMock("WETH")
  \o TokenMock("C_WBTC") \o TokenMock("C_USDC")

BTCFLISystem ==
  BTCFLIDependencies
  \o Deploy("BTCFLISupplyCapAllowedCallerIssuanceHook",
            "SupplyCapAllowedCallerIssuanceHook", "", <<"deployer">>, "save")
  \o Deploy("BTCFLIBaseManager", "BaseManager", "",
            <<"BTCFLI", "deployer", InProduction("DFP_MULTI_SIG")>>, "save")
  \o Deploy("BTCFlexibleLeverageStrategyExtension", "FlexibleLeverageStrategyExtension",
            "BTC settings",
            <<"BTCFLIBaseManager", "BTCFLI", "COMPOUND_LEVERAGE_MODULE",
              "COMPOUND_COMPTROLLER", "C_WBTC", "C_USDC", "WBTC", "USDC",
              "CHAINLINK_BTC", "CHAINLINK_USDC", "WETH">>, "save")
  \o Deploy("BTCFLIFeeSplitAdapter", "FeeSplitAdapter", "",
            <<"BTCFLIBaseManager", "STREAMING_FEE_MODULE", "DEBT_ISSUANCE_MODULE">>, "save")
  \o AddExtensionNow("BTCFLIBaseManager", "BTCFlexibleLeverageStrategyExtension")
  \o AddExtensionNow("BTCFLIBaseManager", "BTCFLIFeeSplitAdapter")

\* 021
Viewer(name, extension) ==
  Deploy(name, "FLIRebalanceViewer", "", <<extension, "UNISWAP_V3_QUOTER", "AMM_SPLITTER">>, "save")

FLIViewer ==
  Polyfill("UNISWAP_V3_QUOTER") \o Polyfill("AMM_SPLITTER")
  \o Viewer("FLIRebalanceViewer", "FlexibleLeverageStrategyExtension")
  \o Viewer("BTCFLIRebalanceViewer", "BTCFlexibleLeverageStrategyExtension")

-----------------------------------------------------------------------------
(***************************************************************************)
(* 019, 020, 022: a manager of its own for an index, with the helpers of   *)
(* deployUtils.ts; the operator is handed to the treasury at the end.      *)
(***************************************************************************)
BaseManager(name, token, methodologist) ==
  Deploy(name, "BaseManager", "", <<token, "deployer", methodologist>>, "save")
GovernanceAdapter(name, manager) ==
  Deploy(name, "GovernanceAdapter", "", <<manager, "GOVERNANCE_MODULE">>, "save")
GIMExtension(name, manager) ==
  Deploy(name, "GIMExtension", "", <<manager, "GENERAL_INDEX_MODULE">>, "save")
StreamingFeeExtension(name, manager, split) ==
  Deploy(name, "StreamingFeeSplitExtension", split, <<manager, "STREAMING_FEE_MODULE">>, "save")
SetOperator(manager) == Call("operator", manager, "TREASURY_MULTI_SIG", TRUE)

DPINewManager ==
  Polyfill("OPS_MULTI_SIG") \o Polyfill("DPI") \o Polyfill("GOVERNANCE_MODULE")
  \o Polyfill("STREAMING_FEE_MODULE") \o Polyfill("GENERAL_INDEX_MODULE")
  \o BaseManager("BaseManager - DPI", "DPI", InProduction("DFP_MULTI_SIG"))
  \o GovernanceAdapter("GovernanceAdapter - DPI", "BaseManager - DPI")
  \o GIMExtension("GIMExtension - DPI", "BaseManager - DPI")
  \o StreamingFeeExtension("StreamingFeeSplitExtension - DPI", "BaseManager - DPI", "70%")
  \o AddExtension("BaseManager - DPI", "GovernanceAdapter - DPI")
  \o AddExtension("BaseManager - DPI", "GIMExtension - DPI")
  \o AddExtension("BaseManager - DPI", "StreamingFeeSplitExtension - DPI")
  \o Call("caller", "GovernanceAdapter - DPI", "OPS_MULTI_SIG", TRUE)
  \o SetOperator("BaseManager - DPI")

IndexManager(token, manager, methodologist, gim, fee, split) ==
  Polyfill(token) \o Polyfill("STREAMING_FEE_MODULE") \o Polyfill("GENERAL_INDEX_MODULE")
  \o BaseManager(manager, token, InProduction(methodologist))
  \o GIMExtension(gim, manager) \o StreamingFeeExtension(fee, manager, split)
  \o AddExtension(manager, gim) \o AddExtension(manager, fee)
  \o SetOperator(manager)

MVINewManager ==
  IndexManager("MVI", "BaseManager - MVI", "TREASURY_MULTI_SIG",
               "GIMExtension - MVI", "StreamingFeeSplitExtension - MVI", "100%")

BEDManager ==
  IndexManager("BED", "BaseManager - BED", "BANKLESS_MULTI_SIG",
               "GIMExtension - BED", "StreamingFeeSplitExtension - BED", "50%")

\* 015, 018, 023: one contract per person.
Escrow(name)     == Deploy(name, "OtcEscrow", name, <<IndexGov, "USDC", "IndexToken">>, "save")
FTCVesting(name) == Deploy(name, "FTCVesting", name, <<"IndexToken", IndexGov>>, "save")

IndexSale           == Escrow("OtcEscrow - 1") \o Escrow("OtcEscrow - 2")
IndexSale2          == Escrow("OtcEscrow - 3") \o Escrow("OtcEscrow - 4")
FTCVestingContracts == FTCVesting("FTCVesting - 1") \o FTCVesting("FTCVesting - 2")

\* 017
IndexPowah ==
  Polyfill("MASTERCHEF") \o Polyfill("INDEX_ETH_UNISWAP") \o Polyfill("INDEX_ETH_SUSHISWAP")
  \o Deploy("IndexPowah", "IndexPowah", "",
            <<InProduction("OPS_MULTI_SIG"), "IndexToken", "INDEX_ETH_UNISWAP",
              "INDEX_ETH_SUSHISWAP", "MASTERCHEF", "StakingRewardsV2 - December",
              "StakingRewardsV2 - MVI">>, "save")

-----------------------------------------------------------------------------
RetiredScripts == {9, 13}

\* The scripts in the order of their numbers.
AllScripts == [s \in 0..23 |->
  CASE s = 0  -> BaseSystem
    [] s = 1  -> ICManager
    [] s = 2  -> LMExtension
    [] s = 3  -> NovRewards
    [] s = 4  -> DecRewards
    [] s = 5  -> JanRewards
    [] s = 6  -> FebRewards
    [] s = 7  -> ETHFLISystem
    [] s = 8  -> FLIStakingReward
    [] s = 10 -> MarRewards
    [] s = 11 -> MVIStakingReward
    [] s = 12 -> BTCFLISystem
    [] s = 14 -> AprRewards
    [] s = 15 -> IndexSale
    [] s = 16 -> MayRewards
    [] s = 17 -> IndexPowah
    [] s = 18 -> IndexSale2
    [] s = 19 -> DPINewManager
    [] s = 20 -> MVINewManager
    [] s = 21 -> FLIViewer
    [] s = 22 -> BEDManager
    [] s = 23 -> FTCVestingContracts
    [] s \in RetiredScripts -> <<>>]

-----------------------------------------------------------------------------
\* The names and types the scripts mention.
AllSteps == UNION {{AllScripts[s][k] : k \in DOMAIN AllScripts[s]} : s \in DOMAIN AllScripts}
NamesOf(step) ==
  CASE step.kind = "deploy" -> {step.name} \cup {step.args[k] : k \in DOMAIN step.args}
    [] step.kind = "mock"   -> {step.name}
    [] step.kind = "call"   -> {step.target, step.subject}
AllNames == Dependencies \cup (UNION {NamesOf(step) : step \in AllSteps} \ {"deployer"})
AllTypes == {step.type : step \in {x \in AllSteps : x.kind = "deploy"}}
=============================================================================
