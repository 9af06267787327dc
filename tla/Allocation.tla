----------------------------- MODULE Allocation -----------------------------
(***************************************************************************)
(* Stage 0 as the holders of INDEX see it: the whole supply is minted to   *)
(* the deployer, and deploy/000_base_system.ts hands it out to the         *)
(* treasury, the first distributors and ten vesting contracts.  The script *)
(* reads no record of its transfers: one counts as done if its recipient   *)
(* owns any tokens.                                                        *)
(*                                                                         *)
(* Module Deployment has this stage step by step and without amounts.      *)
(* Here the steps are coarser (the token is there, a name is written with  *)
(* its record) and the balances are added, with what the other holders may *)
(* do to them: the treasury spends, a distributor pays claims and rewards, *)
(* a vesting releases.  Amounts are whole tokens.                          *)
(***************************************************************************)
EXTENDS Integers, Sequences, FiniteSets, Functions

CONSTANTS
  Production,     \* the treasury is a multisig; elsewhere the deployer stands in
  MaxCrashes,     \* bound on runs cut short
  MaxTornWrites,  \* bound on runs killed while they write the file
  MaxMoves        \* bound on transfers by other holders

ASSUME AllocationAssumption ==
  /\ Production \in BOOLEAN
  /\ {MaxCrashes, MaxTornWrites, MaxMoves} \subseteq Nat

-----------------------------------------------------------------------------
(***************************************************************************)
(* The amounts, and the order of the script.                               *)
(***************************************************************************)
IndexSupply == 10000000

TREASURY_IMMEDIATE_OWNERSHIP_AMOUNT         == 500000
TREASURY_INDEX_METHODOLOGY_OWNERSHIP_AMOUNT == 750000
MERKLE_DISTRIBUTOR_AMOUNT                   == 100000
UNISWAP_LP_REWARD_AMOUNT                    == 900000
TREASURY_OWNERSHIP_AMOUNTS                  == <<2375000, 1425000, 950000>>
SET_LABS_OWNERSHIP_AMOUNTS                  == <<1400000, 840000, 560000>>
DFP_OWNERSHIP_AMOUNTS                       == <<100000, 60000, 40000>>

\* A share: who gets it (an owner, and a year where there are three) and how much.
Share(owner, year, amount) == [name |-> <<owner, year>>, amount |-> amount]
ThreeYears(owner, amounts) == [year \in 1..3 |-> Share(owner, year, amounts[year])]

\* The contracts that are deployed: two distributors, which know no amount, and the
\* vestings with the vestingAmount of their constructor.
Vestings ==
  <<Share("methodology", 0, TREASURY_INDEX_METHODOLOGY_OWNERSHIP_AMOUNT)>>
  \o ThreeYears("treasury", TREASURY_OWNERSHIP_AMOUNTS)
  \o ThreeYears("setLabs", SET_LABS_OWNERSHIP_AMOUNTS)
  \o ThreeYears("dfp", DFP_OWNERSHIP_AMOUNTS)

Distributors == <<Share("claims", 0, 0), Share("staking", 0, 0)>>

Deployments == Distributors \o Vestings

\* Mutant: the transfer to the treasury is left out.
TransfersToContracts ==
  <<Share("methodology", 0, TREASURY_INDEX_METHODOLOGY_OWNERSHIP_AMOUNT),
    Share("claims", 0, MERKLE_DISTRIBUTOR_AMOUNT),
    Share("staking", 0, UNISWAP_LP_REWARD_AMOUNT)>>
  \o ThreeYears("treasury", TREASURY_OWNERSHIP_AMOUNTS)
  \o ThreeYears("setLabs", SET_LABS_OWNERSHIP_AMOUNTS)
  \o ThreeYears("dfp", DFP_OWNERSHIP_AMOUNTS)

\* The transfers, each with the quantity it sends.
Transfers ==
  <<Share("multisig", 0, TREASURY_IMMEDIATE_OWNERSHIP_AMOUNT),
    Share("methodology", 0, TREASURY_INDEX_METHODOLOGY_OWNERSHIP_AMOUNT),
    Share("claims", 0, MERKLE_DISTRIBUTOR_AMOUNT),
    Share("staking", 0, UNISWAP_LP_REWARD_AMOUNT)>>
  \o ThreeYears("treasury", TREASURY_OWNERSHIP_AMOUNTS)
  \o ThreeYears("setLabs", SET_LABS_OWNERSHIP_AMOUNTS)
  \o ThreeYears("dfp", DFP_OWNERSHIP_AMOUNTS)

ContractNames == {Deployments[k].name : k \in DOMAIN Deployments}

\* hardhat-deploy keeps one contract per type, and the vestings are of one type.
TypeOf(name) == IF name \in {<<"claims", 0>>, <<"staking", 0>>} THEN name[1] ELSE "Vesting"

VARIABLES
  contracts,  \* contracts of the chain, oldest first: the names they were made for
  latest,     \* hardhat-deploy: type -> its latest contract, or 0
  addresses,  \* the ledger: name -> contract, or 0
  balance,    \* tokens of accounts and contracts
  sent,       \* tokens the script has sent to a name, in all
  spent,      \* tokens an account or contract has sent on to others
  received,   \* tokens an account or contract got from others than the script
  pc, step,   \* the place of the run
  finished,   \* the ledger counts the stage as done
  crashes, tornWrites, moves

environment == <<crashes, tornWrites, moves>>
ledger      == <<addresses, finished>>
tokens      == <<balance, sent, spent, received>>
world       == <<contracts, latest, tokens>>
vars        == <<world, ledger, pc, step, environment>>

\* Accounts are no contracts; those have the numbers from 1.
Deployer == 0
Multisig == -1
Others   == -2

Recipient(name) == IF name # <<"multisig", 0>> THEN addresses[name]
                   ELSE IF Production THEN Multisig ELSE Deployer

-----------------------------------------------------------------------------
(***************************************************************************)
(* The script.                                                             *)
(***************************************************************************)
StartRun ==
  /\ pc = "idle" /\ ~finished
  /\ pc' = "deploy" /\ step' = 1
  /\ UNCHANGED <<world, ledger, environment>>

Deploying == pc = "deploy" /\ step \in DOMAIN Deployments
Name      == Deployments[step].name

\* The constructor arguments of two vestings are never the same.
Reusable(name) == latest[TypeOf(name)] # 0 /\ contracts[latest[TypeOf(name)]] = name

SkipRecordedName ==
  /\ Deploying /\ addresses[Name] # 0
  /\ step' = step + 1
  /\ UNCHANGED <<world, ledger, pc, environment>>

\* An account of the token, with the contract that is created.
WithNew(account) ==
  [a \in DOMAIN account \cup {Len(contracts) + 1} |->
     IF a \in DOMAIN account THEN account[a] ELSE 0]

CreateContract ==
  /\ Deploying /\ addresses[Name] = 0 /\ ~Reusable(Name)
  /\ contracts' = Append(contracts, Name)
  /\ latest' = [latest EXCEPT ![TypeOf(Name)] = Len(contracts) + 1]
  /\ balance' = WithNew(balance) /\ spent' = WithNew(spent) /\ received' = WithNew(received)
  /\ pc' = "save"
  /\ UNCHANGED <<ledger, sent, step, environment>>

ReuseContract ==
  /\ Deploying /\ addresses[Name] = 0 /\ Reusable(Name)
  /\ pc' = "save"
  /\ UNCHANGED <<world, ledger, step, environment>>

SaveAddress ==
  /\ pc = "save"
  /\ addresses' = [addresses EXCEPT ![Name] = latest[TypeOf(Name)]]
  /\ pc' = "deploy" /\ step' = step + 1
  /\ UNCHANGED <<world, finished, environment>>

StartTransfers ==
  /\ pc = "deploy" /\ step \notin DOMAIN Deployments
  /\ pc' = "transfer" /\ step' = 1
  /\ UNCHANGED <<world, ledger, environment>>

Transferring == pc = "transfer" /\ step \in DOMAIN Transfers
Transfer     == Transfers[step]

\* Mutant: the balance of the recipient is not looked at.
SendAlways(name) == TRUE

\* transferIndexTokenFromDeployer: recipientBalance.eq(0).
Unpaid(name) == balance[Recipient(name)] = 0

SkipTransfer ==
  /\ Transferring /\ ~Unpaid(Transfer.name)
  /\ step' = step + 1
  /\ UNCHANGED <<world, ledger, pc, environment>>

Move(from, to, amount) ==
  balance' = [balance EXCEPT ![from] = @ - amount, ![to] = @ + amount]

SendTransfer ==
  /\ Transferring /\ Unpaid(Transfer.name) /\ balance[Deployer] >= Transfer.amount
  /\ Move(Deployer, Recipient(Transfer.name), Transfer.amount)
  /\ sent' = [sent EXCEPT ![Transfer.name] = @ + Transfer.amount]
  /\ pc' = "record"
  /\ UNCHANGED <<contracts, latest, spent, received, ledger, step, environment>>

RecordTransfer ==
  /\ pc = "record"
  /\ pc' = "transfer" /\ step' = step + 1
  /\ UNCHANGED <<world, ledger, environment>>

\* The token refuses what the deployer no longer has: the script throws.
RefuseTransfer ==
  /\ Transferring /\ Unpaid(Transfer.name) /\ balance[Deployer] < Transfer.amount
  /\ pc' = "idle"
  /\ UNCHANGED <<world, ledger, step, environment>>

FinishStage ==
  /\ pc = "transfer" /\ step \notin DOMAIN Transfers
  /\ finished' = TRUE /\ pc' = "idle"
  /\ UNCHANGED <<world, addresses, step, environment>>

-----------------------------------------------------------------------------
(***************************************************************************)
(* What may interrupt it, and what the holders do meanwhile.               *)
(***************************************************************************)
Crash ==
  /\ pc # "idle" /\ crashes < MaxCrashes
  /\ crashes' = crashes + 1 /\ pc' = "idle"
  /\ UNCHANGED <<world, ledger, step, tornWrites, moves>>

\* The file reads as the empty document afterwards; the cache is still there.
TearWrite ==
  /\ \/ pc \in {"save", "record"}
     \/ pc = "transfer" /\ step \notin DOMAIN Transfers
  /\ tornWrites < MaxTornWrites
  /\ tornWrites' = tornWrites + 1 /\ pc' = "idle"
  /\ addresses' = [n \in ContractNames |-> 0]
  /\ UNCHANGED <<world, finished, step, crashes, moves>>

\* A holder sends all its tokens somewhere, or a single one: the treasury spends its share,
\* a distributor pays its claims or its rewards, a vesting releases.
MoveTokens ==
  /\ moves < MaxMoves
  /\ moves' = moves + 1
  /\ \E from \in DOMAIN balance \ {Deployer}, to \in DOMAIN balance :
       \E amount \in {1, balance[from]} :
         /\ balance[from] >= amount /\ amount > 0 /\ to # from
         /\ Move(from, to, amount)
         /\ spent' = [spent EXCEPT ![from] = @ + amount]
         /\ received' = [received EXCEPT ![to] = @ + amount]
  /\ UNCHANGED <<contracts, latest, sent, ledger, pc, step, crashes, tornWrites>>

Init ==
  /\ contracts = <<>> /\ latest = [t \in {TypeOf(n) : n \in ContractNames} |-> 0]
  /\ addresses = [n \in ContractNames |-> 0] /\ finished = FALSE
  /\ balance = [a \in {Deployer, Multisig, Others} |->
                  IF a = Deployer THEN IndexSupply ELSE 0]
  /\ spent = [a \in DOMAIN balance |-> 0] /\ received = spent
  /\ sent = [n \in ContractNames \cup {<<"multisig", 0>>} |-> 0]
  /\ pc = "idle" /\ step = 1
  /\ crashes = 0 /\ tornWrites = 0 /\ moves = 0

Progress ==
  \/ StartRun \/ SkipRecordedName \/ CreateContract \/ ReuseContract \/ SaveAddress
  \/ StartTransfers \/ SkipTransfer \/ SendTransfer \/ RecordTransfer
  \/ RefuseTransfer \/ FinishStage

Next == Progress \/ Crash \/ TearWrite \/ MoveTokens

Spec == Init /\ [][Next]_vars

\* The run goes on, and the operator starts another one.
FairSpec == Spec /\ WF_vars(Progress)

-----------------------------------------------------------------------------
(***************************************************************************)
(* Properties.                                                             *)
(***************************************************************************)
\* The contract the ledger has for a vesting holds what its constructor was told it
\* would, the distributors hold their shares, and so does the treasury: in production its
\* multisig, with nothing left for the deployer, elsewhere the deployer in its place.
HoldsItsShare(share) == balance[Recipient(share.name)] = share.amount
AllAllocated ==
  /\ \A k \in DOMAIN Vestings : HoldsItsShare(Vestings[k])
  /\ HoldsItsShare(Share("claims", 0, MERKLE_DISTRIBUTOR_AMOUNT))
  /\ HoldsItsShare(Share("staking", 0, UNISWAP_LP_REWARD_AMOUNT))
  /\ HoldsItsShare(Share("multisig", 0, TREASURY_IMMEDIATE_OWNERSHIP_AMOUNT))
  /\ balance[IF Production THEN Deployer ELSE Multisig] = 0

\* If nobody else moves tokens meanwhile, the stage counts as finished only with the
\* whole supply allocated, whatever was interrupted or lost before.
AllocatedExactly == (finished /\ moves = 0) => AllAllocated

\* Contracts that hold tokens and that the ledger has forgotten.
Lost == {i \in DOMAIN contracts : balance[i] > 0 /\ addresses[contracts[i]] # i}

\* As long as no such contract exists the deployer has just what the transfers that
\* remain will send: an interruption never makes it pay a share twice.
DeployerCoversRest ==
  (moves = 0 /\ Lost = {} /\ \A n \in ContractNames : addresses[n] # 0) =>
    balance[Deployer] =
      SumFunctionOnSet([k \in DOMAIN Transfers |-> Transfers[k].amount],
                       {k \in DOMAIN Transfers : Unpaid(Transfers[k].name)})
      + (IF Production THEN 0 ELSE TREASURY_IMMEDIATE_OWNERSHIP_AMOUNT)

\* The shares that leave the deployer: elsewhere than in production the treasury's stays.
SharesToSend ==
  {share \in Range(Transfers) : Production \/ share.name \in ContractNames}

\* The script takes a balance for a record of its transfer, and nobody but the holders can
\* mislead it.  Unless a torn write lost the ledger, what it sends to a recipient beyond one
\* share makes up at most for what the recipient has sent on; and the finished stage has
\* left out a share only where the recipient had tokens from somebody else.
PaidOnceUnlessMoved ==
  \A share \in SharesToSend :
    /\ tornWrites = 0 => sent[share.name] <= share.amount + spent[Recipient(share.name)]
    /\ finished => \/ sent[share.name] >= share.amount
                   \/ received[Recipient(share.name)] > 0

\* Run often enough, the stage is finished, unless a torn write has made the ledger
\* forget a contract with tokens (the deployer cannot pay its share a second time) or
\* tokens were moved: then a share may be paid again, and the deployer run out of tokens.
EventuallyAllocated == <>[](finished \/ Lost # {} \/ moves > 0)
=============================================================================
