# Verification of the Index Coop deployment tool

The repository deploys the contracts of the Index Coop with
[hardhat-deploy](https://github.com/wighawag/hardhat-deploy): twenty-four numbered scripts,
run one after the other against one network, and one JSON file per network that remembers
what they have done. The file is committed to git and is what everybody else reads: later
scripts, the tests, the Etherscan task, the owners of the multisig. The questions this
project asks are therefore those of a journal: what is in the file when a run stops
half way, what does the next run make of it, and do the file and the chain ever disagree?

## 1. Inventory

| Component | Source | State | Operations |
|---|---|---|---|
| Outputs ledger | `deployments/utils/deploys/outputHelper.ts` | one JSON document: `state.last_deployment_stage`, `addresses`, `transactions` | look up an address or dependency; save a deployment; write an address and a record; write a transaction, a deferred transaction, a state parameter; remove a network |
| Deployment runner | `deployments/utils/deployUtils.ts`, hardhat-deploy | the place of the run; hardhat-deploy's cache `deployments/<network>/`, one contract per type | skip or prepare a stage, deploy or reuse a contract, mock a name, add an adapter, approve a caller, set the operator, transfer INDEX, track a finished stage |
| Deploy scripts | `deploy/000_*.ts` to `deploy/023_*.ts` | none | the sequence of operations of each stage, per network |
| Dependency table | `deployments/utils/deploys/dependencies.ts` | constant | addresses of contracts and multisigs by network |
| Initial allocation, vesting | `deployments/constants/`, `deploy/000` | constants; the balances of INDEX | amounts, start and end dates; a transfer to every holder without tokens |
| Etherscan task | `tasks/etherscanVerify.ts` | the document it has read | verify each unverified deployment, write the document back |
| Multisig operations | `README.md`, phase 3 | the effects on the chain | the owners execute the deferred records |
| Deferred-transaction task | `tasks/tx.ts` | the addresses a console has read | list, view and compare deferred transactions; name, filter and decode addresses |
| Script generator | `tasks/createDeployScripts.ts` | files of a checkout | number and create the files of a new script |
| Compile-one | `tasks/compileOne.ts` | none | one sequence of calls into the compiler |
| Merkle trees | `deployments/utils/merkleUtils/` | none | root and proofs of a reward distribution; claims out of a list of earnings |
| Reward data | `deployments/utils/deploys/rewards/`, `merkleDistribution.ts` | constant | eight lists of earnings |
| Numeric helpers | `utils/common/` | none | rounding division, streaming fees, unit conversion |
| Getters, wallets, test utilities, data, build | the rest | none | |

**How they interact.** A script reads the ledger and the chain, sends transactions through
hardhat-deploy and writes the ledger. All of it is one process that awaits every call: there
is no concurrency inside a run. What makes it hard is that a run may stop between any two
of these steps and that three stores outlive it (the ledger, the chain and
hardhat-deploy's cache), that no two of them are written atomically, and that the
next run decides from them, and from nothing else, what is left to do. The Etherscan task
is a second writer of the ledger, and takes minutes between reading and writing it; the owners
of the multisig act on the same contracts as the runs, from the records of the ledger; the tx
tool shows them these records. The developers' branches meet in the numbers of the scripts,
which the stage counter compares.

**What makes each part correct.**

* *Ledger*: an address, once there, stays; a record is never overwritten; a torn file is not mistaken for anything but an empty one.
* *Runner*: a stage that later runs skip has left nothing undone; a contract created before a crash is adopted and not duplicated; the records that are missing or duplicated after crashes are bounded by the crashes; every stage is done in the end.
* *Scripts*: each finds the names it reads on every network; no two names get one contract; the calls the deployer may no longer make are deferred.
* *Etherscan task*: adds flags and undoes nothing; a flag is never a lie; every source is published in the end.
* *Multisig*: every deferred call can be executed, and with it every call of every script takes effect.
* *Tx tool*: what the owners compare, read and decode is the call they sign.
* *Allocation*: distributes the supply exactly, whatever is interrupted; what holders move meanwhile can repeat or replace a share, and no more than that.
* *Merkle trees, claims*: every claim has a proof and the root accepts it; the claims of a list pay what the list says, and the tokens set aside cover them.
* *Generator*: a number is used once, and every script that is merged is run.
* *Numeric helpers*: a helper rounds the way its name says; repeated roundings make nobody richer.

## 2. Modules

| Module | What it is |
|---|---|
| `Outputs` | The ledger as a record, and each operation of `outputHelper.ts` as an operator from document to document. |
| `Deployment` | The runner: extends `Outputs`; the scripts are a constant, a function from stage to sequence of steps. One action per operation, plus what may interrupt it. |
| `Registry` | The abstract specification: a registry of write-once names and a counter of finished stages. `Deployment` implements it (`Abstract == INSTANCE Registry WITH ...`). |
| `DeployScripts` (`MCScripts`) | The twenty-four scripts as data, a function of `NetworkConstant` and `NetworkId`; `MCScripts` is `Deployment` and `DeployScripts` together: the real scripts, run. |
| `MCDeployment` | Small scripts with the shapes of 000, 009, 019 and 007, and one with an argument no stage records, where more interruptions can be explored. |
| `DeploymentProofs` | Theorems: lemmas on the document and its operations, type correctness, the ledger, the refinement; then the contracts: what the chain, hardhat-deploy's cache and the ledger have of one another. |
| `EtherscanVerify` (`MCVerify`) | The verification task, and its composition with `Deployment`: two writers of one file. |
| `VerifyProofs` | Theorems on that composition; they rest on those of `DeploymentProofs`. |
| `Multisig` | `Deployment` and the owners of the wallet, who execute what the scripts have deferred. |
| `TxTask` (`MCTx` with the real scripts, `MCConsole` with the small ones) | `Multisig` and the owners' tool: its commands as operators on the ledger, the console as a stale copy of it. |
| `MultisigProofs` | Theorems on the calls, the owners and the tool; they rest on those of `DeploymentProofs`. |
| `Allocation`, `AllocationProofs` | Stage 0 with balances: the transfers of the supply and what other holders do meanwhile; theorems on it. |
| `MerkleTree` | Tree, proof and verification; the recursive definition of the tree. |
| `ClaimMap` | From a list of earnings to the claims of a distributor, and the distributor paying them. |
| `RewardData` | The eight lists of the repository. |
| `Distribution` (`MCDistribution`) | `ClaimMap`, `MerkleTree` and `RewardData` together: a list is parsed, its tree is made, the distributor is funded, and pays a claim whose proof it accepts. |
| `DistributionProofs` | Theorems on the tree and its proofs, for every number of claims, and on the claims, for every list. |
| `Sums` | Facts about sums over finite sets, used by `DistributionProofs` and `AllocationProofs`. |
| `ScriptGenerator` (`MCGenerator`), `GeneratorProofs` | Numbering scripts on branches, merging them, deploying them; a theorem on what is passed over. |
| `PreciseMath` | The fixed-point helpers. |
| `StreamingFee`, `FeeProofs` | The fee helpers, used again and again on one Set; theorems on what the roundings add up to. |
| `Rounding` (`MCFee`) | `StreamingFee`, and a comparison of each helper of `PreciseMath` with the exact quotient, on the operands that accruals produce. |

`Deployment` extends `Outputs`; `EtherscanVerify` and `Multisig` extend `Deployment`, `TxTask`
extends `Multisig`. `Distribution` extends the three modules it composes. `Allocation`,
`ScriptGenerator` and the numeric modules stand for themselves.

### State and actions of `Deployment`

| Model | Code |
|---|---|
| `outputs` | the file `deployments/outputs/<id>-<constant>.json`, as `returnOutputs()` reads it; missing keys of `addresses` read as `""` |
| `chain`, `effects` | contracts created, each with type, constructor arguments and (for managers) operator; calls executed |
| `cache` | hardhat-deploy's files: the latest contract of each type |
| `pc`, `stage`, `step` | the place of the run: between runs, between stages, before a step, between deploying and saving, between doing and recording |
| `StartRun`, `EndRun` | `yarn deploy:...` |
| `SkipFinishedStage`, `PassRetiredStage` | `func.skip = stageAlreadyFinished(...)`; `export default () => {}` of 009 and 013 |
| `PrepareDeployment` | `prepareDeployment`. The helpers of a stage call it again; as it changes no key of the document the model has the first call only |
| `FinishStage` | the second half of `trackFinishedStage` |
| `SkipRecordedName` | `if (check...Address === "")` is false |
| `CreateContract`, `ReuseContract` | `deploy(type, {from, args})` |
| `SaveDeployment` | `saveContractDeployment`: one write |
| `WriteContractAddress`, `WriteMockAddress`, then `RecordTransaction` | `writeContractAndTransactionToOutputs`: two writes |
| `SkipCall`, `DeferCall`, `SendCall` then `RecordTransaction` | `addExtension`, `addApprovedCaller`, `setOperator`, the private `addExtension` of 007 and 012, `transferIndexTokenFromDeployer` |
| `Abort` | an exception: an empty address as argument, or a call the manager refuses |
| `Crash` | the process or its connection dies between two steps |
| `TearWrite` | it dies inside `outputFile`, which truncates first: the file reads as the empty document (`readJson` with `throws: false`) |
| `FreshCheckout` | another machine continues: the ledger is in git, the cache is not |
| `fresh` of a step | its arguments contain a date taken from the clock (`anchorTime` of `constants/000_base_system.ts`, in development): the next run has another one and cannot adopt what this one has deployed |

### State and actions of the other modules

| Model | Code |
|---|---|
| `EtherscanVerify`: `snapshot`, `cursor` | `outputs` of the task, and where its loop is |
| `StartVerify`; `Verified`, `Failed`, `AlreadyVerified`; `WriteBack` | `returnOutputs()`; one iteration of the loop with the answer of `verify:verify`; the final `fs.outputFile` |
| `KillTask`, `TearWriteBack`; `overlaps` | the task is killed, or killed while it writes; how often a run and a task were started in spite of each other |
| `Multisig!Execute` | the owners sign the calldata of a record; the manager executes it if the wallet is its operator |
| `TxTask`: `Listed`, `View`, `Compare`, `Extracted`, `AllAddresses`, `AddressNames`, `Decoders` | `listTxs` and `getTx`, `viewTx`, `compareTx`, `extractExecTransactionData`, `getAllAddresses`, `getAddressName`, `getDestinationMap` with `decodeTransactionData` |
| `OpenConsole`, `system` | `yarn console` evaluates `require(addressesPath).addresses` once |
| `Allocation`: `SkipRecordedName` ... `SaveAddress` | `deployVesting` and the two distributors |
| `SkipTransfer`, `SendTransfer`, `RefuseTransfer`, `RecordTransfer`; `MoveTokens` | `transferIndexTokenFromDeployer`; the treasury spends, a distributor pays claims, a vesting releases, anybody sends INDEX on |
| `sent`; `spent`, `received` | history: what the script sent to a name; what an account sent on, and what it got from others than the script |
| `MerkleTree`: `BuildLayer`; `StartProof`, `Collect`; `VerifyItem` | `getLayers` and `getNextLayer`; `getProof`; `verifyProof` |
| `ClaimMap`: `ReadEntry`, `Reject`, `RejectEmpty`, `MakeClaims`; `Fund`, `Claim` | the reduce of `parseBalanceMap`, its errors and that of the empty tree, its result; the distributor on the chain |
| `Distribution`: `TreeStep`; `Authorized` | `new BalanceTree` on the claims `parseBalanceMap` has, the proof of one of them, and its verification; what `claim` of the distributor asks |
| `ScriptGenerator`: `Create`, `CreateNumbered`, `CreateFromDigit`; `SkipScript`, `ExecuteScript` | `yarn create:deployment` with a bare name, a numbered one, and one that begins with a digit; a script of a run |
| `StreamingFee!Accrue` | `getStreamingFee`, `getStreamingFeeInflationAmount`, `getPostFeePositionUnits`, in this order |

**External semantics.** Two parts are not in the repository and are modelled from the way it
uses them. *hardhat-deploy*: `deploy` returns the latest contract of the type if its
creation data (type and arguments) equals that of the request, and otherwise creates a
new one and makes it the latest; it notes a pending creation and finishes noting it
when it is started again, so creating a contract and caching it are one step. *The chain*: a
constructor or call with the empty address fails, a manager accepts calls from its operator
only, an extension asks its manager, and an INDEX transfer is made once.

**Abstractions.** An address is a tag with a number: only equality matters. Constructor
arguments that are not addresses are a salt; two deployments of one type get the same salt
exactly where the code passes the same constants (the three `StakingRewardsV2`). The lists of
investors (015, 018) and contributors (023) are cut to two entries. A description stands for
the step that wrote it. `sortAddresses` and `isCorrectNetworkId` are left out: nothing calls
them. A transfer's guard, the recipient's balance being zero, is abstracted to the transfer
not having happened; module `Allocation` has the balances. There, stage 0 is coarser than in
`Deployment` (a name and its record are one write), and a deployer who has to pay a share again
may have nothing left, which `Deployment` leaves out.

In `EtherscanVerify` a write of the run, which reads the document and writes it back within
milliseconds, is one step; the task's reading and writing, which minutes of network calls
separate, are two. In `MerkleTree` a hash is its rank, because the constructor sorts the hashes
and drops duplicates; `sortAndConcat` makes the hash of a pair one of the set of both.
In `ClaimMap` a string is its place in the sort order. In `ScriptGenerator` the numbers have
three digits, as they have from 023 on.

## 3. Runs

| Run | Question | Bounds |
|---|---|---|
| `production` | On mainnet, the real scripts, interrupted anywhere, every call deferred that can be (`TESTING_PRODUCTION`): does each name have a contract of its own (`NoAliases`); has a skipped stage made its calls (`FinishedStagesCalled`); can the owners execute each deferred call, in any order (`DeferredIsExecutable`); is calldata without its destination enough to tell the deferred calls apart (`CompareIsSound`), and does the tool use the right ABI (`DecodedTruly`); is everything done in the end (`EventuallyDeployed`)? | 1 crash |
| `development` | The real scripts on a local chain, where every dependency is a stand-in: are they self-sufficient (`EventuallyDeployed`), and what may a crash cost? A contract is adopted by the next run (`UnrecordedIsAdoptable`), unless its dates come from the clock, and then one is lost for an interruption (`OrphansBounded`). | 1 crash |
| `faults` | Small scripts, interrupted again and again: at most one thing is without a record per crash (`UntrackedBounded`); the ledger never tells of a contract that is not as scripted (`DeployedAsScripted`); a stage is skipped only when what it records is there (`RunInvariant`, the inductive invariant of the proofs); to its readers the file is a `Registry` (`ImplementsRegistry`) that only grows (`LedgerOnlyGrows`). | 2 crashes, 1 torn write, 1 checkout |
| `owners` | Small scripts and interruptions, with owners who act at any moment: is anything left behind when a script hands its manager over (`HandedOverLast`, `DeployerRetired`); is a call deferred once more for an interruption at most (`DeferralsBounded`); is a console that was opened at any moment still right later (`ConsoleIsCurrent`); is every call of every script in effect in the end (`EventuallyEffective`)? | 1 crash, 1 torn write, 1 checkout, 1 console |
| `verify` | A task and runs: whatever an overlap loses, is a flag true (`FlagsAreTrue`)? If they take turns: does the task change nothing but flags (`TaskKeepsLedger`), does the ledger still say where a run has to go on (`TurnsKeepRunInvariant`), does the file know everything that Etherscan shows (`FlagsComplete`)? Is everything published in the end (`EventuallyPublished`)? | 1 crash, 1 torn write, 1 overlap, 1 failed submission, 1 killed task |
| `rewards` | Every short list over accounts with two spellings and the lists of the repository: is the distributor never short (`NobodyIsShort`), does everybody get what the list says (`EarningsArePaid`), is no list of the repository rejected or ambiguous, and does the first one add up to what stage 0 sends its distributor (`RepositoryListsAreClean`)? Every claim and every other one, with every proof (`ClaimsVerify`, `NothingElseVerifies`), in the tree of the recursive definition (`RootIsReference`). | 3 entries, or the eight lists; trees of up to 9 claims; 3 claims paid |
| `fee` | Fees accrued again and again: do all tokens together stand for no more than the Set had (`HoldingsBacked`), and is a debt kept (`DebtsKept`)? On every pair of operands that occurs: each helper against the exact quotient (`RoundsAsNamed`). | 3 accruals, operands up to 21, unit 10 |
| `allocation` | Interrupted anywhere, is the supply allocated exactly when the stage counts as finished (`AllocatedExactly`); does the deployer have what the remaining transfers need (`DeployerCoversRest`); are shares repeated only in place of what the recipient has sent on, and left out only where it had tokens from others (`PaidOnceUnlessMoved`); is the stage finished in the end (`EventuallyAllocated`)? | 1 crash, 1 torn write, 1 transfer by any holder but the deployer |
| `generator` | Branches in parallel: why is a script passed over (`SkippedForCause`)? And if they are merged one after the other, is every script run (`EveryScriptRuns`)? | 2 branches, 3 scripts |
| `cleared`, `tracked`, `verify_overwritten` | Violated: see the findings. | 0, 1 crash, 1 overlap |

**Why the bounds are enough.** Interruptions matter through what they leave in the three
stores. After one interruption a run repairs what can be repaired before it makes anything
new, so a second one adds a new kind of state only if it hits the repair itself: the small
scripts, which have every kind of step twice where two interact (two contracts of one
type, two calls on one manager), get two crashes, a torn write and a lost cache in any order.
A stage of theirs defers a call on a manager that was handed over; the stage before it, if the file is torn
after the hand-over, makes a call that the manager refuses (007 and 012 have such calls, but no script hands their managers over); and the last one
has an argument that no stage records, so that every run stops there and nothing but the ledger
protects what comes after. The real scripts get one crash at every one of their 150 to 200 steps, on the two
networks whose tables differ most: production knows every dependency, development none. Mainnet staging
has the production table with other addresses, and stand-ins in the ledger for some of its names; no run has the real
scripts on it. The small scripts of `owners` have such a name: the wallet is in the table (`Wallet`), the deployer's stand-in in
the ledger, and `DeployerRetired` says that managers go to the former. The
liveness runs have scripts that can be finished: a stage that never is would defer its calls again in each run. Without bounds the counters would make the
state spaces infinite; the theorems hold without them.

The scripts of `MCVerify` have both ways of saving a deployment, a mock and a call; a second task
or overlap adds a repetition. Trees of up to nine claims have layers with an odd number of nodes
in every position (3, 5, 6, 7, 9); the theorem is about every number. Three entries
are enough for a duplicate, a second spelling and an innocent entry, and three claims for a
distributor that would be short. One torn write makes
`Allocation` repeat its vestings, the crash hits the repair. A unit of 10 with operands
up to 21 has exact quotients and every remainder on both sides of zero, and units that round to nothing.

**The findings.** `cleared`: the comment and the log message of `prepareDeployment` say
that it clears the addresses when the network is development; `removeNetwork("development")`
sets the key `development` of the document, which has no such key, so no address is cleared.
(`yarn clean-dev-deployment` deletes the file, and is what the instructions use.) `tracked`: the
README says that each deployment is tracked and recorded; the address and the transaction
record are two writes with a crash possible in between, and the guard of the retry
looks at the address only, so the record is never made. `verify_overwritten`: the Etherscan task
writes back the document it has read minutes before (`etherscanVerify.ts:44`); what a run has
recorded meanwhile is lost, and its stage counts as finished all the same, or will once the run
is through.

**Disagreements without a run.** Reading the code for the models showed six more places where it
does not do what is said of it. They are smaller; no run is spent on them, and the models do what
the code does.

| Said | Done |
|---|---|
| "Submits all unverified contracts" | The Etherscan task walks the records, and the contract of `tracked` has none. |
| "shows detail for a deferred transaction" | `view` looks for the artifact by the ledger's name, and `BaseManager - DPI` and its like have no artifact. |
| An alias "if listed in 1-production" | Names with a blank or a dash are filtered out before the look-up. |
| "Duplicate address" | The comparison is one of strings: two spellings of one account pass. The lists of the repository have no such entry (`RepositoryListsAreClean`), though three contributors are spelled differently in different lists. |
| "500k tokens" for the treasury | It gets them twice if it has moved the first share away when an interrupted stage 0 is run again, and not at all if somebody sends it a token first. The same goes for a distributor that has paid out its last claim and a vesting that has released everything: the guard takes a balance for a record. `PaidOnceUnlessMoved` bounds both. |
| "Automatically prefixes files" | A name that begins with a digit is taken for one that has its prefix. |

**NoAliases and development.** On a local chain `NoAliases` is not checked and does not hold: there the
pool of 002, 008 and 011 is the deployer for all three, so the arguments of the three
`StakingRewardsV2` are equal, hardhat-deploy reuses the first, and three names share it.
That is what reuse is for, and the tests do not mind. On mainnet, where it would matter, the pools
differ, which is what `production` confirms.

**Fairness.** `FairSpec` adds weak fairness of `Progress`, the disjunction of all the steps of a
run, including `StartRun`. Exactly one of them is enabled in each state, so this says that a
process which is not interrupted goes on, and that the operator starts another run: the
instructions of the repository are to run the script again. Interruptions are not
fair, and bounded: `EventuallyDeployed` says that finitely many of them do no lasting harm.
`Allocation` and `ScriptGenerator` (`Deploy`) assume the same of their runs, and nothing of
developers and other holders.

`FairVerifySpec` assumes that a task that was started goes on (`WF` of `TaskStep`), and that the
operator starts runs and tasks again and again: both can be started only while the other is
not active, so this is strong fairness of `DeploymentStep` and `StartVerify`. It does not say that a
submission succeeds: `TaskStep` and `Failed` compete, and the bound on failures makes one succeed.
`FairTxSpec` assumes weak fairness of the owners' step, as `FairOwnersSpec` does without the
console: the list of deferred records is there to be executed (`README.md`, "Multisig Operations").
Nobody has to open a console. `ScriptsSpec`, for the real scripts, has the fairness of
`FairSpec` and no steps of the owners: what they could execute is asked of each state, by
`DeferredIsExecutable`.

**Mutants.** Next to some definitions stands a mutant: the definition with a plausible slip
(a dropped guard, an off-by-one, a missing record). For each property of each run, replacing
the definition by the mutant makes TLC find the property violated.

## 4. Proofs

The theorems hold for every script, every set of names and types, every table, every number of
interruptions, owners' acts, tasks, branches, claims and accruals. What they assume is about the constants:

| Assumption | Why the code justifies it |
|---|---|
| `NamesAssumption`, `NetworkConstantAssumption`, `ScriptAssumption`, `BoundAssumption`, `TaskAssumption`, `ConsoleAssumption` | Types. |
| `DeploymentAssumption` | Two scripts that deploy under one name call one helper, or pass the same artifact and arguments. |
| `HandoverAssumption`, `OwnerAssumption` | `setOperator` is called with a manager deployed by the script, and with the treasury's multisig; that has an address in `dependencies.ts`, or the deployer's stands in. |
| `HandedOverOnceAssumption`, `DeferrableAssumption` | 019, 020 and 022 hand their manager over once, after everything else they do with it, and no other script does; the calls that may be deferred are about a manager of the script. |
| `SubjectAssumption` | Each manager gets extensions of its own. |
| `SizesAssumption`, `ListsAssumption`, `OthersAssumption`, `UnitAssumption`, `FeeAssumption`, `AllocationAssumption`, `GeneratorAssumption` | Types, and a unit and a year that are not zero. |
| `DigitAssumption` | A name that begins with a digit is taken for a number from 0 to 9, and the directory is past 009. |

TLC evaluates them on the real scripts (`production`) and on the small ones. Five hypotheses are
written into the theorems instead, because they tell scripts apart that the program can have: `DeploymentsDiffer`
(two names, two deployments: true on mainnet, false in development, see "NoAliases and development"), `CallsDiffer`
and `CallsOnce` (no two calls do the same), `NothingFailsAfterDeferral` (after a call
that may be deferred a script makes no step that can throw), and `ArtifactsNamed` (a
name that is also that of an artifact has a contract of that type).
`MCDeployment` evaluates the first four (`HypothesesHold`) on the small scripts, and `MCTx` three of them on the real ones.
`DeploymentsDiffer` and `ArtifactsNamed` are what the mutants of `NoAliases` and `DecodedTruly` break, so
`production` checks these two properties without them.

| Theorem | Statement |
|---|---|
| `DeploymentProofs!TypeCorrect` | `Spec => []TypeOK` |
| `DeploymentProofs!RunInvariantHolds` | `Spec => []RunInvariant` |
| `DeploymentProofs!FinishedAreRecorded` | `Spec => []FinishedStagesRecorded` |
| `DeploymentProofs!InOrder` | `Spec => []StagesInOrder` |
| `DeploymentProofs!Monotone` | `Spec => LedgerOnlyGrows` |
| `DeploymentProofs!Refinement` | `Spec => ImplementsRegistry` |
| `DeploymentProofs!OrphansAreBounded` | `Spec => []OrphansBounded` |
| `DeploymentProofs!OrphansAreAdopted` | `Spec => []UnrecordedIsAdoptable` |
| `DeploymentProofs!ContractsAreScripted` | `Spec => []DeployedAsScripted` |
| `DeploymentProofs!NamesAreUnique` | `DeploymentsDiffer => (Spec => []NoAliases)` |
| `DeploymentProofs!UntrackedAreBounded` | `(DeploymentsDiffer /\ CallsDiffer) => (Spec => []UntrackedBounded)` |
| `MultisigProofs!OwnersLeaveTheLedger` | `OwnersSpec => (LedgerOnlyGrows /\ ImplementsRegistry)` |
| `MultisigProofs!AuthorityIsHandedOver` | `OwnersSpec => AuthorityMovesOnce` |
| `MultisigProofs!CallsAreMade` | `OwnersSpec => []FinishedStagesCalled` |
| `MultisigProofs!DeployerIsRetired` | `OwnersSpec => []DeployerRetired` |
| `MultisigProofs!DeferredAreExecutable` | `OwnersSpec => []DeferredIsExecutable` |
| `MultisigProofs!ManagersAreHandedOverLast` | `DeploymentsDiffer => (OwnersSpec => []HandedOverLast)` |
| `MultisigProofs!DeferralsAreBounded` | `(CallsOnce /\ NothingFailsAfterDeferral) => (OwnersSpec => []DeferralsBounded)` |
| `MultisigProofs!ComparisonIsSound` | `DeploymentsDiffer => (TxSpec => []CompareIsSound)` |
| `MultisigProofs!DecodedWithTheRightABI` | `(DeploymentsDiffer /\ ArtifactsNamed) => (TxSpec => []DecodedTruly)` |
| `MultisigProofs!ConsoleStaysCurrent` | `TxSpec => []ConsoleIsCurrent` |
| `VerifyProofs!TaskTypeCorrect` | `VerifySpec => []TaskTypeOK` |
| `VerifyProofs!FlagsNeverLie` | `VerifySpec => []FlagsAreTrue` |
| `VerifyProofs!NoFlagIsLost` | `VerifySpec => []FlagsComplete` |
| `VerifyProofs!TurnsAreSafe` | `VerifySpec => []TurnsKeepRunInvariant` |
| `VerifyProofs!TaskIsHarmless` | `VerifySpec => TaskKeepsLedger` |
| `DistributionProofs!EveryClaimVerifies` | `Closed(Node)` implies `Spec => []ClaimsVerify` |
| `DistributionProofs!NothingElseIsAccepted` | `Closed(Node)` and `NoCollisions(Node)` imply `Spec => []NothingElseVerifies` |
| `DistributionProofs!TreeIsReference` | `Closed(Node)` implies `Spec => []RootIsReference` |
| `DistributionProofs!DistributionHasTrees` | `DistributionSpec => Spec`, so that the three hold in the composition (`DistributionAuthorizes`) |
| `DistributionProofs!StockCoversClaims` | `DistributionSpec => []NobodyIsShort` |
| `DistributionProofs!AccountsGetTheirEarnings` | `DistributionSpec => []EarningsArePaid` |
| `FeeProofs!AccrualsKeepInvariant` | `Spec => []FeeInvariant` |
| `FeeProofs!HoldingsStayBacked`, `DebtsStayKept`, `SplittingNeverPays` | the three parts of it |
| `FeeProofs!RoundingIsAsNamed` | `Spec => []RoundsAsNamed` |
| `GeneratorProofs!NoScriptIsSkippedForNothing` | `Spec => []SkippedForCause` |
| `AllocationProofs!SharesArePaidOnce` | `Spec => []PaidOnceUnlessMoved` |
| `AllocationProofs!DeployerHoldsTheRest` | `Spec => []DeployerCoversRest` |
| `AllocationProofs!SupplyIsAllocated` | `Spec => []AllocatedExactly` |

*Type correctness.* `TypeOK` is inductive. Its one conjunct that is more than a type is
that the keys of `transactions` are `0..n-1`: without it the maximum that
`getNextTransactionKey` computes need not exist, and the next key need not be free.
The first part of `DeploymentProofs` proves once what each operation on a document preserves.

*The ledger.* Neither `FinishedStagesRecorded` nor `LedgerOnlyGrows` is inductive. A run
keeps no data about the stages behind it: that they are complete follows from its place.
`RunInvariant` says what the place guarantees: the stages passed are finished
(`PassedStagesFinished`), the one the run is in is not (`CurrentStageOpen`), the names of the steps
behind are recorded (`PassedStepsRecorded`), and the name about to be written is not
(`WritesOnce`). `CurrentStageOpen` gives that the counter never goes back, `WritesOnce` that an address is never
overwritten (`SetAddress` has no guard of its own), and from the growth
of the ledger (`GrowthStep`) follows that what was recorded stays so
(`RecordedStays`), which makes the invariant inductive (`RunStep`).

*The refinement.* Under the invariant, writing an address is `Register`, tracking a stage
is `Finish`, a torn write is `LoseFile`, and every other step leaves what a reader sees unchanged; so
does every step of the owners.

*Contracts.* Three stores are compared, and each invariant has an exception for the contract the run has in its
hands. `OrphanInvariant` counts the contracts the ledger misses without that one (`Held`): a crash
lets go of it, and no other step adds to the count. `AdoptionInvariant` adds to `UnrecordedIsAdoptable`
why the run comes back to the same request: the steps before it are recorded (`Reached`), so its arguments
resolve as they did, and the cache's latest contract of the type is still the lost one,
because no other step of the type can come first. `ScriptedInvariant` speaks of the ledger and of the contract
held; that the arguments resolve to the same addresses later needs `PassedStepsRecorded` and that
the ledger grows. `AliasInvariant` says where each address of the ledger comes from (`Sources`),
which makes two names with one contract two deployments with equal creation data. `TrackInvariant` is
`OrphanInvariant` for records instead of addresses; there, the effect that a crash leaves without a record
must be that of a call (`EffectsAreCalls`), and distinct calls must have distinct effects.

*Calls.* That a call of a skipped stage was made is lost as soon as a run is through, so `CallInvariant` says it of finished
stages and of the steps behind a run, in a form that the owners cannot undo: it is in effect, on the
list, or unneeded (`Settled`). An unneeded call is one the manager would not have asked for; that it stays so
needs who the operators can be (`ManagersInvariant`: the deployer or the one wallet, whose address is the same
before and after the file is torn). `HandedInvariant` traces each contract the deployer has lost to a
hand-over whose earlier calls are settled. `DeferralInvariant` counts one deferral of a call for each crash, and one
if the run has passed it: `NothingFailsAfterDeferral` is needed, because a script that threw behind a deferred call
would defer it again in every run.

*The tool.* `CompareIsSound` and `DecodedTruly` follow from `ChainInvariant` (contracts are scripted and not shared) in each state.
`ConsoleInvariant` is that an address, once shown, stays.

*Runs and tasks.* `FlagsAreTrue` is inductive once it speaks of the document in the hands of the
task as well as of the file: an overlap can lose flags, and records, but it never makes one up. For
the turns, `SnapshotCurrent` says that while a task is busy no run is active and that its
document differs from the file by flags only; writing it back is then a step that
`RunInvariant`, which looks at addresses and stage, does not see. For `FlagsComplete`, `NothingForgotten` says the same of
what Etherscan shows: it is flagged in the file or in the document of a task that is still going to write.

*The tree.* `DistributionProofs` keeps, as inductive invariant, that each layer is `NextLayer` of the one
below, that `idx` is the ancestor of the claim, and, for the verifier, that its running hash and
what is left of the proof belong to one ancestor: an element is missing exactly where the node
passes up as it is. That the construction ends in one node needs the lengths of the layers to
decrease; nothing is assumed of `Hash` but that there is a set closed under it.
For `NothingElseVerifies` a second invariant (`Beside`) says that a verifier with another claim in its hands never
holds the ancestor: two nodes differ as long as their hashes do, which is what `NoCollisions` gives.
`TreeIsReference` needs what a node of each layer is: node i of layer l + 1 is the recursively defined tree of the next
2^l claims, and the last one that of the claims that are left (`LayerIs`). `NextLayer` keeps this
(`NextLayerIs`): two full neighbours, or a full one and the rest, are split where the definition splits them, because q is the largest
power of two below every number from q + 1 to 2q; a node that is passed up stands for at most q claims already.

*The claims.* `ClaimsInv` says of the reduce that the map has, over the strings of each account, the sum of what the
entries read so far give the account (`GatheredOK`); a second spelling is a second string, so that the sum is
over strings and not one value. The `tokenTotal` of the code goes over the different amounts and counts how often each
occurs; that this is the sum over the strings is `SumByValue`. From there on, a claim takes one
summand out of what is due and puts it into what is paid (`PaidOK`, which has `NobodyIsShort` and `EarningsArePaid`
as its parts). Lists may have entries that are zero or negative: `Reject` ends the import of those.

*Sums.* `SumFunctionOnSet` is a fold of the community modules, defined by a recursive function over the subsets of the set.
The induction theorems of the library take a predicate as their parameter and cannot be cited here; `Sums` shows what is needed
from the well-foundedness of < on the natural numbers, with a set of numbers where a predicate would stand
(`NatSetInduction`), and with a set of subsets (`SubsetInduction`). So are shown the existence of the function
(`SumWellDefined`), that the order of the elements does not matter (`SumRemove`), and the rest of the module. The
powers of two and the reference tree of `MerkleTree` are recursive functions and shown to exist in the same way
(`PowerExists`, `ReferenceExists`).

*Fees.* Each accrual multiplies units and supply by rounded factors. `FeeInvariant` adds to the
three properties that a position keeps its side and a debt does not grow, from which the rounding
of the next accrual is bounded; the lemmas on `Div` and on the helpers (`PreciseMul`,
`PreciseMulCeilInt`) are stated once and cited. They are for every unit, where the run has the unit 10,
and so is `RoundingIsAsNamed`, for every bound on the operands.

*The generator.* `GeneratorInvariant` says of the main branch, and of each developer's as long as nobody chose a number by hand,
that its numbers have no gap (`Gapless`): then the counter stands behind an unbroken row of executed
scripts, and what is passed over has the number of one of them.

*Allocation.* `AllocationInvariant` has the types, and that the script transfers only when every name has a contract.
What holders may do is in `MovesInvariant`, an account of each recipient: with the ledger whole, what the script
sent to it is at most what it has and what it has sent on, and beyond one share at most the latter (`KeptBy`), because a
share is sent only to a recipient that has nothing left; and what it has and has sent on came from the script or from other
holders (`CameFrom`), so that a transfer that was passed over for a balance was made, or other holders sent the balance
(`Settled`). `SharesArePaidOnce` follows for any number of moves by anybody but the deployer, the distributors and vestings included.

For `moves = 0`, `ExactInvariant` has the place of the run (`Paying`) and the equation of the balances (`Balanced`): each contract has its share or nothing,
all contracts made for a name, the forgotten ones too, have together what was sent to it, and
the deployer has the rest. As long as no paid contract is forgotten, what was sent to a name is its share once or not at all, and so
what the deployer has is the sum over the transfers that still find a balance of zero: `DeployerCoversRest`. When the
stage is finished, in production the treasury has its 500,000 and the deployer nothing; elsewhere the deployer, who stands in for the
treasury, has them (`AllAllocated`).

`SupplyIsAllocated` needs that a run which gets to its end has forgotten nothing. That is not a matter of counting alone: outside
production the deployer stands in for the treasury and keeps 500,000 tokens, enough to pay most vestings a second time.
The order of the transfers decides. The vestings are all of one type, so hardhat-deploy knows the last one only, and a
ledger that was torn after the first payment makes the next run create all ten again (`LatestKnown`). The methodologist is paid
before all other vestings, so wherever a paid vesting is forgotten, a paid contract of the methodologist is
(`PaidTogether`); a run that finishes has paid the methodologist's new contract as well, 1.5 million in all, and with the other shares
this is more than the supply (`FinishedLosesNothing`). TLC has checked `ForgottenInvariant` for both values of `Production`, with
up to three torn writes and two crashes, before it was proved.

*Authority.* `AuthorityMovesOnce` says that a manager's operator changes at most once, from the deployer to the wallet,
and only in a script's `setOperator`. It follows, step by step, from `ManagersInvariant` (what waits for the owners is
never a hand-over, `DeferredAreCalls`) and from the guards of `SendCall`.

**Only model-checked.** `RepositoryListsAreClean` is about eight concrete lists, and evaluating them is the proof: TLC's check of
it leaves nothing out. Liveness under fairness is out of the prover's reach:
`EventuallyDeployed`, `EventuallyPublished`, `EventuallyEffective`, `EventuallyAllocated` and `EveryScriptRuns`. The three runs that end in
a violation are refuted by TLC's counterexample. Every other property of a run is stated by a theorem.

**Only proved.** No run lists `FinishedStagesRecorded` and `StagesInOrder`, which are consequences of
`RunInvariant`, nor `FeeInvariant`, `SplittingIsFree` and `TaskTypeOK`, which are inductive invariants or parts
of one, nor `AuthorityMovesOnce`, which TLC finds to hold with the constants of `owners`.

## 5. Not modelled

* *Tx tool*: the coloured diff of `compare`, `set.methods`, `set.addressStartsWith`, the request
  to Etherscan and the parsing of arguments: formatting and input without state.
* *Compile-one*: one sequence of calls into the compiler.
* *Vesting dates*: constants that nothing calculates with; in development they come from the clock,
  which is modelled (`fresh`).
* *Numeric helpers*: `min`, unit conversion and the wrappers of the test chain. Divisions by
  negative numbers are left out where the code would round up (`preciseDivCeilInt`) or throw (the `mod`
  of `divDown`).
* *Writes of a run that a second process splits*: see the abstractions above.
* Getters, test utilities, wallets, recorded outputs and compiler settings have no state
  worth a model. Solidity contracts are not part of the repository; managers, token, distributor
  and fee module are modelled from what the code in `src/` asks of them.

## 6. Plan

1. *Done*: `Outputs`, `Registry`, `Deployment`, `DeployScripts`; their runs; the theorems on the ledger.
2. *Done*: `EtherscanVerify`, `Multisig`, `TxTask` on top of `Deployment`; `Allocation`, `MerkleTree`, `ClaimMap`,
   `RewardData`, `ScriptGenerator`, `PreciseMath` and `StreamingFee` beside it.
3. *Done*: the theorems on contracts, calls, owners, tool, task, tree, fees, generator and allocation.
4. *Done*: sums over finite sets; the balances of a distributor and of the deployer; the reference tree; `AllocatedExactly`
   off production; who holds the managers.
5. Left: nothing that the runs check and the prover can reach. A change of a script is covered by the theorems as long as
   TLC finds the assumptions on the constants true (`production`); a new list of rewards belongs into `RewardData`, and
   a new helper of `deployUtils.ts` is one more action of `Deployment` and one more case of `TypeStep`, `RunStep` and `GrowthStep`.
