---------------------------- MODULE Deployment -----------------------------
(***************************************************************************)
(* One operator runs "hardhat deploy" against one network, again and again *)
(* until every stage is done.  A run visits the scripts deploy/NNN_*.ts in *)
(* the order of their numbers, skips those the ledger counts as finished,  *)
(* and executes the others one step at a time.  A run may stop anywhere:   *)
(* an exception, a reverted transaction, a lost connection, ctrl-C.        *)
(*                                                                         *)
(* Three things outlive a run: the ledger (module Outputs), the chain, and *)
(* the cache hardhat-deploy keeps under deployments/<network>/, one entry  *)
(* per contract type.  The ledger is committed to git, the cache is not.   *)
(*                                                                         *)
(* Script gives, for every stage, the steps its deploy script takes:       *)
(*   "deploy"  if the name is unrecorded: deploy it, then record it        *)
(*   "mock"    if the name is unrecorded: record a stand-in address        *)
(*   "call"    if the chain needs it: send a transaction and record it, or *)
(*             record it as deferred for the multisig                      *)
(***************************************************************************)
EXTENDS Outputs, Sequences

CONSTANTS
  LastStage,          \* the highest number of a script
  Script,             \* stage number -> sequence of steps
  Retired,            \* stages whose script is an empty function
  Types,              \* contract types (artifacts)
  TestingProduction,  \* the environment variable TESTING_PRODUCTION is set
  MaxCrashes,         \* bound on interrupted runs
  MaxTornWrites,      \* bound on runs killed in the middle of writing the file
  MaxCheckouts        \* bound on runs continued from a fresh checkout

Stages == 0..LastStage

Argument == Names \cup {"deployer"}

DeployStep == [kind : {"deploy"}, name : Names, type : Types, salt : STRING,
               fresh : BOOLEAN, args : Seq(Argument), saver : {"save", "write"}]
MockStep   == [kind : {"mock"}, name : Names, value : {"deployer", "random"},
               polyfill : BOOLEAN]
CallStep   == [kind : {"call"}, op : Operation,
               target : Names, subject : Argument, deferrable : BOOLEAN]

ASSUME ScriptAssumption ==
  /\ LastStage \in Nat
  /\ Script = [s \in Stages |-> Script[s]]
  /\ \A s \in Stages : /\ Script[s] \in Seq(DeployStep \cup MockStep \cup CallStep)
                       /\ s \in Retired => Script[s] = <<>>

\* The steps of all scripts.
Steps    == UNION {{Script[s][k] : k \in DOMAIN Script[s]} : s \in Stages}
Handover == {s \in Steps : s.kind = "call" /\ s.op = "operator"}
Providers(name) == {s \in Steps : s.kind # "call" /\ s.name = name}

\* Scripts that deploy a contract under one name deploy the same: they call one helper
\* (deployIndexToken), or pass the same artifact and arguments (the mocks of 007, 012).
ASSUME DeploymentAssumption ==
  \A d, e \in {s \in Steps : s.kind = "deploy"} : d.name = e.name =>
    d.type = e.type /\ d.salt = e.salt /\ d.args = e.args

\* Only managers that a script deploys are handed over, and all to one multisig.
ASSUME HandoverAssumption ==
  \A s \in Handover :
    /\ s.target \notin KnownDependencies
    /\ \A m \in Steps : m.kind = "mock" => m.name # s.target
    /\ \A t \in Handover : t.subject = s.subject

\* A name whose address no other name stands for.
HasOwnAddress(name) ==
  /\ name \in Names
  /\ name \in KnownDependencies \/
       \A s \in Providers(name) : s.kind = "mock" => s.value = "random"

\* Two arguments that never are one address.
Apart(a, b) == /\ a # b
               /\ HasOwnAddress(a) \/ a = "deployer"
               /\ HasOwnAddress(b) \/ b = "deployer"

\* Deployments under two names differ in what hardhat-deploy compares.  Those of the
\* scripts do on mainnet and Kovan.  On a local chain dependencies.ts has no liquidity
\* pools, and the StakingRewardsV2 of 002, 008 and 011 are one contract.
DeploymentsDiffer ==
  \A d, e \in {s \in Steps : s.kind = "deploy"} : d.name # e.name =>
    \/ d.type # e.type \/ d.salt # e.salt \/ Len(d.args) # Len(e.args)
    \/ \E k \in DOMAIN d.args : Apart(d.args[k], e.args[k])

\* Calls the scripts tell apart are different to the chain.
CallsDiffer ==
  \A c, d \in {s \in Steps : s.kind = "call"} :
    (c.op = d.op /\ (c.target # d.target \/ c.subject # d.subject)) =>
      Apart(c.target, d.target) \/ Apart(c.subject, d.subject)

ASSUME BoundAssumption ==
  /\ {MaxCrashes, MaxTornWrites, MaxCheckouts} \subseteq Nat
  /\ TestingProduction \in BOOLEAN

VARIABLES
  outputs,     \* the ledger
  chain,       \* contracts deployed so far, oldest first
  effects,     \* calls the chain has executed
  cache,       \* hardhat-deploy: type -> index of its latest contract, or 0
  randoms,     \* number of random addresses drawn
  pc,          \* what the run does next
  stage, step, \* where the run is
  crashes, tornWrites, checkouts

environment == <<crashes, tornWrites, checkouts>>
world       == <<chain, effects, cache, randoms>>
vars        == <<outputs, world, pc, stage, step, environment>>

-----------------------------------------------------------------------------
(***************************************************************************)
(* Reading the ledger and the chain.                                       *)
(***************************************************************************)
Resolve(argument) ==
  IF argument = "deployer" THEN Deployer ELSE FindDependency(outputs, argument)

ResolveAll(arguments) == [k \in DOMAIN arguments |-> Resolve(arguments[k])]

\* The step the run is at; meaningful only while AtStep holds.
Current == Script[stage][step]
AtStep(kind) == /\ pc = "step"
                /\ step \in DOMAIN Script[stage]
                /\ Current.kind = kind

\* The name a step provides needs no further work.
Recorded(s) ==
  IF s.kind = "mock" /\ ~s.polyfill
    THEN GetContractAddress(outputs, s.name) # NoAddress
    ELSE FindDependency(outputs, s.name) # NoAddress

StepDescription(s) == IF s.kind = "call" THEN <<s.op, s.target, s.subject>>
                                         ELSE <<"address", s.name, "">>

\* The contract deploying s would create, its dependencies read from the ledger.
Instance(s) == [type |-> s.type, salt |-> s.salt, args |-> ResolveAll(s.args)]
SameInstance(contract, s) ==
  [type |-> contract.type, salt |-> contract.salt, args |-> contract.args] = Instance(s)

\* hardhat-deploy reuses the latest contract of a type if its creation data is equal.
\* An argument the script takes from the clock (s.fresh) is another one in each run.
Reusable(s) == /\ cache[s.type] # 0 /\ ~s.fresh
               /\ SameInstance(chain[cache[s.type]], s)

\* A constructor rejects the empty address.
Resolvable(s) == \A k \in DOMAIN s.args : Resolve(s.args[k]) # NoAddress

Effect(s) == <<s.op, Resolve(s.target), Resolve(s.subject)>>

\* The manager whose operator may make call s: an extension names it first.
ManagerOf(s) ==
  IF s.op = "caller" THEN chain[Resolve(s.target)[2]].args[1] ELSE Resolve(s.target)
OperatorOf(manager) == chain[manager[2]].operator
HasAuthority(s) == s.op = "transfer" \/ OperatorOf(ManagerOf(s)) = Deployer

\* The check before the call finds nothing to do; addApprovedCaller has no check.
CallUnneeded(s) ==
  CASE s.op = "transfer" -> Resolve(s.subject) = Deployer \/ Effect(s) \in effects
    [] s.op = "adapter"  -> Effect(s) \in effects
    [] s.op = "caller"   -> FALSE
    [] s.op = "operator" -> OperatorOf(Resolve(s.target)) = Resolve(s.subject)

\* Mutant: TESTING_PRODUCTION defers every call, the hand-over included.
DeferAlways(s) == s.deferrable /\ (~HasAuthority(s) \/ TestingProduction)

MustDefer(s) == s.deferrable /\ \/ ~HasAuthority(s)
                                \/ s.op = "adapter" /\ TestingProduction

\* The addExtension of 007 and 012 sends whoever the operator is.
Refused(s) == ~s.deferrable /\ ~HasAuthority(s)

-----------------------------------------------------------------------------
(***************************************************************************)
(* The run between stages.                                                 *)
(***************************************************************************)
\* The operator types "yarn deploy:...".
StartRun ==
  /\ pc = "idle"
  /\ pc' = "stage"
  /\ UNCHANGED <<outputs, world, stage, step, environment>>

Stop == pc' = "idle" /\ stage' = 0 /\ step' = 1

AtStage == pc = "stage" /\ stage \in Stages

ToStage(s) == pc' = "stage" /\ stage' = s /\ step' = 1

\* A retired script is "export default () => {}": no skip function, no tracking.
PassRetiredStage ==
  /\ AtStage /\ stage \in Retired
  /\ ToStage(stage + 1)
  /\ UNCHANGED <<outputs, world, environment>>

StageAlreadyFinished(s) == s < GetLastDeploymentStage(outputs)

SkipFinishedStage ==
  /\ AtStage /\ stage \notin Retired /\ StageAlreadyFinished(stage)
  /\ ToStage(stage + 1)
  /\ UNCHANGED <<outputs, world, environment>>

\* Mutant: the stage is tracked when its script starts, not when it returns.
PrepareAndTrack ==
  /\ AtStage /\ stage \notin Retired /\ ~StageAlreadyFinished(stage)
  /\ outputs' = WriteStage(outputs, stage + 1)
  /\ pc' = "step"
  /\ UNCHANGED <<world, stage, step, environment>>

\* prepareDeployment, the first thing a script does.  The helpers of a stage call it
\* again; it changes no key of the document, so the model has the first call only.
Preparing == AtStage /\ stage \notin Retired /\ ~StageAlreadyFinished(stage)

PrepareDeployment ==
  /\ Preparing
  /\ outputs' = IF NetworkConstant = "development"
                  THEN RemoveNetwork(outputs, NetworkConstant) ELSE outputs
  /\ pc' = "step"
  /\ UNCHANGED <<world, stage, step, environment>>

\* Mutant: the counter gets the number of the stage, not the next one.
FinishWithOwnNumber ==
  /\ pc = "step" /\ step \notin DOMAIN Script[stage]
  /\ outputs' = WriteStage(outputs, stage)
  /\ ToStage(stage + 1)
  /\ UNCHANGED <<world, environment>>

\* Mutant: the counter skips a stage.
FinishAndSkipOne ==
  /\ pc = "step" /\ step \notin DOMAIN Script[stage]
  /\ outputs' = WriteStage(outputs, stage + 2)
  /\ ToStage(stage + 1)
  /\ UNCHANGED <<world, environment>>

\* trackFinishedStage, once the script's function has returned.
FinishStage ==
  /\ pc = "step" /\ step \notin DOMAIN Script[stage]
  /\ outputs' = WriteStage(outputs, stage + 1)
  /\ ToStage(stage + 1)
  /\ UNCHANGED <<world, environment>>

EndRun ==
  /\ pc = "stage" /\ stage \notin Stages
  /\ Stop
  /\ UNCHANGED <<outputs, world, environment>>

-----------------------------------------------------------------------------
(***************************************************************************)
(* The steps of a script.                                                  *)
(***************************************************************************)
NextStep == pc' = "step" /\ step' = step + 1 /\ UNCHANGED stage

SkipRecordedName ==
  /\ AtStep("deploy") \/ AtStep("mock")
  /\ Recorded(Current)
  /\ NextStep
  /\ UNCHANGED <<outputs, world, environment>>

\* Mutant: hardhat-deploy is told not to save the deployment.
CreateUncached ==
  /\ AtStep("deploy") /\ ~Recorded(Current) /\ Resolvable(Current)
  /\ ~Reusable(Current)
  /\ chain' = Append(chain, [type     |-> Current.type,
                             salt     |-> Current.salt,
                             args     |-> ResolveAll(Current.args),
                             operator |-> Deployer])
  /\ pc' = "save"
  /\ UNCHANGED <<outputs, effects, cache, randoms, stage, step, environment>>

\* deploy(type, {from: deployer, args}) sends a creation transaction ...
CreateContract ==
  /\ AtStep("deploy") /\ ~Recorded(Current) /\ Resolvable(Current)
  /\ ~Reusable(Current)
  /\ chain' = Append(chain, [type     |-> Current.type,
                             salt     |-> Current.salt,
                             args     |-> ResolveAll(Current.args),
                             operator |-> Deployer])
  /\ cache' = [cache EXCEPT ![Current.type] = Len(chain) + 1]
  /\ pc' = "save"
  /\ UNCHANGED <<outputs, effects, randoms, stage, step, environment>>

\* ... or returns what the cache holds.
ReuseContract ==
  /\ AtStep("deploy") /\ ~Recorded(Current) /\ Resolvable(Current)
  /\ Reusable(Current)
  /\ pc' = "save"
  /\ UNCHANGED <<outputs, world, stage, step, environment>>

SaveDeployment ==
  /\ pc = "save" /\ Current.saver = "save"
  /\ outputs' = SaveContractDeployment(outputs, Current.name,
                  ContractAt(cache[Current.type]), StepDescription(Current))
  /\ NextStep
  /\ UNCHANGED <<world, environment>>

\* Mutant: the address is written and the record forgotten.
WriteAddressOnly ==
  /\ pc = "save" /\ Current.saver = "write"
  /\ outputs' = SetAddress(outputs, Current.name, ContractAt(cache[Current.type]))
  /\ NextStep
  /\ UNCHANGED <<world, environment>>

\* writeContractAndTransactionToOutputs writes the file twice: the address ...
WriteContractAddress ==
  /\ pc = "save" /\ Current.saver = "write"
  /\ outputs' = SetAddress(outputs, Current.name, ContractAt(cache[Current.type]))
  /\ pc' = "record"
  /\ UNCHANGED <<world, stage, step, environment>>

\* Mutant: a stage that is run again draws the random address again.
WriteMockAgain ==
  /\ AtStep("mock")
  /\ \/ /\ Current.value = "deployer"
        /\ outputs' = SetAddress(outputs, Current.name, Deployer)
        /\ UNCHANGED randoms
     \/ /\ Current.value = "random"
        /\ outputs' = SetAddress(outputs, Current.name, RandomAddress(randoms + 1))
        /\ randoms' = randoms + 1
  /\ pc' = "record"
  /\ UNCHANGED <<chain, effects, cache, stage, step, environment>>

WriteMockAddress ==
  /\ AtStep("mock") /\ ~Recorded(Current)
  /\ \/ /\ Current.value = "deployer"
        /\ outputs' = SetAddress(outputs, Current.name, Deployer)
        /\ UNCHANGED randoms
     \/ /\ Current.value = "random"
        /\ outputs' = SetAddress(outputs, Current.name, RandomAddress(randoms + 1))
        /\ randoms' = randoms + 1
  /\ pc' = "record"
  /\ UNCHANGED <<chain, effects, cache, stage, step, environment>>

\* ... and then the record, as after a call.
RecordTransaction ==
  /\ pc = "record"
  /\ outputs' = WriteTransaction(outputs, StepDescription(Current))
  /\ NextStep
  /\ UNCHANGED <<world, environment>>

\* Both names a call mentions have an address.
CallReady == /\ AtStep("call")
             /\ Resolve(Current.target) # NoAddress
             /\ Resolve(Current.subject) # NoAddress

SkipCall ==
  /\ CallReady /\ CallUnneeded(Current)
  /\ NextStep
  /\ UNCHANGED <<outputs, world, environment>>

\* Mutant: a call that must wait for the multisig is passed over.
ForgetCall ==
  /\ CallReady /\ ~CallUnneeded(Current) /\ MustDefer(Current)
  /\ NextStep
  /\ UNCHANGED <<outputs, world, environment>>

DeferCall ==
  /\ CallReady /\ ~CallUnneeded(Current) /\ MustDefer(Current)
  /\ outputs' = SaveDeferredTransaction(outputs, StepDescription(Current))
  /\ NextStep
  /\ UNCHANGED <<world, environment>>

SendCall ==
  /\ CallReady /\ ~CallUnneeded(Current) /\ ~MustDefer(Current) /\ ~Refused(Current)
  /\ effects' = effects \cup {Effect(Current)}
  /\ chain' = IF Current.op = "operator"
                THEN [chain EXCEPT ![Resolve(Current.target)[2]].operator =
                        Resolve(Current.subject)]
                ELSE chain
  /\ pc' = "record"
  /\ UNCHANGED <<outputs, cache, randoms, stage, step, environment>>

-----------------------------------------------------------------------------
(***************************************************************************)
(* What ends a run early.                                                  *)
(***************************************************************************)
\* A constructor or a call gets the empty address, or the manager refuses a call
\* of a deployer who is not its operator: the script throws.
Abort ==
  /\ \/ AtStep("deploy") /\ ~Recorded(Current) /\ ~Resolvable(Current)
     \/ AtStep("call") /\ (CallReady => ~CallUnneeded(Current) /\ Refused(Current))
  /\ Stop
  /\ UNCHANGED <<outputs, world, environment>>

Crash ==
  /\ pc # "idle" /\ crashes < MaxCrashes
  /\ crashes' = crashes + 1
  /\ Stop
  /\ UNCHANGED <<outputs, world, tornWrites, checkouts>>

\* The next thing the run does is to write the file.
Writing == \/ pc \in {"save", "record"}
           \/ Preparing /\ NetworkConstant = "development"
           \/ pc = "step" /\ step \notin DOMAIN Script[stage]
           \/ AtStep("mock") /\ ~Recorded(Current)
           \/ CallReady /\ ~CallUnneeded(Current) /\ MustDefer(Current)

\* outputFile truncates the file before it writes: a process killed in between
\* leaves a document that reads as the empty one.
TearWrite ==
  /\ Writing /\ tornWrites < MaxTornWrites
  /\ tornWrites' = tornWrites + 1
  /\ outputs' = EmptyOutputs
  /\ Stop
  /\ UNCHANGED <<world, crashes, checkouts>>

\* Another machine continues: it has the committed ledger and no cache.
FreshCheckout ==
  /\ pc = "idle" /\ checkouts < MaxCheckouts
  /\ checkouts' = checkouts + 1
  /\ cache' = [t \in Types |-> 0]
  /\ UNCHANGED <<outputs, chain, effects, randoms, pc, stage, step, crashes, tornWrites>>

-----------------------------------------------------------------------------
Init ==
  /\ outputs = EmptyOutputs
  /\ chain = <<>> /\ effects = {} /\ randoms = 0
  /\ cache = [t \in Types |-> 0]
  /\ pc = "idle" /\ stage = 0 /\ step = 1
  /\ crashes = 0 /\ tornWrites = 0 /\ checkouts = 0

\* One case per thing a run does; exactly one of them is enabled.
Progress ==
  \/ StartRun \/ PassRetiredStage \/ SkipFinishedStage \/ PrepareDeployment
  \/ FinishStage \/ EndRun
  \/ SkipRecordedName \/ CreateContract \/ ReuseContract \/ SaveDeployment
  \/ WriteContractAddress \/ WriteMockAddress \/ RecordTransaction
  \/ SkipCall \/ DeferCall \/ SendCall \/ Abort

Interruption == Crash \/ TearWrite \/ FreshCheckout

Next == Progress \/ Interruption

Spec == Init /\ [][Next]_vars

\* A run goes on until it is interrupted, and the operator starts another one.
FairSpec == Spec /\ WF_vars(Progress)

-----------------------------------------------------------------------------
(***************************************************************************)
(* Properties.                                                             *)
(***************************************************************************)
\* The run is inside a script.
Running == pc \in {"step", "save", "record"}

Contract == [type : Types, salt : STRING, args : Seq(Address), operator : Address]

\* What outlives a run.
WorldTypeOK ==
  /\ IsDocument(outputs)
  /\ chain \in Seq(Contract)
  /\ effects \subseteq Operation \X Address \X Address
  /\ cache \in [Types -> 0..Len(chain)]
  /\ randoms \in Nat

\* The run: it is at a step only of a stage that has a script, and it saves only
\* what hardhat-deploy has just returned.
RunTypeOK ==
  /\ pc \in {"idle", "stage", "step", "save", "record"}
  /\ stage \in 0..(LastStage + 1)
  /\ step \in Nat \ {0}
  /\ pc = "idle" => stage = 0
  /\ pc \in {"idle", "stage"} => step = 1
  /\ Running => stage \in Stages /\ step \in 1..(Len(Script[stage]) + 1)
  /\ pc \in {"save", "record"} => step \in DOMAIN Script[stage]
  /\ pc = "save" => Current.kind = "deploy" /\ cache[Current.type] # 0

BoundsOK ==
  /\ crashes \in 0..MaxCrashes
  /\ tornWrites \in 0..MaxTornWrites
  /\ checkouts \in 0..MaxCheckouts

\* Every variable has its type, and the step number stays within the script.
TypeOK == WorldTypeOK /\ RunTypeOK /\ BoundsOK

CallSteps(s) == {k \in DOMAIN Script[s] : Script[s][k].kind = "call"}

\* A stage counts as finished (trackFinishedStage, stageAlreadyFinished) only if
\* every name its script provides is in the ledger: whatever runs were cut short,
\* a stage that later runs skip has nothing left to deploy.
FinishedStagesRecorded ==
  \A s \in Stages : StageAlreadyFinished(s) =>
    \A k \in DOMAIN Script[s] \ CallSteps(s) : Recorded(Script[s][k])

\* The deferred records of one call.
Deferrals(s) == {k \in DOMAIN outputs.transactions :
                   /\ outputs.transactions[k].deferred
                   /\ outputs.transactions[k].description = StepDescription(s)}

\* ... and every call its script makes was executed, or found unneeded, or is on
\* the list of transactions the multisig has to execute.
FinishedStagesCalled ==
  \A s \in Stages : StageAlreadyFinished(s) =>
    \A k \in CallSteps(s) : LET call == Script[s][k] IN
      \/ CallUnneeded(call)
      \/ Effect(call) \in effects
      \/ Deferrals(call) # {}

\* The chain agrees with the ledger: a recorded contract was created with the
\* type, the constants and the dependency addresses its script would read now.
DeployedAsScripted ==
  \A s \in Stages : \A k \in DOMAIN Script[s] \ CallSteps(s) :
    LET d == Script[s][k]
        a == GetContractAddress(outputs, d.name)
    IN  (d.kind = "deploy" /\ a[1] = "contract") =>
          a[2] \in DOMAIN chain /\ SameInstance(chain[a[2]], d)

\* The names the ledger has a contract of the chain for.
Placed            == {n \in Names : outputs.addresses[n][1] = "contract"}
RecordedContracts == {outputs.addresses[n][2] : n \in Placed}

Unrecorded        == DOMAIN chain \ RecordedContracts

\* A crash between a deployment and its entry in the ledger loses no contract:
\* the contract the ledger misses is the one hardhat-deploy's cache will return
\* to the step that created it.  Without the cache, with a ledger that was
\* truncated, or where the step takes its arguments from the clock (the vestings
\* of a local chain), this is not so.
UnrecordedIsAdoptable ==
  (tornWrites = 0 /\ checkouts = 0) =>
    \A i \in Unrecorded :
      \E s \in Stages : \E k \in DOMAIN Script[s] :
        LET d == Script[s][k] IN
        /\ d.kind = "deploy" /\ SameInstance(chain[i], d)
        /\ d.fresh \/ (~Recorded(d) /\ cache[d.type] = i)

\* Even so an interrupted run leaves at most one contract the ledger misses, with
\* or without the cache.
OrphansBounded ==
  tornWrites = 0 =>
    Cardinality(Unrecorded) <= crashes + (IF pc = "save" THEN 1 ELSE 0)

\* A stage starts only after every stage before it has finished: its script reads
\* the addresses those stages record.
StagesInOrder ==
  Running => \A s \in Stages \ Retired : s < stage => StageAlreadyFinished(s)

\* What the ledger and the chain hold and no transaction record tells of.
Described == {outputs.transactions[k].description : k \in DOMAIN outputs.transactions}
Happened(s) == IF s.kind = "call" THEN Effect(s) \in effects
                                  ELSE outputs.addresses[s.name] # NoAddress
Untracked == {StepDescription(s) : s \in {x \in Steps : Happened(x)}} \ Described

\* Address and record are two writes, a call and its record two more steps.  Each
\* interrupted run leaves at most one of them without its record, for good.
UntrackedBounded ==
  tornWrites = 0 =>
    Cardinality(Untracked) <= crashes + (IF pc = "record" THEN 1 ELSE 0)

\* Step k of stage s finds an address for name, if all before it was done.
Found(name, s, k) ==
  \/ name = "deployer" \/ name \in KnownDependencies
  \/ \E t \in Stages : \E j \in DOMAIN Script[t] \ CallSteps(t) :
       Script[t][j].name = name /\ (t < s \/ (t = s /\ j < k))

\* No call is made twice, and no script throws after a call that may have to wait.
CallsOnce ==
  \A s, t \in Stages : \A k \in CallSteps(s), l \in CallSteps(t) :
    StepDescription(Script[s][k]) = StepDescription(Script[t][l]) => s = t /\ k = l

NothingFailsAfterDeferral ==
  \A s \in Stages : \A k \in CallSteps(s) : Script[s][k].deferrable =>
    \A l \in DOMAIN Script[s] : LET later == Script[s][l] IN l > k =>
      /\ later.kind = "deploy" =>
           \A i \in DOMAIN later.args : Found(later.args[i], s, l)
      /\ later.kind = "call" =>
           /\ later.deferrable \/ later.op = "transfer"
           /\ Found(later.target, s, l) /\ Found(later.subject, s, l)

\* A stage that is run again defers again what the multisig has not executed, but
\* a run defers a call once, so there are never more copies than runs cut short.
DeferralsBounded ==
  \A s \in Steps : s.kind = "call" => Cardinality(Deferrals(s)) <= 1 + crashes

\* What a step may never do to the ledger.
AddressesKept == \A n \in Names : outputs.addresses[n] # NoAddress =>
                   outputs'.addresses[n] = outputs.addresses[n]
RecordsKept   == \A k \in DOMAIN outputs.transactions :
                   /\ k \in DOMAIN outputs'.transactions
                   /\ outputs'.transactions[k] = outputs.transactions[k]
StageKept     == GetLastDeploymentStage(outputs') >= GetLastDeploymentStage(outputs)

\* Unless the file is torn, a run never moves or forgets an address, never
\* rewrites a transaction record, and never lowers the stage counter.
LedgerOnlyGrows ==
  [][tornWrites' = tornWrites => AddressesKept /\ RecordsKept /\ StageKept]_vars

-----------------------------------------------------------------------------
(***************************************************************************)
(* The inductive invariant behind the properties of the ledger.  A run     *)
(* holds no data about the stages behind it but its place; these conjuncts *)
(* say what that place guarantees.                                         *)
(***************************************************************************)
\* The stages the run has passed are finished ...
PassedStagesFinished ==
  pc # "idle" => \A s \in Stages \ Retired : s < stage => StageAlreadyFinished(s)

\* ... and the one it is in is not.
CurrentStageOpen == Running => GetLastDeploymentStage(outputs) <= stage

\* The steps behind the run have left their names in the ledger.
PassedStepsRecorded ==
  Running => \A k \in DOMAIN Script[stage] \ CallSteps(stage) :
               k < step => Recorded(Script[stage][k])

\* A name is unrecorded until its address is written, and recorded from then on.
WritesOnce ==
  /\ pc = "save" => ~Recorded(Current)
  /\ (pc = "record" /\ Current.kind # "call") => Recorded(Current)

\* The place of a run in the scripts is what the ledger says is done.
RunInvariant ==
  /\ FinishedStagesRecorded
  /\ PassedStagesFinished
  /\ CurrentStageOpen
  /\ PassedStepsRecorded
  /\ WritesOnce

-----------------------------------------------------------------------------
(***************************************************************************)
(* The abstract view: the outputs file as a registry.                      *)
(***************************************************************************)
\* The names stage s registers: all it provides that the table does not know.
RequiredNames(s) ==
  {Script[s][k].name : k \in {x \in DOMAIN Script[s] \ CallSteps(s) :
     LET p == Script[s][x]
     IN  p.name \notin KnownDependencies \/ (p.kind = "mock" /\ ~p.polyfill)}}

Abstract == INSTANCE Registry
  WITH Required <- RequiredNames,
       registry <- outputs.addresses,
       finished <- GetLastDeploymentStage(outputs)

\* Whatever runs do and wherever they stop, the ledger is such a registry.
ImplementsRegistry == Abstract!Spec

\* No two names share a contract.  hardhat-deploy's reuse must find the contract
\* a crash left unrecorded and nothing else: this and UnrecordedIsAdoptable pull
\* in opposite directions.
NoAliases ==
  \A n, m \in Placed : outputs.addresses[n] = outputs.addresses[m] => n = m

\* Run often enough, every stage gets done, and stays done.
EventuallyDeployed == <>[](\A s \in Stages \ Retired : StageAlreadyFinished(s))
-----------------------------------------------------------------------------
(***************************************************************************)
(* What the repository says of itself and the code does not do.            *)
(***************************************************************************)
\* deployUtils.ts:45: prepareDeployment clears the contract addresses when the
\* network is development.  It removes a key the document never has.
ClearedForDevelopment ==
  [][(NetworkConstant = "development" /\ pc = "stage" /\ pc' = "step") =>
       \A n \in Names : outputs'.addresses[n] = NoAddress]_vars

\* README.md:5: each deployment is tracked and recorded in the outputs file.  When
\* all is done, every contract of the ledger has a transaction record.
EachDeploymentTracked ==
  (\A s \in Stages \ Retired : StageAlreadyFinished(s)) =>
    \A n \in Placed : <<"address", n, "">> \in Described
=============================================================================
