--------------------------- MODULE MultisigProofs ---------------------------
(***************************************************************************)
(* The calls of the scripts, made by the deployer or left to the owners of *)
(* the multisig: theorems about OwnersSpec, in which the owners execute    *)
(* deferred records between any two steps of a run, and about TxSpec.      *)
(***************************************************************************)
EXTENDS TxTask, DeploymentProofs

USE DEF Running

-----------------------------------------------------------------------------
(***************************************************************************)
(* Calls and the addresses they mention.                                   *)
(***************************************************************************)
LEMMA CallParts ==
  ASSUME NEW c \in Calls
  PROVE  /\ c \in CallStep /\ c.kind = "call" /\ c.op \in Operation
         /\ c.target \in Names /\ c.target \in Argument /\ c.subject \in Argument
BY CallStepParts DEF Calls

LEMMA CallOfStep ==
  ASSUME NEW s \in Stages, NEW k \in CallSteps(s)
  PROVE  k \in DOMAIN Script[s] /\ Script[s][k] \in Calls
BY StepInSteps DEF CallSteps, Calls

LEMMA CurrentCall ==
  ASSUME TypeOK, CallReady
  PROVE  /\ Current \in Calls /\ Addressed(Current) /\ pc = "step"
         /\ stage \in Stages /\ step \in CallSteps(stage)
<1>1. stage \in Stages /\ step \in DOMAIN Script[stage] /\ Current.kind = "call"
  BY AtStepPlace DEF CallReady
<1>2. step \in CallSteps(stage)
  BY <1>1 DEF CallSteps, Current
<1>3. QED
  BY <1>1, <1>2, CallOfStep DEF Current, CallReady, Addressed, AtStep

\* A name that only deployments provide, and the chain's contract it stands for.
Deployed(name) ==
  /\ name \in Names \ KnownDependencies
  /\ \A s \in Providers(name) : s.kind = "deploy"

LEMMA ManagerIsDeployed ==
  ASSUME NEW h \in Handover
  PROVE  Deployed(h.target) /\ h \in Calls
<1>1. h \in Calls
  BY DEF Handover, Calls
<1>2. h.target \in Names
  BY <1>1, CallParts
<1>3. \A s \in Providers(h.target) : s.kind = "deploy"
  <2> SUFFICES ASSUME NEW s \in Providers(h.target) PROVE s.kind = "deploy"
    OBVIOUS
  <2>1. s \in Steps /\ s.kind # "call" /\ s.name = h.target
    BY DEF Providers
  <2>2. s.kind # "mock"
    BY <2>1, HandoverAssumption
  <2>3. PICK t \in Stages : \E k \in DOMAIN Script[t] : s = Script[t][k]
    BY <2>1 DEF Steps
  <2>4. s \in DeployStep \cup MockStep \cup CallStep
    BY <2>3, StepTypes
  <2>5. QED
    BY <2>1, <2>2, <2>4 DEF DeployStep, MockStep, CallStep
<1>4. QED
  BY <1>1, <1>2, <1>3, HandoverAssumption DEF Deployed

LEMMA DeployedAddress ==
  ASSUME NEW name, Deployed(name)
  PROVE  Resolve(name) = outputs.addresses[name]
BY NamesAssumption DEF Deployed, Resolve, FindDependency, GetContractAddress, Tags

-----------------------------------------------------------------------------
(***************************************************************************)
(* Who operates the managers.                                              *)
(***************************************************************************)
OwnerAddress == IF Owner \in KnownDependencies THEN KnownAddress(Owner) ELSE Deployer

\* The ledger has no other address for the wallet ...
WalletStable == outputs.addresses[Owner] \in {NoAddress, Deployer} \/ Owner \in KnownDependencies

\* ... nor for a deployed name than that of a contract of the chain.
DeployedPlaced ==
  \A name \in Names : Deployed(name) =>
    \/ outputs.addresses[name] = NoAddress
    \/ \E i \in DOMAIN chain : outputs.addresses[name] = ContractAt(i)

\* The operator of a manager is the deployer or the wallet.
OperatorsKnown == \A i \in DOMAIN chain : chain[i].operator \in {Deployer, OwnerAddress}

\* What waits for the owners are calls of scripts, and never a hand-over: when the
\* deployer cannot make it, it has been made.
DeferredAreCalls ==
  \A k \in Pending : \E c \in Calls :
    /\ outputs.transactions[k].description = StepDescription(c)
    /\ c.deferrable /\ c.op # "operator" /\ Addressed(c)

ManagersInvariant == WalletStable /\ DeployedPlaced /\ OperatorsKnown /\ DeferredAreCalls

\* The table comes first, so a script that asks for the owner finds the wallet.
LEMMA OwnerIsWallet == Wallet = Resolve(Owner)
BY OwnerAssumption, NamesAssumption DEF Wallet, Resolve, FindDependency, Tags

LEMMA WalletAddress ==
  ASSUME TypeOK, WalletStable
  PROVE  Wallet \in {NoAddress, OwnerAddress}
BY OwnerAssumption DEF WalletStable, Wallet, GetContractAddress, OwnerAddress

LEMMA OperatorAfterCall ==
  ASSUME TypeOK, SendCall, NEW i \in DOMAIN chain
  PROVE  chain'[i].operator =
           IF Current.op = "operator" /\ i = Resolve(Current.target)[2]
             THEN Resolve(Current.subject) ELSE chain[i].operator
<1> DEFINE m == Resolve(Current.target)[2]
           subject == Resolve(Current.subject)
<1>1. chain' = IF Current.op = "operator" THEN [chain EXCEPT ![m].operator = subject] ELSE chain
  BY DEF SendCall
<1>2. chain \in [1..Len(chain) -> Contract]
  BY DEF TypeOK, WorldTypeOK
<1> HIDE DEF m, subject
<1>3. chain[i] \in Contract
  BY <1>2
<1>4. chain'[i].operator = IF Current.op = "operator" /\ i = m THEN subject ELSE chain[i].operator
  BY <1>1, <1>2, <1>3 DEF Contract
<1>5. QED
  BY <1>4 DEF m, subject

\* The owners' step executes a call that was deferred and is no hand-over.
LEMMA ExecutedCall ==
  ASSUME TypeOK, DeferredAreCalls, OwnersStep
  PROVE  /\ UNCHANGED <<outputs, chain, cache, randoms, pc, stage, step, environment>>
         /\ \E c \in Calls : Addressed(c) /\ effects' = effects \cup {Effect(c)}
<1>1. PICK k \in Pending : Execute(k)
  BY DEF OwnersStep
<1>2. PICK c \in Calls : /\ outputs.transactions[k].description = StepDescription(c)
                         /\ c.op # "operator"
  BY DEF DeferredAreCalls
<1> DEFINE call == CallOf(outputs.transactions[k])
<1>3. call.op = c.op /\ call.target = c.target /\ call.subject = c.subject
  <2>1. outputs.transactions[k].description = <<c.op, c.target, c.subject>>
    BY <1>2, CallParts DEF StepDescription
  <2>2. QED
    BY <2>1 DEF CallOf
<1>4. Addressed(c) /\ Effect(call) = Effect(c)
  <2>1. Addressed(call)
    BY <1>1 DEF Execute, Accepted
  <2> HIDE DEF call
  <2>2. QED
    BY <1>3, <2>1 DEF Addressed, Effect
<1>5. /\ UNCHANGED <<outputs, cache, randoms, pc, stage, step, environment>>
      /\ effects' = effects \cup {Effect(call)}
      /\ call.op # "operator" => chain' = chain
  BY <1>1 DEF Execute
<1> HIDE DEF call
<1>6. QED
  BY <1>2, <1>3, <1>4, <1>5

LEMMA OwnersKeepType == TypeOK /\ RunInvariant /\ DeferredAreCalls /\ OwnersStep
                          => TypeOK' /\ RunInvariant'
<1> SUFFICES ASSUME TypeOK, RunInvariant, DeferredAreCalls, OwnersStep
             PROVE  TypeOK' /\ RunInvariant'
  OBVIOUS
<1>1. UNCHANGED <<outputs, chain, cache, randoms, pc, stage, step, environment>>
  BY ExecutedCall
<1>2. PICK c \in Calls : effects' = effects \cup {Effect(c)}
  BY ExecutedCall
<1>3. Effect(c) \in Operation \X Address \X Address
  BY CallParts, ResolveType DEF Effect, TypeOK
<1>4. TypeOK'
  BY <1>1, <1>2, <1>3 DEF TypeOK, WorldTypeOK, RunTypeOK, BoundsOK, Current, environment
<1>5. RunInvariant'
  BY <1>1 DEF RunInvariant, FinishedStagesRecorded, PassedStagesFinished, CurrentStageOpen,
     PassedStepsRecorded, WritesOnce, CallSteps, Recorded, Current, StageAlreadyFinished
<1>6. QED
  BY <1>4, <1>5

LEMMA NotTorn == [Next]_vars /\ ~TearWrite => tornWrites' = tornWrites
BY DEF Next, Progress, Interruption, StartRun, PassRetiredStage, SkipFinishedStage,
   PrepareDeployment, FinishStage, EndRun, SkipRecordedName, CreateContract, ReuseContract,
   SaveDeployment, WriteContractAddress, WriteMockAddress, RecordTransaction, SkipCall,
   DeferCall, SendCall, Abort, Crash, FreshCheckout, vars, environment

LEMMA AddressedStays ==
  ASSUME AddressesKept, NEW c \in Calls, Addressed(c)
  PROVE  /\ Addressed(c)' /\ Effect(c)' = Effect(c)
         /\ Resolve(c.target)' = Resolve(c.target) /\ Resolve(c.subject)' = Resolve(c.subject)
<1>1. Resolve(c.target)' = Resolve(c.target) /\ Resolve(c.subject)' = Resolve(c.subject)
  BY CallParts, ResolveStays DEF Addressed
<1>2. QED
  BY <1>1 DEF Addressed, Effect

LEMMA ManagersInit == Init => ManagersInvariant
<1> SUFFICES ASSUME Init PROVE ManagersInvariant
  OBVIOUS
<1>1. WalletStable /\ DeployedPlaced
  BY OwnerAssumption DEF Init, EmptyOutputs, WalletStable, DeployedPlaced
<1>2. OperatorsKnown /\ DeferredAreCalls
  BY DEF Init, EmptyOutputs, OperatorsKnown, DeferredAreCalls, Pending
<1>3. QED
  BY <1>1, <1>2 DEF ManagersInvariant

\* A hand-over sets the operator of a manager to the wallet.
LEMMA OperatorsMove ==
  ASSUME TypeOK, WalletStable, [Next]_vars, NEW i \in DOMAIN chain
  PROVE  chain'[i].operator \in {chain[i].operator, OwnerAddress}
<1>1. CASE CreateContract
  BY <1>1, CreatedContract
<1>2. CASE SendCall
  <2>1. Current \in Calls /\ Addressed(Current)
    BY <1>2, CurrentCall DEF SendCall
  <2>2. Current.op = "operator" => Current.subject = Owner
    BY <2>1, OwnerAssumption DEF Calls, Handover
  <2>3. Current.op = "operator" => Resolve(Current.subject) = OwnerAddress
    BY <2>1, <2>2, WalletAddress, OwnerIsWallet DEF Addressed
  <2>4. QED
    BY <1>2, <2>3, OperatorAfterCall
<1>3. CASE ~CreateContract /\ ~SendCall
  BY <1>3 DEF Next, Progress, Interruption, StartRun, PassRetiredStage, SkipFinishedStage,
     PrepareDeployment, FinishStage, EndRun, SkipRecordedName, ReuseContract, SaveDeployment,
     WriteContractAddress, WriteMockAddress, RecordTransaction, SkipCall, DeferCall, Abort,
     Crash, TearWrite, FreshCheckout, vars, world
<1>4. QED
  BY <1>1, <1>2, <1>3

LEMMA ManagersStep ==
  ASSUME TypeOK, RunInvariant, ManagersInvariant, [Next]_vars
  PROVE  ManagersInvariant'
<1> USE DEF ManagersInvariant
<1>1. outputs.addresses \in [Names -> Address] /\ Owner \in Names
  BY DocumentParts, OwnerAssumption DEF TypeOK, WorldTypeOK
<1>2. WalletStable'
  <2>1. CASE Owner \in KnownDependencies
    BY <2>1 DEF WalletStable
  <2>2. CASE Owner \notin KnownDependencies
    <3>1. ASSUME NEW s \in Steps, s.kind # "call", s.name = Owner
          PROVE  s.kind = "mock" /\ s.value = "deployer"
      BY <2>2, <3>1, OwnerAssumption DEF Providers
    <3>2. QED
      BY <1>1, <2>2, <3>1, AddressSteps DEF WalletStable
  <2>3. QED
    BY <2>1, <2>2
<1>3. DeployedPlaced'
  <2> SUFFICES ASSUME NEW name \in Names, Deployed(name), outputs'.addresses[name] # NoAddress
               PROVE  \E i \in DOMAIN chain' : outputs'.addresses[name] = ContractAt(i)
    BY DEF DeployedPlaced
  <2>1. \A s \in Steps : s.kind # "call" /\ s.name = name => s.kind = "deploy"
    BY DEF Deployed, Providers
  <2>2. \E i \in DOMAIN chain : outputs'.addresses[name] = ContractAt(i)
    BY <1>1, <2>1, AddressSteps DEF DeployedPlaced
  <2>3. QED
    BY <2>2, ChainStep DEF ContractsStay
<1>4. OperatorsKnown'
  <2> SUFFICES ASSUME NEW i \in DOMAIN chain'
               PROVE  chain'[i].operator \in {Deployer, OwnerAddress}
    BY DEF OperatorsKnown
  <2>1. CASE i \in DOMAIN chain
    BY <2>1, OperatorsMove DEF OperatorsKnown
  <2>2. CASE i \notin DOMAIN chain
    <3>1. CreateContract
      BY <2>2, ChainStep
    <3>2. QED
      BY <2>2, <3>1, CreatedContract
  <2>3. QED
    BY <2>1, <2>2
\* A hand-over that must wait has been made: only the wallet operates the manager.
<1>5. ASSUME DeferCall
      PROVE  /\ Current \in Calls /\ Current.deferrable /\ Current.op # "operator"
             /\ Addressed(Current)
  <2>1. /\ Current \in Calls /\ Addressed(Current)
        /\ ~CallUnneeded(Current) /\ MustDefer(Current)
    BY <1>5, CurrentCall DEF DeferCall
  <2>2. ASSUME Current.op = "operator" PROVE FALSE
    <3>1. Current \in Handover /\ Current.subject = Owner
      BY <2>1, <2>2, OwnerAssumption DEF Calls, Handover
    <3>2. Resolve(Current.subject) = OwnerAddress
      BY <2>1, <3>1, WalletAddress, OwnerIsWallet DEF Addressed
    <3>3. PICK i \in DOMAIN chain : Resolve(Current.target) = ContractAt(i)
      BY <2>1, <3>1, ManagerIsDeployed, DeployedAddress
         DEF Addressed, DeployedPlaced, Deployed
    <3>4. OperatorOf(Resolve(Current.target)) = chain[i].operator
      BY <3>3 DEF OperatorOf, ContractAt
    <3>5. chain[i].operator # Deployer
      BY <2>1, <2>2, <3>4 DEF MustDefer, HasAuthority, ManagerOf
    <3>6. chain[i].operator # OwnerAddress
      BY <2>1, <2>2, <3>2, <3>4 DEF CallUnneeded
    <3>7. QED
      BY <3>5, <3>6 DEF OperatorsKnown
  <2>3. QED
    BY <2>1, <2>2 DEF MustDefer
<1>6. DeferredAreCalls'
  <2> SUFFICES ASSUME NEW k \in DOMAIN outputs'.transactions, outputs'.transactions[k].deferred
               PROVE  \E c \in Calls : /\ outputs'.transactions[k].description = StepDescription(c)
                                       /\ c.deferrable /\ c.op # "operator" /\ Addressed(c)'
    BY DEF DeferredAreCalls, Pending
  <2>1. AddressesKept
    <3>1. ~TearWrite
      BY DEF TearWrite, EmptyOutputs
    <3>2. QED
      BY <3>1, NotTorn, GrowthStep DEF Grows
  <2>2. ASSUME NEW c \in Calls, Addressed(c) PROVE Addressed(c)'
    BY <2>1, <2>2, AddressedStays
  <2>3. CASE k \in DOMAIN outputs.transactions /\ outputs'.transactions[k] = outputs.transactions[k]
    BY <2>2, <2>3 DEF DeferredAreCalls, Pending
  <2>4. CASE DeferCall /\ outputs'.transactions[k].description = StepDescription(Current)
    <3>1. PICK c \in Calls : c = Current /\ c.deferrable /\ c.op # "operator" /\ Addressed(c)
      BY <1>5, <2>4
    <3>2. QED
      BY <2>2, <2>4, <3>1
  <2>5. QED
    BY <2>3, <2>4, RecordSteps DEF TearWrite, EmptyOutputs
<1>7. QED
  BY <1>2, <1>3, <1>4, <1>6

\* The invariants above, for runs and owners together.
BaseInvariant == TypeOK /\ RunInvariant /\ ManagersInvariant

LEMMA OwnersStepKeeps ==
  ASSUME BaseInvariant, OwnersStep
  PROVE  BaseInvariant'
<1>1. TypeOK' /\ RunInvariant' /\ UNCHANGED <<outputs, chain>>
  BY ExecutedCall, OwnersKeepType DEF BaseInvariant, ManagersInvariant
<1>2. ManagersInvariant'
  BY <1>1 DEF BaseInvariant, ManagersInvariant, WalletStable, DeployedPlaced, OperatorsKnown,
     DeferredAreCalls, Pending, Addressed, Resolve
<1>3. QED
  BY <1>1, <1>2 DEF BaseInvariant

LEMMA BaseStep == BaseInvariant /\ [OwnersNext]_vars => BaseInvariant'
<1> SUFFICES ASSUME BaseInvariant, [OwnersNext]_vars PROVE BaseInvariant'
  OBVIOUS
<1>1. CASE [Next]_vars
  BY <1>1, TypeStep, RunStep, ManagersStep DEF BaseInvariant
<1>2. CASE OwnersStep
  BY <1>2, OwnersStepKeeps
<1>3. QED
  BY <1>1, <1>2 DEF OwnersNext

LEMMA BaseHolds == OwnersSpec => []BaseInvariant
<1>1. Init => BaseInvariant
  BY InitType, InitRun, ManagersInit DEF BaseInvariant
<1>2. QED
  BY <1>1, BaseStep, PTL DEF OwnersSpec

\* What has been called stays called.
LEMMA EffectsGrow ==
  ASSUME BaseInvariant, [OwnersNext]_vars
  PROVE  effects \subseteq effects'
<1>1. CASE OwnersStep
  BY <1>1, ExecutedCall DEF BaseInvariant, ManagersInvariant
<1>2. CASE SendCall
  BY <1>2 DEF SendCall
<1>3. CASE [Next]_vars /\ ~SendCall
  BY <1>3 DEF Next, Progress, Interruption, StartRun, PassRetiredStage, SkipFinishedStage,
     PrepareDeployment, FinishStage, EndRun, SkipRecordedName, CreateContract, ReuseContract,
     SaveDeployment, WriteContractAddress, WriteMockAddress, RecordTransaction, SkipCall,
     DeferCall, Abort, Crash, TearWrite, FreshCheckout, vars, world
<1>4. QED
  BY <1>1, <1>2, <1>3 DEF OwnersNext

\* A manager that gets another operator is the deployer's, and is handed over.
LEMMA OperatorHandedOver ==
  ASSUME BaseInvariant, [OwnersNext]_vars, NEW i \in DOMAIN chain,
         chain'[i].operator # chain[i].operator
  PROVE  /\ chain[i].operator = Deployer /\ chain'[i].operator = Wallet
         /\ AtStep("call") /\ Current.op = "operator"
<1> USE DEF BaseInvariant, ManagersInvariant
<1>1. ~OwnersStep /\ ~CreateContract
  BY ExecutedCall, CreatedContract
<1>2. SendCall
  BY <1>1 DEF OwnersNext, Next, Progress, Interruption, StartRun, PassRetiredStage,
     SkipFinishedStage, PrepareDeployment, FinishStage, EndRun, SkipRecordedName,
     ReuseContract, SaveDeployment, WriteContractAddress, WriteMockAddress,
     RecordTransaction, SkipCall, DeferCall, Abort, Crash, TearWrite, FreshCheckout, vars, world
<1>3. /\ Current.op = "operator" /\ i = Resolve(Current.target)[2]
      /\ chain'[i].operator = Resolve(Current.subject)
  BY <1>2, OperatorAfterCall
<1>4. Current \in Calls /\ AtStep("call")
  BY <1>2, CurrentCall DEF SendCall, CallReady
<1>5. Current.subject = Owner /\ Owner \in Names /\ Owner # "deployer"
  BY <1>3, <1>4, OwnerAssumption, NamesAssumption DEF Calls, Handover, Tags
<1>6. chain'[i].operator = Wallet
  BY <1>3, <1>5, OwnerIsWallet
\* The call was neither deferred nor refused.
<1>7. HasAuthority(Current)
  BY <1>2, <1>4, CallParts DEF SendCall, MustDefer, Refused, CallStep
<1>8. chain[i].operator = Deployer
  BY <1>3, <1>7 DEF HasAuthority, ManagerOf, OperatorOf
<1>9. QED
  BY <1>3, <1>4, <1>6, <1>8

\* The deployer's key never regains a manager and the wallet never loses one, however
\* runs are interrupted and repeated and whenever the owners act.
THEOREM AuthorityIsHandedOver == OwnersSpec => AuthorityMovesOnce
<1>1. BaseInvariant /\ [OwnersNext]_vars =>
        [/\ effects \subseteq effects'
         /\ \A i \in DOMAIN chain : chain'[i].operator # chain[i].operator =>
              /\ chain[i].operator = Deployer /\ chain'[i].operator = Wallet
              /\ AtStep("call") /\ Current.op = "operator"]_vars
  BY EffectsGrow, OperatorHandedOver
<1>2. QED
  BY <1>1, BaseHolds, PTL DEF OwnersSpec, AuthorityMovesOnce

\* Whenever the owners act, the outputs file is the registry that Deployment alone
\* implements, and only grows: executing a record leaves the record where it is.
THEOREM OwnersLeaveTheLedger == OwnersSpec => (LedgerOnlyGrows /\ ImplementsRegistry)
<1>1. ASSUME BaseInvariant, OwnersStep PROVE UNCHANGED <<outputs, tornWrites>>
  BY <1>1, ExecutedCall DEF BaseInvariant, ManagersInvariant, environment
<1>2. BaseInvariant /\ [OwnersNext]_vars =>
        [tornWrites' = tornWrites => AddressesKept /\ RecordsKept /\ StageKept]_vars
  <2>1. ASSUME BaseInvariant, OwnersStep PROVE AddressesKept /\ RecordsKept /\ StageKept
    <3>1. GetLastDeploymentStage(outputs) \in Nat /\ outputs' = outputs
      BY <1>1, <2>1, DocumentParts
         DEF GetLastDeploymentStage, BaseInvariant, TypeOK, WorldTypeOK
    <3>2. QED
      BY <3>1 DEF AddressesKept, RecordsKept, StageKept, GetLastDeploymentStage
  <2>2. QED
    BY <2>1, GrowthStep DEF Grows, BaseInvariant, OwnersNext
<1>3. BaseInvariant /\ BaseInvariant' /\ [OwnersNext]_vars => [Abstract!Next]_(Abstract!vars)
  <2>1. ASSUME BaseInvariant, OwnersStep PROVE UNCHANGED Abstract!vars
    BY <1>1, <2>1 DEF Abstract!vars, GetLastDeploymentStage
  <2>2. QED
    BY <2>1, RefineStep DEF BaseInvariant, OwnersNext
<1>4. Init => Abstract!Init
  BY InitRefines
<1>5. QED
  BY <1>2, <1>3, <1>4, BaseHolds, PTL
     DEF OwnersSpec, LedgerOnlyGrows, ImplementsRegistry, Abstract!Spec

-----------------------------------------------------------------------------
(***************************************************************************)
(* What becomes of a call.                                                 *)
(***************************************************************************)
\* The chain has no need of call c, or has executed it, or the owners know of it.  That
\* a manager was handed over once is not enough: its operator still is the wallet.
Settled(c) ==
  /\ Addressed(c)
  /\ \/ CallUnneeded(c)
     \/ c.op # "operator" /\ (Effect(c) \in effects \/ Deferrals(c) # {})

CallInvariant ==
  /\ \A s \in Stages : StageAlreadyFinished(s) =>
       \A k \in CallSteps(s) : Settled(Script[s][k])
  /\ Running => \A k \in CallSteps(stage) : k < step => Settled(Script[stage][k])
  /\ (pc = "record" /\ Current.kind = "call") => Settled(Current)

\* A step that tears no file keeps addresses, records, effects and hand-overs.
Persists == /\ AddressesKept /\ RecordsKept /\ effects \subseteq effects'
            /\ \A i \in DOMAIN chain : /\ i \in DOMAIN chain'
                                       /\ chain'[i].operator \in {chain[i].operator, OwnerAddress}

LEMMA PersistsStep ==
  ASSUME BaseInvariant, [OwnersNext]_vars, ~TearWrite
  PROVE  Persists
<1> USE DEF BaseInvariant
<1>1. CASE OwnersStep
  <2>1. outputs' = outputs /\ chain' = chain /\ effects \subseteq effects'
    BY <1>1, ExecutedCall DEF ManagersInvariant
  <2>2. QED
    BY <2>1, UnchangedGrows DEF Persists, Grows
<1>2. CASE [Next]_vars
  <2>1. tornWrites' = tornWrites
    BY <1>2, NotTorn
  <2>2. AddressesKept /\ RecordsKept
    BY <1>2, <2>1, GrowthStep DEF Grows
  <2>3. effects \subseteq effects'
    BY <1>2 DEF Next, Progress, Interruption, StartRun, PassRetiredStage, SkipFinishedStage,
       PrepareDeployment, FinishStage, EndRun, SkipRecordedName, CreateContract, ReuseContract,
       SaveDeployment, WriteContractAddress, WriteMockAddress, RecordTransaction, SkipCall,
       DeferCall, SendCall, Abort, Crash, FreshCheckout, vars, world
  <2>4. \A i \in DOMAIN chain : /\ i \in DOMAIN chain'
                                /\ chain'[i].operator \in {chain[i].operator, OwnerAddress}
    BY <1>2, ChainStep, OperatorsMove DEF ContractsStay, ManagersInvariant
  <2>5. QED
    BY <2>2, <2>3, <2>4 DEF Persists
<1>3. QED
  BY <1>1, <1>2 DEF OwnersNext

\* A manager a call hands over is a contract of the chain.
LEMMA ManagerPlace ==
  ASSUME DeployedPlaced, NEW h \in Handover, Resolve(h.target) # NoAddress
  PROVE  \E i \in DOMAIN chain : /\ Resolve(h.target) = ContractAt(i)
                                 /\ OperatorOf(Resolve(h.target)) = chain[i].operator
<1>1. Deployed(h.target)
  BY ManagerIsDeployed
<1>2. PICK i \in DOMAIN chain : outputs.addresses[h.target] = ContractAt(i)
  BY <1>1, DeployedAddress DEF DeployedPlaced, Deployed, Addressed
<1>3. QED
  BY <1>1, <1>2, DeployedAddress DEF OperatorOf, ContractAt

LEMMA SubjectIsWallet ==
  ASSUME TypeOK, WalletStable, NEW h \in Handover, Addressed(h)
  PROVE  Resolve(h.subject) = OwnerAddress /\ Wallet = OwnerAddress
BY OwnerAssumption, WalletAddress, OwnerIsWallet DEF Addressed

LEMMA SettledStays ==
  ASSUME BaseInvariant, BaseInvariant', Persists, NEW c \in Calls, Settled(c)
  PROVE  Settled(c)'
<1> USE DEF BaseInvariant, ManagersInvariant
<1>1. /\ Addressed(c) /\ Addressed(c)' /\ Effect(c)' = Effect(c)
      /\ Resolve(c.target)' = Resolve(c.target) /\ Resolve(c.subject)' = Resolve(c.subject)
  BY AddressedStays DEF Settled, Persists
<1>2. CASE c.op = "operator"
  <2>1. c \in Handover
    BY <1>2 DEF Handover, Calls
  <2>2. PICK i \in DOMAIN chain : /\ Resolve(c.target) = ContractAt(i)
                                  /\ OperatorOf(Resolve(c.target)) = chain[i].operator
    BY <1>1, <2>1, ManagerPlace DEF Addressed
  <2>3. chain[i].operator = Resolve(c.subject) /\ Resolve(c.subject) = OwnerAddress
    BY <1>1, <1>2, <2>1, <2>2, SubjectIsWallet DEF Settled, CallUnneeded
  <2>4. chain'[i].operator = OwnerAddress
    BY <2>3 DEF Persists
  <2>5. OperatorOf(Resolve(c.target))' = Resolve(c.subject)'
    BY <1>1, <2>2, <2>3, <2>4 DEF OperatorOf, ContractAt
  <2>6. QED
    BY <1>1, <1>2, <2>5 DEF Settled, CallUnneeded
<1>3. CASE c.op # "operator"
  <2>1. Deferrals(c) # {} => Deferrals(c)' # {}
    BY DEF Deferrals, Persists, RecordsKept, StepDescription
  <2>2. Effect(c) \in effects => Effect(c)' \in effects'
    BY <1>1 DEF Persists
  <2>3. CASE CallUnneeded(c)
    <3>1. c.op \in {"transfer", "adapter", "caller"}
      BY <1>3, CallParts DEF Operation
    <3>2. CASE c.op = "transfer"
      <4>1. Resolve(c.subject) = Deployer \/ Effect(c) \in effects
        BY <2>3, <3>2 DEF CallUnneeded
      <4>2. QED
        BY <1>1, <2>2, <3>2, <4>1 DEF Settled, CallUnneeded
    <3>3. CASE c.op = "adapter"
      BY <1>1, <1>3, <2>2, <2>3, <3>3 DEF Settled, CallUnneeded
    <3>4. CASE c.op = "caller"
      BY <2>3, <3>4 DEF CallUnneeded
    <3>5. QED
      BY <3>1, <3>2, <3>3, <3>4
  <2>4. CASE ~CallUnneeded(c)
    BY <1>1, <1>3, <2>1, <2>2, <2>4 DEF Settled
  <2>5. QED
    BY <2>3, <2>4
<1>4. QED
  BY <1>2, <1>3

\* The three ways past a call.
LEMMA CallSettled ==
  ASSUME BaseInvariant, SkipCall \/ DeferCall \/ SendCall, NEW c, c = Current
  PROVE  c \in Calls /\ Settled(c)'
<1> USE DEF BaseInvariant, ManagersInvariant
<1>1. c \in Calls /\ Addressed(c) /\ CallReady
  BY CurrentCall DEF SkipCall, DeferCall, SendCall
<1>2. [Next]_vars /\ [OwnersNext]_vars /\ ~TearWrite
  <2>1. [Next]_vars
    BY DEF Next, Progress
  <2>2. ~TearWrite
    BY <1>1 DEF TearWrite, Stop, SkipCall, DeferCall, SendCall, NextStep
  <2>3. QED
    BY <2>1, <2>2 DEF OwnersNext
<1>3. Persists
  BY <1>2, PersistsStep
<1>4. BaseInvariant'
  BY <1>2, BaseStep
<1>5. CASE SkipCall
  <2>1. Settled(c)
    BY <1>1, <1>5 DEF Settled, SkipCall
  <2>2. QED
    BY <1>1, <1>3, <1>4, <2>1, SettledStays
<1>6. Addressed(c)'
  BY <1>1, <1>3, AddressedStays DEF Persists
<1>7. CASE DeferCall
  <2>1. PICK k \in DOMAIN outputs'.transactions :
          /\ outputs'.transactions[k].deferred
          /\ outputs'.transactions[k].description = StepDescription(Current)
    <3>1. IsDocument(outputs) /\ DeferredTransaction(StepDescription(Current)) \in Transaction
      <4>1. StepDescription(Current) \in Description
        BY <1>1, CallParts, DescriptionType
      <4>2. QED
        BY <4>1, RecordTypes, SpecialAddresses DEF TypeOK, WorldTypeOK
    <3>2. \E k \in DOMAIN outputs'.transactions :
            outputs'.transactions[k] = DeferredTransaction(StepDescription(Current))
      BY <1>7, <3>1, AddedRecord DEF DeferCall, SaveDeferredTransaction
    <3>3. QED
      BY <3>2 DEF DeferredTransaction, PlainTransaction
  <2>2. Deferrals(c)' # {}
    BY <2>1 DEF Deferrals, StepDescription
  <2>3. c.op # "operator"
    <3>1. \A r \in Handover : r = c => FALSE
      <4> SUFFICES ASSUME c \in Handover PROVE FALSE
        OBVIOUS
      <4>1. PICK i \in DOMAIN chain : OperatorOf(Resolve(c.target)) = chain[i].operator
        BY <1>1, ManagerPlace DEF Addressed
      <4>2. Resolve(c.subject) = OwnerAddress /\ c.op = "operator"
        BY <1>1, SubjectIsWallet DEF Handover
      <4>3. chain[i].operator # Deployer /\ chain[i].operator # OwnerAddress
        BY <1>7, <4>1, <4>2 DEF DeferCall, MustDefer, HasAuthority, ManagerOf, CallUnneeded
      <4>4. QED
        BY <4>3 DEF OperatorsKnown
    <3>2. QED
      BY <1>1, <3>1 DEF Handover, Calls
  <2>4. QED
    BY <1>1, <1>6, <2>2, <2>3 DEF Settled
<1>8. CASE SendCall
  <2>1. CASE c.op # "operator"
    <3>1. Effect(c)' \in effects'
      BY <1>1, <1>3, <1>8, AddressedStays DEF SendCall, Persists
    <3>2. QED
      BY <1>1, <1>6, <2>1, <3>1 DEF Settled
  <2>2. CASE c.op = "operator"
    <3>1. c \in Handover
      BY <1>1, <2>2 DEF Handover, Calls
    <3>2. PICK i \in DOMAIN chain : Resolve(c.target) = ContractAt(i)
      BY <1>1, <3>1, ManagerPlace DEF Addressed
    <3>3. chain'[i].operator = Resolve(c.subject)
      BY <1>8, <2>2, <3>2, OperatorAfterCall DEF ContractAt
    <3>4. OperatorOf(Resolve(c.target))' = Resolve(c.subject)'
      BY <1>1, <1>3, <3>2, <3>3, AddressedStays DEF OperatorOf, ContractAt, Persists
    <3>5. QED
      BY <1>1, <1>6, <2>2, <3>4 DEF Settled, CallUnneeded
  <2>3. QED
    BY <2>1, <2>2
<1>9. QED
  BY <1>1, <1>5, <1>7, <1>8

\* How a run comes to be inside a script, and how it gets past a call.
LEMMA RunMoves ==
  ASSUME TypeOK, [Next]_vars, Running'
  PROVE  \/ PrepareDeployment /\ step' = 1
         \/ /\ Running /\ stage' = stage /\ stage \in Stages /\ step \in Nat
            /\ \/ step' = step /\ Current' = Current
               \/ /\ step' = step + 1
                  /\ \/ pc = "record" \/ SkipCall \/ DeferCall
                     \/ step \in DOMAIN Script[stage] /\ Current.kind # "call"
<1>1. CASE SaveDeployment \/ SkipRecordedName
  BY <1>1, AtStepPlace, SavePlace
     DEF SaveDeployment, SkipRecordedName, NextStep, AtStep, TypeOK, RunTypeOK, DeployStep
<1>2. CASE SkipCall \/ DeferCall \/ RecordTransaction
  BY <1>2, CurrentCall, RecordPlace
     DEF SkipCall, DeferCall, RecordTransaction, NextStep, TypeOK, RunTypeOK
<1>3. CASE PrepareDeployment
  BY <1>3 DEF PrepareDeployment, Preparing, AtStage, TypeOK, RunTypeOK
<1>4. CASE CreateContract \/ ReuseContract \/ WriteContractAddress \/ WriteMockAddress \/ SendCall
  BY <1>4 DEF CreateContract, ReuseContract, WriteContractAddress, WriteMockAddress, SendCall,
     CallReady, AtStep, TypeOK, RunTypeOK, Current
<1>5. CASE UNCHANGED vars \/ FreshCheckout
  BY <1>5 DEF vars, FreshCheckout, TypeOK, RunTypeOK, Current
<1>6. CASE \/ StartRun \/ PassRetiredStage \/ SkipFinishedStage \/ FinishStage \/ EndRun
           \/ Abort \/ Crash \/ TearWrite
  BY <1>6 DEF StartRun, PassRetiredStage, SkipFinishedStage, FinishStage, EndRun, Abort, Crash,
     TearWrite, ToStage, Stop
<1>7. QED
  BY <1>1, <1>2, <1>3, <1>4, <1>5, <1>6 DEF Next, Progress, Interruption

LEMMA StageMoves ==
  ASSUME TypeOK, [Next]_vars, ~TearWrite, ~FinishStage
  PROVE  GetLastDeploymentStage(outputs') = GetLastDeploymentStage(outputs)
<1>1. CASE PrepareDeployment
  BY <1>1, RemoveNetworkKeeps DEF PrepareDeployment, TypeOK, WorldTypeOK
<1>2. CASE \/ SkipCall \/ DeferCall \/ SkipRecordedName \/ RecordTransaction
           \/ SaveDeployment \/ WriteContractAddress \/ WriteMockAddress
  BY <1>2, StageStays
<1>3. CASE \/ StartRun \/ PassRetiredStage \/ SkipFinishedStage \/ EndRun \/ CreateContract
           \/ ReuseContract \/ SendCall \/ Abort \/ Crash \/ FreshCheckout \/ UNCHANGED vars
  BY <1>3 DEF StartRun, PassRetiredStage, SkipFinishedStage, EndRun, CreateContract,
     ReuseContract, SendCall, Abort, Crash, FreshCheckout, vars
<1>4. QED
  BY <1>1, <1>2, <1>3 DEF Next, Progress, Interruption

\* The call the run is at when it sends its transaction.
LEMMA CallSent ==
  ASSUME TypeOK, [Next]_vars, pc' = "record", Current'.kind = "call"
  PROVE  (pc = "record" \/ SendCall) /\ Current' = Current
<1>1. CASE WriteContractAddress \/ WriteMockAddress
  <2>1. Current' = Current /\ Current.kind # "call"
    BY <1>1, SavePlace DEF WriteContractAddress, WriteMockAddress, AtStep, Current, DeployStep
  <2>2. QED
    BY <2>1
<1>2. CASE UNCHANGED vars \/ FreshCheckout \/ SendCall
  BY <1>2 DEF vars, FreshCheckout, SendCall, Current
<1>3. QED
  BY <1>1, <1>2 DEF Next, Progress, Interruption, StartRun, PassRetiredStage, SkipFinishedStage,
     PrepareDeployment, FinishStage, EndRun, SkipRecordedName, CreateContract, ReuseContract,
     SaveDeployment, RecordTransaction, SkipCall, DeferCall, Abort, Crash, TearWrite, ToStage,
     Stop, NextStep

LEMMA CallInvariantStep ==
  BaseInvariant /\ CallInvariant /\ [OwnersNext]_vars => CallInvariant'
<1> SUFFICES ASSUME BaseInvariant, CallInvariant, [OwnersNext]_vars PROVE CallInvariant'
  OBVIOUS
<1> USE DEF BaseInvariant, ManagersInvariant
<1>1. CASE TearWrite
  <2>1. GetLastDeploymentStage(outputs') = 0 /\ pc' = "idle"
    BY <1>1 DEF TearWrite, Stop, EmptyOutputs, GetLastDeploymentStage
  <2>2. QED
    BY <2>1, ScriptAssumption DEF CallInvariant, StageAlreadyFinished, Stages
<1>2. CASE ~TearWrite
  <2>1. Persists /\ BaseInvariant'
    BY <1>2, PersistsStep, BaseStep
  <2>2. ASSUME NEW c \in Calls, Settled(c) PROVE Settled(c)'
    BY <2>1, <2>2, SettledStays
  <2>3. CASE OwnersStep
    <3>1. UNCHANGED <<outputs, pc, stage, step>>
      BY <2>3, ExecutedCall
    <3>2. ASSUME NEW s \in Stages, StageAlreadyFinished(s)', NEW k \in CallSteps(s)
          PROVE  Settled(Script[s][k])'
      BY <2>2, <3>1, <3>2, CallOfStep DEF CallInvariant, StageAlreadyFinished
    <3>3. ASSUME Running', NEW s \in Stages, s = stage', NEW k \in CallSteps(s), k < step'
          PROVE  Settled(Script[s][k])'
      <4>1. Settled(Script[s][k])
        BY <3>1, <3>3 DEF CallInvariant
      <4>2. QED
        BY <2>2, <3>3, <4>1, CallOfStep
    <3>4. ASSUME pc' = "record", Current'.kind = "call" PROVE Settled(Current)'
      <4>1. Current' = Current /\ pc = "record"
        BY <3>1, <3>4 DEF Current
      <4>2. Current \in Calls
        <5>1. stage \in Stages /\ step \in CallSteps(stage)
          BY <3>4, <4>1, RecordPlace DEF CallSteps, Current
        <5>2. QED
          BY <5>1, CallOfStep DEF Current
      <4>3. PICK c \in Calls : c = Current
        BY <4>2
      <4>4. Settled(c)'
        BY <2>2, <3>4, <4>1, <4>3 DEF CallInvariant
      <4>5. c = Current'
        BY <4>1, <4>3
      <4>6. QED
        BY <4>4, <4>5 DEF Settled, Addressed, CallUnneeded, Effect, Deferrals, StepDescription
    <3>5. QED
      <4>1. Running' => stage' \in Stages
        BY <2>1 DEF TypeOK, RunTypeOK
      <4>2. (Running => \A k \in CallSteps(stage) : k < step => Settled(Script[stage][k]))'
        BY <4>1, <3>3 DEF CallSteps, Settled, Addressed, CallUnneeded, Effect, Deferrals,
           StepDescription
      <4>3. QED
        BY <3>2, <4>2, <3>4 DEF CallInvariant, CallSteps
  <2>4. CASE [Next]_vars
    <3>1. ASSUME NEW s \in Stages, StageAlreadyFinished(s)', NEW k \in CallSteps(s)
          PROVE  Settled(Script[s][k])'
      <4> SUFFICES Settled(Script[s][k])
        BY <2>2, CallOfStep
      <4>1. CASE StageAlreadyFinished(s)
        BY <4>1 DEF CallInvariant
      <4>2. CASE ~StageAlreadyFinished(s)
        <5>1. FinishStage
          BY <1>2, <2>4, <3>1, <4>2, StageMoves DEF StageAlreadyFinished
        <5>2. /\ stage \in Stages /\ Running /\ stage + 1 \in Nat /\ IsDocument(outputs)
              /\ \A j \in DOMAIN Script[stage] : j < step
          BY <5>1, ScriptLength, ScriptAssumption
             DEF FinishStage, TypeOK, RunTypeOK, WorldTypeOK, Stages
        <5>3. GetLastDeploymentStage(outputs') = stage + 1
          BY <5>1, <5>2, WriteStageKeeps DEF FinishStage
        <5>4. s \notin Retired
          BY ScriptAssumption DEF CallSteps
        <5>5. s < stage => FALSE
          BY <4>2, <5>2, <5>4 DEF RunInvariant, PassedStagesFinished
        <5>6. s = stage
          BY <3>1, <5>2, <5>3, <5>5, ScriptAssumption DEF StageAlreadyFinished, Stages
        <5>7. QED
          BY <5>2, <5>6 DEF CallInvariant, CallSteps
      <4>3. QED
        BY <4>1, <4>2
    <3>2. ASSUME Running', NEW s \in Stages, s = stage', NEW k \in CallSteps(s), k < step'
          PROVE  Settled(Script[s][k])'
      <4>1. k \in Nat \ {0}
        BY <3>2, ScriptLength DEF CallSteps
      <4>2. CASE PrepareDeployment /\ step' = 1
        BY <3>2, <4>1, <4>2
      <4>3. CASE ~(PrepareDeployment /\ step' = 1)
        <5>1. /\ Running /\ stage' = stage /\ step \in Nat
              /\ \/ step' = step
                 \/ /\ step' = step + 1
                    /\ \/ pc = "record" \/ SkipCall \/ DeferCall
                       \/ step \in DOMAIN Script[stage] /\ Current.kind # "call"
          BY <2>4, <3>2, <4>3, RunMoves
        <5>2. CASE k < step
          <6>1. Settled(Script[s][k])
            BY <3>2, <5>1, <5>2 DEF CallInvariant
          <6>2. QED
            BY <2>2, <3>2, <6>1, CallOfStep
        <5>3. CASE ~(k < step)
          <6>1. k = step /\ Current = Script[s][k] /\ Current.kind = "call"
            BY <3>2, <4>1, <5>1, <5>3 DEF Current, CallSteps
          <6>2. PICK c \in Calls : c = Script[s][k]
            BY <3>2, CallOfStep
          <6>3. Settled(c)'
            <7>1. CASE pc = "record"
              BY <2>2, <6>1, <6>2, <7>1 DEF CallInvariant
            <7>2. CASE SkipCall \/ DeferCall
              BY <6>1, <6>2, <7>2, CallSettled
            <7>3. QED
              BY <3>2, <5>1, <5>3, <6>1, <7>1, <7>2
          <6>4. QED
            BY <6>2, <6>3
        <5>4. QED
          BY <5>2, <5>3
      <4>4. QED
        BY <4>2, <4>3
    <3>3. ASSUME pc' = "record", Current'.kind = "call" PROVE Settled(Current)'
      <4>1. (pc = "record" \/ SendCall) /\ Current' = Current
        BY <2>4, <3>3, CallSent
      <4>2. PICK c : c = Current
        OBVIOUS
      <4>3. Settled(c)'
        <5>1. CASE SendCall
          BY <4>2, <5>1, CallSettled
        <5>2. CASE pc = "record"
          <6>1. stage \in Stages /\ step \in CallSteps(stage)
            BY <3>3, <4>1, <5>2, RecordPlace DEF CallSteps, Current
          <6>2. c \in Calls
            BY <4>2, <6>1, CallOfStep DEF Current
          <6>3. QED
            BY <2>2, <3>3, <4>1, <4>2, <5>2, <6>2 DEF CallInvariant
        <5>3. QED
          BY <4>1, <5>1, <5>2
      <4>4. c = Current'
        BY <4>1, <4>2
      <4>5. QED
        BY <4>3, <4>4 DEF Settled, Addressed, CallUnneeded, Effect, Deferrals, StepDescription
    <3>4. QED
      <4>1. Running' => stage' \in Stages
        BY <2>1 DEF TypeOK, RunTypeOK
      <4>2. (Running => \A k \in CallSteps(stage) : k < step => Settled(Script[stage][k]))'
        BY <4>1, <3>2 DEF CallSteps, Settled, Addressed, CallUnneeded, Effect, Deferrals,
           StepDescription
      <4>3. QED
        BY <3>1, <4>2, <3>3 DEF CallInvariant, CallSteps
  <2>5. QED
    BY <2>3, <2>4 DEF OwnersNext
<1>3. QED
  BY <1>1, <1>2

LEMMA CallsHold == OwnersSpec => []CallInvariant
<1>1. Init => CallInvariant
  <2> SUFFICES ASSUME Init PROVE CallInvariant
    OBVIOUS
  <2>1. GetLastDeploymentStage(outputs) = 0 /\ pc = "idle"
    BY DEF Init, EmptyOutputs, GetLastDeploymentStage
  <2>2. QED
    BY <2>1, ScriptAssumption DEF CallInvariant, StageAlreadyFinished, Stages
<1>2. QED
  BY <1>1, CallInvariantStep, BaseHolds, PTL DEF OwnersSpec

\* A stage that later runs skip has made every call it was to make, or left it to the
\* owners, or found it unneeded: also when the owners execute, between any two steps of
\* a run, what earlier runs deferred.
THEOREM CallsAreMade == OwnersSpec => []FinishedStagesCalled
<1>1. CallInvariant => FinishedStagesCalled
  BY DEF CallInvariant, FinishedStagesCalled, Settled
<1>2. QED
  BY <1>1, CallsHold, PTL

\* The deployer's key has no power over a manager whose stage is finished, whatever the
\* scripts and the owners did since.
THEOREM DeployerIsRetired == OwnersSpec => []DeployerRetired
<1>1. BaseInvariant /\ CallInvariant => DeployerRetired
  <2> SUFFICES ASSUME BaseInvariant, CallInvariant, NEW s \in Stages, StageAlreadyFinished(s),
                      NEW h \in Handovers(s)
               PROVE  OperatorOf(Resolve(Script[s][h].target)) = Wallet
    BY DEF DeployerRetired
  <2>1. h \in CallSteps(s) /\ Script[s][h].op = "operator"
    BY DEF Handovers
  <2>2. Script[s][h] \in Handover
    BY <2>1, CallOfStep DEF Calls, Handover
  <2>3. Settled(Script[s][h])
    BY <2>1 DEF CallInvariant
  <2>4. Script[s][h].subject = Owner
    BY <2>2, OwnerAssumption
  <2>5. QED
    BY <2>1, <2>3, <2>4, OwnerIsWallet DEF Settled, CallUnneeded
<1>2. QED
  BY <1>1, BaseHolds, CallsHold, PTL

-----------------------------------------------------------------------------
(***************************************************************************)
(* The owners can execute what was deferred.                               *)
(***************************************************************************)
ChainInvariant == ScriptedInvariant /\ AliasInvariant

LEMMA ChainInvariantStep ==
  BaseInvariant /\ ChainInvariant /\ [OwnersNext]_vars => ChainInvariant'
<1> SUFFICES ASSUME BaseInvariant, ChainInvariant, [OwnersNext]_vars PROVE ChainInvariant'
  OBVIOUS
<1> USE DEF BaseInvariant, ChainInvariant
<1>1. CASE OwnersStep
  <2>1. UNCHANGED <<outputs, chain, cache, randoms, pc, stage, step>>
    BY <1>1, ExecutedCall DEF ManagersInvariant
  <2>2. ScriptedInvariant'
    <3>1. AddressesKept /\ ContractsStay
      BY <2>1 DEF AddressesKept, ContractsStay
    <3>2. ASSUME NEW s \in Stages, NEW k \in NonCall(s), Script[s][k].kind = "deploy"
          PROVE  Matches(Script[s][k])'
      BY <2>1, <3>1, <3>2, NameOfStep, StepTypes, MatchesStays DEF ScriptedInvariant
    <3>3. pc = "save" => Deploys(Current, cache[Current.type])'
      BY <2>1 DEF ScriptedInvariant, Deploys, Current, Resolvable, SameInstance, Instance,
         ResolveAll, Resolve
    <3>4. QED
      BY <2>1, <3>2, <3>3 DEF ScriptedInvariant, NonCall, CallSteps
  <2>3. AliasInvariant'
    BY <2>1 DEF AliasInvariant, Sources, RandomsOnce, NoAliases, Placed
  <2>4. QED
    BY <2>2, <2>3
<1>2. CASE [Next]_vars
  BY <1>2, ScriptedStep, AliasStep
<1>3. QED
  BY <1>1, <1>2 DEF OwnersNext

LEMMA ChainInvariantHolds == OwnersSpec => []ChainInvariant
<1>1. Init => ChainInvariant
  BY ScriptedInit, AliasInit DEF ChainInvariant
<1>2. QED
  BY <1>1, ChainInvariantStep, BaseHolds, PTL DEF OwnersSpec

\* A call that has its addresses goes to the manager the scripts say decides about it.
LEMMA ManagerFound ==
  ASSUME BaseInvariant, ChainInvariant, NEW c \in Calls, Addressed(c), NEW name \in Names,
         Manages(name, c)
  PROVE  ManagerOf(c) = Resolve(name)
<1> USE DEF BaseInvariant, ManagersInvariant, ChainInvariant
<1>1. CASE c.op # "caller"
  BY <1>1 DEF Manages, ManagerOf
<1>2. CASE c.op = "caller"
  <2>1. /\ c.target \in Names \ KnownDependencies
        /\ \A s \in Providers(c.target) : s.kind = "deploy" /\ s.args # <<>> /\ s.args[1] = name
    BY <1>2, CallParts DEF Manages
  <2>2. Deployed(c.target) /\ outputs.addresses[c.target] # NoAddress
    BY <2>1, DeployedAddress DEF Deployed, Addressed
  <2>3. PICK d \in Providers(c.target) : TRUE
    BY <2>1, <2>2 DEF AliasInvariant, Sources
  <2>4. d \in Steps /\ d.kind = "deploy" /\ d.name = c.target /\ d.args # <<>> /\ d.args[1] = name
    BY <2>1, <2>3 DEF Providers
  <2>5. PICK s \in Stages : \E k \in DOMAIN Script[s] : d = Script[s][k]
    BY <2>4 DEF Steps
  <2>6. PICK k \in DOMAIN Script[s] : d = Script[s][k]
    BY <2>5
  <2>7. d \in DeployStep /\ Matches(d)
    BY <2>4, <2>6, StepTypes DEF ScriptedInvariant, NonCall, CallSteps
  <2>8. PICK i \in DOMAIN chain : outputs.addresses[c.target] = ContractAt(i)
    BY <2>2 DEF DeployedPlaced, Deployed
  <2>9. SameInstance(chain[i], d)
    BY <2>4, <2>7, <2>8 DEF Matches, Deploys, ContractAt
  <2>10. chain[i].args = ResolveAll(d.args)
    BY <2>9 DEF SameInstance, Instance
  <2>11. 1 \in DOMAIN d.args
    BY <2>4, <2>7 DEF DeployStep
  <2>12. chain[i].args[1] = Resolve(name)
    BY <2>4, <2>10, <2>11 DEF ResolveAll
  <2>13. Resolve(c.target) = ContractAt(i)
    BY <2>2, <2>8, DeployedAddress
  <2>14. QED
    BY <1>2, <2>12, <2>13 DEF ManagerOf, ContractAt
<1>3. QED
  BY <1>1, <1>2

\* No record waits for an authority the wallet never gets: the script that deferred the
\* call handed the manager over before its stage counted as finished.
THEOREM DeferredAreExecutable == OwnersSpec => []DeferredIsExecutable
<1>1. BaseInvariant /\ CallInvariant /\ ChainInvariant => DeferredIsExecutable
  <2> SUFFICES ASSUME BaseInvariant, CallInvariant, ChainInvariant,
                      NEW s \in Stages, StageAlreadyFinished(s), NEW k \in CallSteps(s),
                      Deferrals(Script[s][k]) # {}, Effect(Script[s][k]) \notin effects
               PROVE  Accepted(Script[s][k])
    BY DEF DeferredIsExecutable
  <2> USE DEF BaseInvariant, ManagersInvariant
  <2>1. PICK c \in Calls : c = Script[s][k]
    BY CallOfStep
  <2>2. Settled(c)
    BY <2>1 DEF CallInvariant
  <2>3. PICK n \in Pending : outputs.transactions[n].description = StepDescription(c)
    BY <2>1 DEF Deferrals, Pending
  <2>4. \E d \in Calls : d.deferrable /\ StepDescription(d) = StepDescription(c)
    BY <2>3 DEF DeferredAreCalls
  <2>5. PICK h \in Handovers(s) : Manages(Script[s][h].target, c)
    BY <2>1, <2>4, DeferrableAssumption
  <2>6. h \in CallSteps(s) /\ Script[s][h].op = "operator"
    BY <2>5 DEF Handovers
  <2>7. PICK g \in Handover : g = Script[s][h]
    BY <2>6, CallOfStep DEF Calls, Handover
  <2>8. g \in Calls /\ g.op = "operator" /\ Settled(g)
    BY <2>6, <2>7, CallOfStep DEF CallInvariant
  <2>9. OperatorOf(Resolve(g.target)) = Wallet
    BY <2>7, <2>8, SubjectIsWallet DEF Settled, CallUnneeded
  <2>10. ManagerOf(c) = Resolve(g.target)
    BY <2>2, <2>5, <2>7, <2>8, CallParts, ManagerFound DEF Settled
  <2>11. QED
    BY <2>1, <2>2, <2>9, <2>10 DEF Accepted, Settled
<1>2. QED
  BY <1>1, BaseHolds, CallsHold, ChainInvariantHolds, PTL

-----------------------------------------------------------------------------
(***************************************************************************)
(* A manager is handed over last.                                          *)
(***************************************************************************)
\* Whoever operates contract i instead of the deployer got it from a script that had
\* settled every call before.
GivenAway(i) ==
  \E s \in Stages : \E h \in Handovers(s) :
    /\ Resolve(Script[s][h].target) = ContractAt(i)
    /\ \A k \in CallSteps(s) : k < h => Settled(Script[s][k])

HandedInvariant ==
  tornWrites = 0 => \A i \in DOMAIN chain : chain[i].operator # Deployer => GivenAway(i)

LEMMA HandoverParts ==
  ASSUME NEW s \in Stages, NEW h \in Handovers(s)
  PROVE  h \in CallSteps(s) /\ Script[s][h] \in Handover /\ Script[s][h] \in Calls
<1>1. h \in CallSteps(s) /\ Script[s][h].op = "operator"
  BY DEF Handovers
<1>2. QED
  BY <1>1, CallOfStep DEF Handover, Calls

LEMMA HandedStep ==
  ASSUME BaseInvariant, CallInvariant, HandedInvariant, [OwnersNext]_vars
  PROVE  HandedInvariant'
<1> USE DEF BaseInvariant, ManagersInvariant
<1> SUFFICES ASSUME tornWrites' = 0, NEW i \in DOMAIN chain', chain'[i].operator # Deployer
             PROVE  GivenAway(i)'
  BY DEF HandedInvariant
<1>1. ~TearWrite
  BY DEF TearWrite, TypeOK, BoundsOK
<1>2. tornWrites = 0
  <2>1. CASE OwnersStep
    BY <2>1, ExecutedCall DEF environment
  <2>2. CASE [Next]_vars
    BY <1>1, <2>2, NotTorn
  <2>3. QED
    BY <2>1, <2>2 DEF OwnersNext
<1>3. Persists /\ BaseInvariant'
  BY <1>1, PersistsStep, BaseStep
<1>4. ASSUME NEW s \in Stages, NEW h \in Handovers(s),
             Resolve(Script[s][h].target) = ContractAt(i),
             \A k \in CallSteps(s) : k < h => Settled(Script[s][k])
      PROVE  GivenAway(i)'
  <2>1. Resolve(Script[s][h].target)' = ContractAt(i)
    <3>1. Script[s][h].target \in Argument /\ ContractAt(i) # NoAddress
      BY HandoverParts, CallParts, ContractIsAddress
    <3>2. QED
      BY <1>3, <1>4, <3>1, ResolveStays DEF Persists
  <2>2. \A k \in CallSteps(s) : k < h => Settled(Script[s][k])'
    BY <1>3, <1>4, CallOfStep, SettledStays
  <2>3. QED
    BY <2>1, <2>2 DEF GivenAway, Handovers, CallSteps
<1>5. CASE i \in DOMAIN chain /\ chain[i].operator # Deployer
  <2>1. GivenAway(i)
    BY <1>2, <1>5 DEF HandedInvariant
  <2>2. PICK s \in Stages : \E h \in Handovers(s) :
          /\ Resolve(Script[s][h].target) = ContractAt(i)
          /\ \A k \in CallSteps(s) : k < h => Settled(Script[s][k])
    BY <2>1 DEF GivenAway
  <2>3. QED
    BY <1>4, <2>2
<1>6. CASE i \notin DOMAIN chain
  <2>1. [Next]_vars
    BY <1>6, ExecutedCall DEF OwnersNext
  <2>2. CreateContract
    BY <1>6, <2>1, ChainStep
  <2>3. QED
    BY <1>6, <2>2, CreatedContract
<1>7. CASE i \in DOMAIN chain /\ chain[i].operator = Deployer
  <2>1. [Next]_vars
    BY <1>7, ExecutedCall DEF OwnersNext
  <2>2. SendCall
    BY <1>7, <2>1, CreatedContract DEF Next, Progress, Interruption, StartRun, PassRetiredStage,
       SkipFinishedStage, PrepareDeployment, FinishStage, EndRun, SkipRecordedName, ReuseContract,
       SaveDeployment, WriteContractAddress, WriteMockAddress, RecordTransaction, SkipCall,
       DeferCall, Abort, Crash, TearWrite, FreshCheckout, vars, world
  <2>3. /\ Current \in Calls /\ Addressed(Current) /\ stage \in Stages
        /\ step \in CallSteps(stage) /\ Running
    BY <2>2, CurrentCall DEF SendCall
  <2>4. Current.op = "operator" /\ i = Resolve(Current.target)[2]
    BY <1>7, <2>2, OperatorAfterCall
  <2>5. step \in Handovers(stage) /\ Current \in Handover
    BY <2>3, <2>4 DEF Handovers, Handover, Calls, Current
  <2>6. Resolve(Current.target) = ContractAt(i)
    BY <2>3, <2>4, <2>5, ManagerPlace DEF ContractAt, Addressed
  <2>7. \A k \in CallSteps(stage) : k < step => Settled(Script[stage][k])
    BY <2>3 DEF CallInvariant
  <2>8. QED
    BY <1>4, <2>3, <2>5, <2>6, <2>7 DEF Current
<1>8. QED
  BY <1>5, <1>6, <1>7

\* setOperator is the last call of a script for a reason: once the deployer has lost a
\* manager, every other call to it has been made or waits on the list, however often the
\* runs were cut short in between.
THEOREM ManagersAreHandedOverLast == DeploymentsDiffer => (OwnersSpec => []HandedOverLast)
<1> SUFFICES ASSUME DeploymentsDiffer PROVE OwnersSpec => []HandedOverLast
  OBVIOUS
<1>1. Init => HandedInvariant
  BY DEF Init, HandedInvariant
<1>2. BaseInvariant /\ ChainInvariant /\ HandedInvariant => HandedOverLast
  <2> SUFFICES ASSUME BaseInvariant, ChainInvariant, HandedInvariant, tornWrites = 0,
                      NEW s \in Stages, NEW h \in Handovers(s),
                      Resolve(Script[s][h].target)[1] = "contract",
                      OperatorOf(Resolve(Script[s][h].target)) # Deployer,
                      NEW k \in CallSteps(s), k < h
               PROVE  Effect(Script[s][k]) \in effects \/ Deferrals(Script[s][k]) # {}
    BY DEF HandedOverLast
  <2> USE DEF BaseInvariant, ManagersInvariant, ChainInvariant
  <2>1. PICK m \in Handover : m = Script[s][h]
    BY HandoverParts
  <2>2. Resolve(m.target) # NoAddress
    <3>1. NoAddress[1] # "contract"
      BY DEF NoAddress
    <3>2. QED
      BY <2>1, <3>1
  <2>3. PICK i \in DOMAIN chain : /\ Resolve(m.target) = ContractAt(i)
                                  /\ OperatorOf(Resolve(m.target)) = chain[i].operator
    BY <2>2, ManagerPlace
  <2>4. GivenAway(i)
    BY <2>1, <2>3 DEF HandedInvariant
  <2>5. PICK t \in Stages : \E g \in Handovers(t) :
          /\ Resolve(Script[t][g].target) = ContractAt(i)
          /\ \A j \in CallSteps(t) : j < g => Settled(Script[t][j])
    BY <2>4 DEF GivenAway
  <2>6. PICK g \in Handovers(t) :
          /\ Resolve(Script[t][g].target) = ContractAt(i)
          /\ \A j \in CallSteps(t) : j < g => Settled(Script[t][j])
    BY <2>5
  <2>7. Script[t][g].target = m.target
    <3>1. Deployed(Script[t][g].target) /\ Deployed(m.target)
      BY HandoverParts, ManagerIsDeployed
    <3>2. /\ outputs.addresses[Script[t][g].target] = ContractAt(i)
          /\ outputs.addresses[m.target] = ContractAt(i)
      BY <2>3, <2>6, <3>1, DeployedAddress
    <3>3. Script[t][g].target \in Placed /\ m.target \in Placed
      BY <3>1, <3>2 DEF Placed, Deployed, ContractAt
    <3>4. QED
      BY <3>2, <3>3 DEF AliasInvariant, NoAliases
  <2>8. t = s /\ g = h
    BY <2>1, <2>7, HandedOverOnceAssumption
  <2>9. Settled(Script[s][k]) /\ Script[s][k].op \in {"adapter", "caller"}
    BY <2>6, <2>8, HandedOverOnceAssumption
  <2>10. QED
    BY <2>9 DEF Settled, CallUnneeded
<1>3. QED
  BY <1>1, <1>2, HandedStep, BaseHolds, CallsHold, ChainInvariantHolds, PTL DEF OwnersSpec

-----------------------------------------------------------------------------
(***************************************************************************)
(* A call is deferred once more for an interruption at most.               *)
(***************************************************************************)
\* What the scripts provide before the step of a run has an address.
LEMMA FoundHasAddress ==
  ASSUME TypeOK, RunInvariant, Running, NEW name, Found(name, stage, step)
  PROVE  Resolve(name) # NoAddress
<1>1. CASE name = "deployer"
  BY <1>1, DeployerIsAddress DEF Resolve
<1>2. CASE name \in KnownDependencies
  BY <1>2, KnownIsAddress, NamesAssumption DEF Resolve, FindDependency, Tags
<1>3. CASE name \notin KnownDependencies /\ name # "deployer"
  <2>1. PICK t \in Stages : \E j \in NonCall(t) :
               Script[t][j].name = name /\ (t < stage \/ (t = stage /\ j < step))
    BY <1>3 DEF Found, NonCall
  <2>2. PICK j \in NonCall(t) :
               Script[t][j].name = name /\ (t < stage \/ (t = stage /\ j < step))
    BY <2>1
  <2>3. Recorded(Script[t][j])
    BY <2>2, RunHasReached DEF Reached
  <2>4. outputs.addresses[name] # NoAddress
    BY <1>3, <2>2, <2>3 DEF Recorded, FindDependency, GetContractAddress
  <2>5. QED
    BY <1>3, <2>4 DEF Resolve, FindDependency, GetContractAddress
<1>4. QED
  BY <1>1, <1>2, <1>3

\* Step k of stage s is behind the run, and every later run passes over it.
Passed(s, k) == StageAlreadyFinished(s) \/ (Running /\ stage = s /\ k < step)

DeferralInvariant ==
  \A s \in Stages : \A k \in CallSteps(s) :
    Cardinality(Deferrals(Script[s][k])) <= crashes + (IF Passed(s, k) THEN 1 ELSE 0)

LEMMA DeferralsFinite ==
  ASSUME TypeOK, NEW c
  PROVE  IsFiniteSet(Deferrals(c)) /\ Cardinality(Deferrals(c)) \in Nat
<1>1. IsFiniteSet(DOMAIN outputs.transactions)
  BY DocumentParts DEF TypeOK, WorldTypeOK, IsTransactionLog
<1>2. Deferrals(c) \in SUBSET DOMAIN outputs.transactions
  BY DEF Deferrals
<1>3. QED
  BY <1>1, <1>2, FS_Subset, FS_CardinalityType

\* A step adds one record to the deferrals of the call it is at, and none to others.
LEMMA DeferralSteps ==
  ASSUME TypeOK, RunInvariant, [Next]_vars, NEW c \in Calls
  PROVE  \/ Deferrals(c)' \subseteq Deferrals(c)
         \/ /\ DeferCall /\ StepDescription(Current) = StepDescription(c)
            /\ \E key : Deferrals(c)' \subseteq Deferrals(c) \cup {key}
<1>1. StepDescription(c) = <<c.op, c.target, c.subject>> /\ c.kind = "call"
  BY CallParts DEF StepDescription
<1>2. Deferrals(c)' = {k \in DOMAIN outputs'.transactions :
                        /\ outputs'.transactions[k].deferred
                        /\ outputs'.transactions[k].description = <<c.op, c.target, c.subject>>}
  BY <1>1 DEF Deferrals, StepDescription
<1>3. Deferrals(c) = {k \in DOMAIN outputs.transactions :
                       /\ outputs.transactions[k].deferred
                       /\ outputs.transactions[k].description = <<c.op, c.target, c.subject>>}
  BY <1>1 DEF Deferrals
<1>4. CASE outputs'.transactions = outputs.transactions
  BY <1>2, <1>3, <1>4
<1>5. CASE outputs'.transactions = <<>>
  BY <1>2, <1>5
<1>6. ASSUME NEW tx \in Transaction,
             \A k \in DOMAIN outputs'.transactions :
               \/ outputs'.transactions[k] = tx
               \/ /\ k \in DOMAIN outputs.transactions
                  /\ outputs'.transactions[k] = outputs.transactions[k],
             tx.deferred <=> DeferCall, tx.description = StepDescription(Current),
             ~(DeferCall /\ StepDescription(Current) = StepDescription(c))
      PROVE  Deferrals(c)' \subseteq Deferrals(c)
  <2> SUFFICES ASSUME NEW k \in Deferrals(c)' PROVE k \in Deferrals(c)
    OBVIOUS
  <2>1. /\ k \in DOMAIN outputs'.transactions
        /\ outputs'.transactions[k].deferred
        /\ outputs'.transactions[k].description = StepDescription(c)
    BY <1>1, <1>2
  <2>2. CASE outputs'.transactions[k] = tx
    BY <1>6, <2>1, <2>2, Zenon
  <2>3. CASE k \in DOMAIN outputs.transactions /\ outputs'.transactions[k] = outputs.transactions[k]
    BY <1>1, <1>3, <2>1, <2>3
  <2>4. QED
    BY <1>6, <2>1, <2>2, <2>3
<1>7. ASSUME DeferCall, StepDescription(Current) = StepDescription(c)
      PROVE  \E key : Deferrals(c)' \subseteq Deferrals(c) \cup {key}
  <2>1. PICK tx : outputs' = AddTransaction(outputs, tx)
    BY <1>7 DEF DeferCall, SaveDeferredTransaction
  <2>2. PICK key : \A k \in DOMAIN outputs'.transactions :
               \/ k = key
               \/ /\ k \in DOMAIN outputs.transactions
                  /\ outputs'.transactions[k] = outputs.transactions[k]
    BY <2>1, AddedKey DEF TypeOK, WorldTypeOK
  <2>3. QED
    BY <1>2, <1>3, <2>2
<1>8. QED
  BY <1>4, <1>5, <1>6, <1>7, RecordSteps

\* A call that may have been deferred is one after which the script does not throw ...
LEMMA NoAbort ==
  ASSUME NothingFailsAfterDeferral, TypeOK, RunInvariant, Abort,
         NEW k \in CallSteps(stage), k < step
  PROVE  ~Script[stage][k].deferrable
<1> SUFFICES ASSUME Script[stage][k].deferrable PROVE FALSE
  OBVIOUS
<1>1. Running /\ stage \in Stages /\ step \in DOMAIN Script[stage] /\ step \in Nat
  BY AtStepPlace, ScriptLength DEF Abort, AtStep, Running
<1>2. k \in Nat /\ step > k
  BY <1>1, ScriptLength DEF CallSteps
<1>3. /\ Current.kind = "deploy" => \A i \in DOMAIN Current.args : Found(Current.args[i], stage, step)
      /\ Current.kind = "call" => /\ Current.deferrable \/ Current.op = "transfer"
                                  /\ Found(Current.target, stage, step)
                                  /\ Found(Current.subject, stage, step)
  BY <1>1, <1>2 DEF NothingFailsAfterDeferral, Current
<1>4. CASE AtStep("deploy") /\ ~Resolvable(Current)
  BY <1>1, <1>3, <1>4, FoundHasAddress DEF AtStep, Resolvable
<1>5. CASE AtStep("call") /\ (CallReady => Refused(Current))
  <2>1. CallReady
    BY <1>1, <1>3, <1>5, FoundHasAddress DEF AtStep, CallReady
  <2>2. ~Refused(Current)
    BY <1>3, <1>5 DEF AtStep, Refused, HasAuthority
  <2>3. QED
    BY <1>5, <2>1, <2>2
<1>6. QED
  BY <1>4, <1>5 DEF Abort

\* ... so only a crash, or the loss of the file, makes a run meet it again.
LEMMA PassedStays ==
  ASSUME TypeOK, RunInvariant, [Next]_vars, ~Crash, ~TearWrite, ~Abort,
         NEW s \in Stages, NEW k \in CallSteps(s), Passed(s, k)
  PROVE  Passed(s, k)'
<1>1. GetLastDeploymentStage(outputs') >= GetLastDeploymentStage(outputs)
      /\ GetLastDeploymentStage(outputs) \in Nat /\ GetLastDeploymentStage(outputs') \in Nat
  BY NotTorn, GrowthStep, TypeStep, DocumentParts
     DEF Grows, StageKept, GetLastDeploymentStage, TypeOK, WorldTypeOK
<1>2. s \in Nat /\ k \in Nat
  BY ScriptLength, ScriptAssumption DEF CallSteps, Stages
<1>3. CASE StageAlreadyFinished(s)
  BY <1>1, <1>2, <1>3 DEF Passed, StageAlreadyFinished
<1>4. CASE Running /\ stage = s /\ k < step
  <2>1. CASE FinishStage
    <3>1. GetLastDeploymentStage(outputs') = stage + 1
      BY <1>2, <1>4, <2>1, WriteStageKeeps
         DEF FinishStage, GetLastDeploymentStage, TypeOK, WorldTypeOK
    <3>2. QED
      BY <1>2, <1>4, <3>1 DEF Passed, StageAlreadyFinished
  <2>2. CASE ~FinishStage
    <3>1. pc \notin {"idle", "stage"} /\ step \in Nat
      BY <1>4 DEF TypeOK, RunTypeOK
    <3>2. Running' /\ ~PrepareDeployment
      BY <1>4, <2>2, <3>1 DEF Next, Progress, Interruption, StartRun, PassRetiredStage,
         SkipFinishedStage, PrepareDeployment, Preparing, AtStage, EndRun, SkipRecordedName,
         CreateContract, ReuseContract, SaveDeployment, WriteContractAddress, WriteMockAddress,
         RecordTransaction, SkipCall, DeferCall, SendCall, FreshCheckout, NextStep, vars
    <3>3. stage' = stage /\ step' \in {step, step + 1}
      BY <3>2, RunMoves
    <3>4. QED
      BY <1>2, <1>4, <3>1, <3>2, <3>3 DEF Passed
  <2>3. QED
    BY <2>1, <2>2
<1>5. QED
  BY <1>3, <1>4 DEF Passed

LEMMA DeferralStep ==
  ASSUME CallsOnce, NothingFailsAfterDeferral, BaseInvariant, DeferralInvariant, [Next]_vars
  PROVE  DeferralInvariant'
<1> USE DEF BaseInvariant, ManagersInvariant
<1> SUFFICES ASSUME NEW s \in Stages, NEW k \in CallSteps(s), NEW c \in Calls, c = Script[s][k]
             PROVE  Cardinality(Deferrals(c)') <= crashes' + (IF Passed(s, k)' THEN 1 ELSE 0)
  BY CallOfStep DEF DeferralInvariant, CallSteps
<1> DEFINE n == Cardinality(Deferrals(c))
           m == Cardinality(Deferrals(c)')
<1>1. TypeOK' /\ IsFiniteSet(Deferrals(c)) /\ n \in Nat /\ crashes \in Nat /\ crashes' \in Nat
  BY TypeStep, DeferralsFinite, BoundAssumption DEF TypeOK, BoundsOK
<1>2. n <= crashes + (IF Passed(s, k) THEN 1 ELSE 0)
  BY DEF DeferralInvariant
<1>3. ASSUME Deferrals(c)' \subseteq Deferrals(c) PROVE m <= n /\ m \in Nat
  BY <1>1, <1>3, FS_Subset, FS_CardinalityType
<1>4. crashes' = IF Crash THEN crashes + 1 ELSE crashes
  BY DEF Next, Progress, Interruption, StartRun, PassRetiredStage, SkipFinishedStage,
     PrepareDeployment, FinishStage, EndRun, SkipRecordedName, CreateContract, ReuseContract,
     SaveDeployment, WriteContractAddress, WriteMockAddress, RecordTransaction, SkipCall,
     DeferCall, SendCall, Abort, Crash, TearWrite, FreshCheckout, vars, environment
<1> HIDE DEF n, m
<1>5. CASE DeferCall /\ StepDescription(Current) = StepDescription(c)
  <2>1. stage \in Stages /\ step \in CallSteps(stage) /\ pc = "step"
    BY <1>5, CurrentCall DEF DeferCall
  <2>2. stage = s /\ step = k
    BY <1>5, <2>1 DEF CallsOnce, Current
  <2>3. ~Passed(s, k)
    BY <2>1, <2>2, ScriptLength, ScriptAssumption
       DEF Passed, RunInvariant, CurrentStageOpen, StageAlreadyFinished, CallSteps, Stages,
           GetLastDeploymentStage, TypeOK, WorldTypeOK, IsDocument
  <2>4. Passed(s, k)'
    <3>1. Running' /\ stage' = stage /\ step' = step + 1 /\ step \in Nat
      BY <1>5, <2>1, ScriptLength DEF DeferCall, NextStep, CallSteps
    <3>2. QED
      BY <2>2, <3>1 DEF Passed
  <2>5. m <= n + 1 /\ m \in Nat
    <3>1. PICK key : Deferrals(c)' \subseteq Deferrals(c) \cup {key}
      <4>1. CASE Deferrals(c)' \subseteq Deferrals(c)
        BY <4>1
      <4>2. QED
        BY <4>1, DeferralSteps
    <3>2. QED
      BY <1>1, <3>1, OneMore DEF m, n
  <2>6. ~Crash
    BY <1>5, <2>1 DEF DeferCall, NextStep, Crash, Stop
  <2>7. QED
    BY <1>1, <1>2, <1>4, <2>3, <2>4, <2>5, <2>6 DEF m
<1>6. CASE ~(DeferCall /\ StepDescription(Current) = StepDescription(c))
  <2>1. m <= n /\ m \in Nat
    BY <1>3, <1>6, DeferralSteps
  <2>2. CASE Crash
    BY <1>1, <1>2, <1>4, <2>1, <2>2 DEF m
  <2>3. CASE TearWrite
    <3>1. Deferrals(c)' = {}
      BY <2>3 DEF TearWrite, EmptyOutputs, Deferrals
    <3>2. m = 0
      BY <3>1, FS_EmptySet DEF m
    <3>3. m <= crashes'
      BY <1>1, <3>2
    <3>4. QED
      BY <1>1, <2>1, <3>3 DEF m
  <2>4. CASE Abort /\ ~Crash /\ ~TearWrite
    <3>1. CASE n = 0
      BY <1>1, <1>4, <2>1, <2>4, <3>1 DEF m
    <3>2. CASE n # 0
      <4>1. c.deferrable
        <5>1. Deferrals(c) # {}
          BY <3>2, FS_EmptySet DEF n
        <5>2. PICK i \in Pending : outputs.transactions[i].description = StepDescription(c)
          BY <5>1 DEF Deferrals, Pending
        <5>3. PICK d \in Calls : StepDescription(d) = StepDescription(c) /\ d.deferrable
          BY <5>2 DEF DeferredAreCalls
        <5>4. PICK t \in Stages : \E j \in CallSteps(t) : d = Script[t][j]
          BY DEF Calls, Steps, CallSteps
        <5>5. PICK j \in CallSteps(t) : d = Script[t][j]
          BY <5>4
        <5>6. t = s /\ j = k
          BY <5>3, <5>5 DEF CallsOnce
        <5>7. QED
          BY <5>3, <5>5, <5>6
      <4>2. ~(Running /\ stage = s /\ k < step)
        BY <2>4, <4>1, NoAbort
      <4>3. CASE Passed(s, k)
        <5>1. StageAlreadyFinished(s) /\ outputs' = outputs
          BY <2>4, <4>2, <4>3 DEF Passed, Abort
        <5>2. Passed(s, k)'
          BY <5>1 DEF Passed, StageAlreadyFinished
        <5>3. QED
          BY <1>1, <1>2, <1>4, <2>1, <2>4, <5>2 DEF m
      <4>4. CASE ~Passed(s, k)
        BY <1>1, <1>2, <1>4, <2>1, <2>4, <4>4 DEF m
      <4>5. QED
        BY <4>3, <4>4
    <3>3. QED
      BY <3>1, <3>2
  <2>5. CASE ~Crash /\ ~TearWrite /\ ~Abort
    <3>1. Passed(s, k) => Passed(s, k)'
      BY <2>5, PassedStays
    <3>2. QED
      BY <1>1, <1>2, <1>4, <2>1, <2>5, <3>1 DEF m
  <2>6. QED
    BY <2>2, <2>3, <2>4, <2>5
<1>7. QED
  BY <1>5, <1>6

\* A stage that is run again defers its calls again, but never more often than runs were
\* cut short: a call is behind the run that has deferred it, until that run is interrupted.
THEOREM DeferralsAreBounded ==
  (CallsOnce /\ NothingFailsAfterDeferral) => (OwnersSpec => []DeferralsBounded)
<1> SUFFICES ASSUME CallsOnce, NothingFailsAfterDeferral PROVE OwnersSpec => []DeferralsBounded
  OBVIOUS
<1>1. Init => DeferralInvariant
  <2> SUFFICES ASSUME Init, NEW s \in Stages, NEW k \in CallSteps(s)
               PROVE  Cardinality(Deferrals(Script[s][k])) <=
                        crashes + (IF Passed(s, k) THEN 1 ELSE 0)
    BY DEF DeferralInvariant
  <2>1. Deferrals(Script[s][k]) = {} /\ crashes = 0
    BY DEF Init, EmptyOutputs, Deferrals
  <2>2. QED
    BY <2>1, FS_EmptySet
<1>2. BaseInvariant /\ DeferralInvariant /\ [OwnersNext]_vars => DeferralInvariant'
  <2> SUFFICES ASSUME BaseInvariant, DeferralInvariant, [OwnersNext]_vars PROVE DeferralInvariant'
    OBVIOUS
  <2>1. CASE [Next]_vars
    BY <2>1, DeferralStep
  <2>2. CASE OwnersStep
    <3>1. UNCHANGED <<outputs, pc, stage, step, crashes>>
      BY <2>2 DEF OwnersStep, Execute, environment
    <3>2. QED
      BY <3>1 DEF DeferralInvariant, Deferrals, StepDescription, Passed, StageAlreadyFinished,
         CallSteps
  <2>3. QED
    BY <2>1, <2>2 DEF OwnersNext
<1>3. BaseInvariant /\ DeferralInvariant => DeferralsBounded
  <2> SUFFICES ASSUME BaseInvariant, DeferralInvariant, NEW c \in Steps, c.kind = "call"
               PROVE  Cardinality(Deferrals(c)) <= 1 + crashes
    BY DEF DeferralsBounded
  <2>1. PICK s \in Stages : \E k \in CallSteps(s) : c = Script[s][k]
    BY DEF Steps, CallSteps
  <2>2. PICK k \in CallSteps(s) : c = Script[s][k]
    BY <2>1
  <2>3. Cardinality(Deferrals(c)) \in Nat /\ crashes \in Nat
    BY DeferralsFinite, BoundAssumption DEF BaseInvariant, TypeOK, BoundsOK
  <2>4. Cardinality(Deferrals(c)) <= crashes + (IF Passed(s, k) THEN 1 ELSE 0)
    BY <2>2 DEF DeferralInvariant
  <2>5. QED
    BY <2>3, <2>4
<1>4. QED
  BY <1>1, <1>2, <1>3, BaseHolds, PTL DEF OwnersSpec

-----------------------------------------------------------------------------
(***************************************************************************)
(* What the owners' tool tells them.                                       *)
(***************************************************************************)
LEMMA TxIsOwners == TxSpec => OwnersSpec
<1>1. TxInit => Init
  BY DEF TxInit
<1>2. [TxNext]_txVars => [OwnersNext]_vars
  BY DEF TxNext, OpenConsole, txVars
<1>3. QED
  BY <1>1, <1>2, PTL DEF TxSpec, OwnersSpec

LEMMA ListedCall ==
  ASSUME BaseInvariant, NEW number \in Listed
  PROVE  \E c \in Calls : /\ CallOf(outputs.transactions[number]).op = c.op
                          /\ CallOf(outputs.transactions[number]).target = c.target
                          /\ CallOf(outputs.transactions[number]).subject = c.subject
                          /\ c.deferrable /\ c.op # "operator" /\ Addressed(c)
<1>1. PICK c \in Calls : /\ outputs.transactions[number].description = StepDescription(c)
                         /\ c.deferrable /\ c.op # "operator" /\ Addressed(c)
  BY DEF Listed, BaseInvariant, ManagersInvariant, DeferredAreCalls
<1>2. outputs.transactions[number].description = <<c.op, c.target, c.subject>>
  BY <1>1, CallParts DEF StepDescription
<1>3. QED
  BY <1>1, <1>2 DEF CallOf

\* Comparing calldata is enough, though the contract it goes to is not compared: two
\* calls with one calldata are for one manager, because no two managers are given one
\* extension and no two extensions have one address.
THEOREM ComparisonIsSound == DeploymentsDiffer => (TxSpec => []CompareIsSound)
<1> SUFFICES ASSUME DeploymentsDiffer PROVE TxSpec => []CompareIsSound
  OBVIOUS
<1>1. BaseInvariant /\ ChainInvariant => CompareIsSound
  <2> SUFFICES ASSUME BaseInvariant, ChainInvariant, NEW number \in Listed, NEW call \in Calls,
                      Addressed(call), Compare(number, WalletTransaction(call)) = "OK"
               PROVE  Resolve(CallOf(outputs.transactions[number]).target) = Resolve(call.target)
    BY DEF CompareIsSound, Calls
  <2> DEFINE listed == CallOf(outputs.transactions[number])
             input == WalletTransaction(call)
  <2>1. Data(listed) \in Extracted(input)
    BY DEF Compare
  <2>2. Data(listed) = Data(call)
    BY <2>1 DEF Extracted, WalletTransaction
  <2>3. PICK c \in Calls : /\ listed.op = c.op /\ listed.target = c.target
                           /\ listed.subject = c.subject
                           /\ c.deferrable /\ c.op # "operator" /\ Addressed(c)
    BY ListedCall
  <2> HIDE DEF listed, input
  <2>4. c.op = call.op /\ Resolve(c.subject) = Resolve(call.subject)
    BY <2>2, <2>3 DEF Data
  <2>5. ~Apart(c.subject, call.subject)
    BY <2>3, <2>4, ApartAddresses DEF BaseInvariant, ChainInvariant, Addressed
  <2>6. c.target = call.target
    BY <2>3, <2>4, <2>5, SubjectAssumption
  <2>7. QED
    BY <2>3, <2>6 DEF listed
<1>2. QED
  BY <1>1, TxIsOwners, BaseHolds, ChainInvariantHolds, PTL

\* The contract the ledger has under the name of an artifact was created from it.
LEMMA ArtifactOf ==
  ASSUME ArtifactsNamed, BaseInvariant, ChainInvariant, NEW n \in Names, n \in Types,
         outputs.addresses[n][1] = "contract"
  PROVE  chain[outputs.addresses[n][2]].type = n
<1>1. PICK d \in Providers(n) : d.kind = "deploy"
  <2>1. NoAddress[1] # "contract" /\ Deployer[1] # "contract"
        /\ \A i : RandomAddress(i)[1] # "contract"
    BY DEF NoAddress, Deployer, RandomAddress
  <2>2. QED
    BY <2>1 DEF ChainInvariant, AliasInvariant, Sources
<1>2. d \in Steps /\ d.name = n
  BY DEF Providers
<1>3. PICK s \in Stages : \E k \in DOMAIN Script[s] : d = Script[s][k]
  BY <1>2 DEF Steps
<1>4. PICK k \in DOMAIN Script[s] : d = Script[s][k]
  BY <1>3
<1>5. Matches(d)
  BY <1>1, <1>4 DEF ChainInvariant, ScriptedInvariant, NonCall, CallSteps
<1>6. SameInstance(chain[outputs.addresses[n][2]], d)
  BY <1>2, <1>5 DEF Matches, Deploys
<1>7. d.type = n
  BY <1>1, <1>2 DEF ArtifactsNamed
<1>8. QED
  BY <1>6, <1>7 DEF SameInstance, Instance

\* A transaction is decoded with the ABI of the contract it was sent to: an address has
\* one name, and the names the tool takes for types are those of contracts of the type.
THEOREM DecodedWithTheRightABI ==
  (DeploymentsDiffer /\ ArtifactsNamed) => (TxSpec => []DecodedTruly)
<1> SUFFICES ASSUME DeploymentsDiffer, ArtifactsNamed PROVE TxSpec => []DecodedTruly
  OBVIOUS
<1>1. BaseInvariant /\ ChainInvariant => DecodedTruly
  <2> SUFFICES ASSUME BaseInvariant, ChainInvariant PROVE DecodedTruly
    OBVIOUS
  <2> USE DEF BaseInvariant, ManagersInvariant
  <2>1. ASSUME NEW n \in Placed, NEW d \in Decoders(outputs.addresses, outputs.addresses[n])
        PROVE  d = n /\ chain[outputs.addresses[n][2]].type = n
    <3>1. d \in Names /\ d \in Types /\ d \in Placed /\ outputs.addresses[d] = outputs.addresses[n]
      BY DEF Decoders, Placed
    <3>2. d = n
      BY <3>1 DEF ChainInvariant, AliasInvariant, NoAliases
    <3>3. QED
      BY <3>1, <3>2, ArtifactOf DEF Placed
  <2>2. ASSUME NEW number \in Listed, View(number) = "shown",
               NEW target, target = CallOf(outputs.transactions[number]).target
        PROVE  chain[Resolve(target)[2]].type = target
    <3>1. target \in Types
      BY <2>2 DEF View
    <3>2. PICK c \in Calls : /\ target = c.target /\ c.deferrable /\ c.op # "operator"
                             /\ Addressed(c)
      BY <2>2, ListedCall
    <3>3. Deployed(target)
      <4>1. PICK s \in Stages : \E k \in DOMAIN Script[s] : c = Script[s][k]
        BY DEF Calls, Steps
      <4>2. PICK k \in DOMAIN Script[s] : c = Script[s][k]
        BY <4>1
      <4>3. k \in CallSteps(s)
        BY <4>2 DEF CallSteps, Calls
      <4>4. PICK h \in Handovers(s) : Manages(Script[s][h].target, c)
        BY <3>2, <4>2, <4>3, DeferrableAssumption
      <4>5. Deployed(Script[s][h].target)
        BY <4>4, HandoverParts, ManagerIsDeployed
      <4>6. QED
        BY <3>2, <4>4, <4>5, CallParts DEF Manages, Deployed
    <3>4. PICK i \in DOMAIN chain : outputs.addresses[target] = ContractAt(i)
      BY <3>2, <3>3, DeployedAddress DEF DeployedPlaced, Deployed, Addressed
    <3>5. outputs.addresses[target][1] = "contract"
      BY <3>4 DEF ContractAt
    <3>6. QED
      BY <3>1, <3>3, <3>5, ArtifactOf, DeployedAddress DEF Deployed
  <2>3. QED
    BY <2>1, <2>2 DEF DecodedTruly
<1>2. QED
  BY <1>1, TxIsOwners, BaseHolds, ChainInvariantHolds, PTL

\* What an open console has read is still so.
ConsoleInvariant ==
  tornWrites = 0 => \A n \in Names : system[n] # NoAddress => outputs.addresses[n] = system[n]

LEMMA ConsoleStep ==
  ASSUME BaseInvariant, ConsoleInvariant, [TxNext]_txVars
  PROVE  ConsoleInvariant'
<1> USE DEF BaseInvariant, ManagersInvariant
<1>1. CASE OpenConsole
  BY <1>1 DEF OpenConsole, ConsoleInvariant, vars, environment
<1>2. CASE OwnersStep /\ UNCHANGED consoleVars
  BY <1>2, ExecutedCall DEF ConsoleInvariant, consoleVars, environment
<1>3. CASE [Next]_vars /\ UNCHANGED consoleVars
  <2>1. CASE TearWrite
    BY <2>1 DEF TearWrite, ConsoleInvariant, TypeOK, BoundsOK
  <2>2. CASE ~TearWrite
    <3>1. tornWrites' = tornWrites
      BY <1>3, <2>2, NotTorn
    <3>2. AddressesKept
      BY <1>3, <3>1, GrowthStep DEF Grows
    <3>3. QED
      BY <1>3, <3>1, <3>2 DEF ConsoleInvariant, AddressesKept, consoleVars
  <2>3. QED
    BY <2>1, <2>2
<1>4. QED
  BY <1>1, <1>2, <1>3 DEF TxNext, OwnersNext, txVars

\* What a console left open shows is out of date at worst: the ledger, which scripts and
\* owners have gone on with, still has every address it shows, under the same name.
THEOREM ConsoleStaysCurrent == TxSpec => []ConsoleIsCurrent
<1>1. TxInit => ConsoleInvariant
  BY DEF TxInit, Init, EmptyOutputs, ConsoleInvariant
<1>2. ConsoleInvariant => ConsoleIsCurrent
  <2> SUFFICES ASSUME ConsoleInvariant, tornWrites = 0, NEW n \in DOMAIN AllAddresses(system)
               PROVE  n \in AddressNames(outputs.addresses, AllAddresses(system)[n])
    BY DEF ConsoleIsCurrent
  <2>1. CASE n \in KnownDependencies
    BY <2>1 DEF AddressNames, AllAddresses
  <2>2. CASE n \notin KnownDependencies
    <3>1. n \in Names \ SpacedNames /\ system[n] # NoAddress
      BY <2>2 DEF AllAddresses
    <3>2. outputs.addresses[n] = system[n]
      BY <3>1 DEF ConsoleInvariant
    <3>3. QED
      BY <2>2, <3>1, <3>2 DEF AddressNames, AllAddresses
  <2>3. QED
    BY <2>1, <2>2
<1>3. QED
  BY <1>1, <1>2, ConsoleStep, TxIsOwners, BaseHolds, PTL DEF TxSpec
=============================================================================
