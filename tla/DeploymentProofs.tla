-------------------------- MODULE DeploymentProofs --------------------------
(***************************************************************************)
(* Theorems about Deployment, for every script, every set of names and     *)
(* types, every table of dependencies and any number of interruptions.     *)
(***************************************************************************)
EXTENDS Deployment, FiniteSetTheorems, TLAPS

-----------------------------------------------------------------------------
(***************************************************************************)
(* What the operations on the ledger preserve, for every document.         *)
(***************************************************************************)
\* The sets the conjuncts of IsDocument give the parts of a document.
LEMMA DocumentParts ==
  ASSUME NEW o, IsDocument(o)
  PROVE  /\ o = [state        |-> [last_deployment_stage |-> o.state.last_deployment_stage],
                 addresses    |-> o.addresses,
                 transactions |-> o.transactions]
         /\ o.state.last_deployment_stage \in Nat
         /\ o.addresses \in [Names -> Address]
         /\ IsTransactionLog(o.transactions)
BY DEF IsDocument

LEMMA DocumentOf ==
  ASSUME NEW n \in Nat, NEW a \in [Names -> Address], NEW log, IsTransactionLog(log)
  PROVE  IsDocument([state |-> [last_deployment_stage |-> n],
                     addresses |-> a, transactions |-> log])
BY DEF IsDocument

LEMMA SpecialAddresses ==
  /\ NoAddress \in Address /\ Deployer \in Address
  /\ \A i \in Nat : ContractAt(i) \in Address /\ RandomAddress(i) \in Address
  /\ \A n \in Names : KnownAddress(n) \in Address
BY DEF NoAddress, Deployer, ContractAt, RandomAddress, KnownAddress, Address, Tags

LEMMA EmptyIsDocument == IsDocument(EmptyOutputs)
<1>1. DOMAIN EmptyOutputs.transactions = {}
  BY DEF EmptyOutputs
<1>2. IsFiniteSet({}) /\ Cardinality({}) = 0
  BY FS_EmptySet
<1>3. IsTransactionLog(EmptyOutputs.transactions)
  BY <1>1, <1>2 DEF IsTransactionLog, EmptyOutputs
<1>4. QED
  BY <1>3, DocumentOf, SpecialAddresses DEF EmptyOutputs

\* getNextTransactionKey returns the first key that is free.
LEMMA NextKey ==
  ASSUME NEW o, IsTransactionLog(o.transactions)
  PROVE  /\ Cardinality(DOMAIN o.transactions) \in Nat
         /\ GetNextTransactionKey(o) = Cardinality(DOMAIN o.transactions)
<1> DEFINE keys == DOMAIN o.transactions
<1> DEFINE n == Cardinality(keys)
<1>1. IsFiniteSet(keys) /\ keys = 0..(n - 1)
  BY DEF IsTransactionLog
<1>2. n \in Nat
  BY <1>1, FS_CardinalityType
<1>3. CASE keys = {}
  <2>1. n = 0
    BY <1>3, FS_EmptySet
  <2>2. QED
    BY <1>2, <1>3, <2>1 DEF GetNextTransactionKey
<1>4. CASE keys # {}
  <2> HIDE DEF n
  <2>1. n - 1 \in keys /\ \A k \in keys : n - 1 >= k
    BY <1>1, <1>2, <1>4
  <2>2. \A k \in keys : (\A j \in keys : k >= j) => k = n - 1
    <3> HIDE DEF keys
    <3>1. QED
      BY <1>1, <1>2, <2>1
  <2>3. Max(keys) = n - 1
    BY <2>1, <2>2 DEF Max
  <2>4. GetNextTransactionKey(o) = n
    BY <1>2, <1>4, <2>3 DEF GetNextTransactionKey
  <2>5. QED
    BY <1>2, <2>4 DEF n
<1>5. QED
  BY <1>3, <1>4

\* Adding a record keeps the keys consecutive, the old records and the rest.
LEMMA AddTransactionKeeps ==
  ASSUME NEW o, IsDocument(o), NEW tx \in Transaction
  PROVE  /\ IsDocument(AddTransaction(o, tx))
         /\ AddTransaction(o, tx).state = o.state
         /\ AddTransaction(o, tx).addresses = o.addresses
         /\ \A k \in DOMAIN o.transactions :
              /\ k \in DOMAIN AddTransaction(o, tx).transactions
              /\ AddTransaction(o, tx).transactions[k] = o.transactions[k]
<1> DEFINE keys == DOMAIN o.transactions
<1> DEFINE n == Cardinality(keys)
<1> DEFINE log == [k \in keys \cup {n} |-> IF k = n THEN tx ELSE o.transactions[k]]
<1>1. IsTransactionLog(o.transactions)
  BY DocumentParts
<1>2. n \in Nat /\ GetNextTransactionKey(o) = n
  BY <1>1, NextKey
<1>3. IsFiniteSet(keys) /\ keys = 0..(n - 1) /\ o.transactions \in [keys -> Transaction]
  BY <1>1 DEF IsTransactionLog
<1>4. AddTransaction(o, tx) = [o EXCEPT !.transactions = log]
  BY <1>2 DEF AddTransaction
<1>5. AddTransaction(o, tx) = [state        |-> [last_deployment_stage |-> o.state.last_deployment_stage],
                               addresses    |-> o.addresses,
                               transactions |-> log]
  <2> HIDE DEF log
  <2>1. QED
    BY <1>4, DocumentParts
<1>6. n \notin keys
  <2> HIDE DEF n
  <2>1. QED
    BY <1>2, <1>3
<1>7. IsFiniteSet(keys \cup {n}) /\ Cardinality(keys \cup {n}) = n + 1
  BY <1>3, <1>6, FS_AddElement
<1>8. keys \cup {n} = 0..n
  <2> HIDE DEF n
  <2>1. QED
    BY <1>2, <1>3
<1>9. DOMAIN log = keys \cup {n}
  OBVIOUS
<1>10. log \in [keys \cup {n} -> Transaction]
  BY <1>3
<1>11. IsTransactionLog(log)
  <2> HIDE DEF log, n
  <2>1. n = (n + 1) - 1
    BY <1>2
  <2>2. QED
    BY <1>7, <1>8, <1>9, <1>10, <2>1 DEF IsTransactionLog
<1>12. \A k \in keys : k \in DOMAIN log /\ log[k] = o.transactions[k]
  <2> HIDE DEF n
  <2>1. QED
    BY <1>6
<1>13. IsDocument(AddTransaction(o, tx))
  <2> HIDE DEF log
  <2>1. QED
    BY <1>5, <1>11, DocumentOf, DocumentParts
<1>14. AddTransaction(o, tx).state = o.state /\ AddTransaction(o, tx).addresses = o.addresses
       /\ AddTransaction(o, tx).transactions = log
  <2> HIDE DEF log
  <2>1. QED
    BY <1>5, DocumentParts
<1>15. QED
  BY <1>12, <1>13, <1>14

\* ... and the only record it adds is the one it is given.
LEMMA AddedRecord ==
  ASSUME NEW o, IsDocument(o), NEW tx \in Transaction
  PROVE  LET log == AddTransaction(o, tx).transactions IN
         /\ \E k \in DOMAIN log : log[k] = tx
         /\ \A k \in DOMAIN log : \/ log[k] = tx
                                  \/ k \in DOMAIN o.transactions /\ log[k] = o.transactions[k]
<1> DEFINE key == GetNextTransactionKey(o)
           log == [k \in DOMAIN o.transactions \cup {key} |->
                     IF k = key THEN tx ELSE o.transactions[k]]
<1>1. AddTransaction(o, tx).transactions = log
  <2>1. AddTransaction(o, tx) = [o EXCEPT !.transactions = log]
    BY DEF AddTransaction
  <2> HIDE DEF log
  <2>2. QED
    BY <2>1, DocumentParts
<1> HIDE DEF key
<1>2. QED
  BY <1>1

\* ... under one key.
LEMMA AddedKey ==
  ASSUME NEW o, IsDocument(o), NEW tx
  PROVE  \A k \in DOMAIN AddTransaction(o, tx).transactions :
           \/ k = GetNextTransactionKey(o)
           \/ /\ k \in DOMAIN o.transactions
              /\ AddTransaction(o, tx).transactions[k] = o.transactions[k]
<1> DEFINE key == GetNextTransactionKey(o)
           log == [k \in DOMAIN o.transactions \cup {key} |->
                     IF k = key THEN tx ELSE o.transactions[k]]
<1>1. AddTransaction(o, tx).transactions = log
  <2>1. AddTransaction(o, tx) = [o EXCEPT !.transactions = log]
    BY DEF AddTransaction
  <2> HIDE DEF log
  <2>2. QED
    BY <2>1, DocumentParts
<1> HIDE DEF key
<1>2. QED
  BY <1>1 DEF key

LEMMA SetAddressKeeps ==
  ASSUME NEW o, IsDocument(o), NEW n \in Names, NEW a \in Address
  PROVE  /\ IsDocument(SetAddress(o, n, a))
         /\ SetAddress(o, n, a).state = o.state
         /\ SetAddress(o, n, a).transactions = o.transactions
         /\ SetAddress(o, n, a).addresses = [o.addresses EXCEPT ![n] = a]
<1>1. SetAddress(o, n, a) = [state        |-> [last_deployment_stage |-> o.state.last_deployment_stage],
                             addresses    |-> [o.addresses EXCEPT ![n] = a],
                             transactions |-> o.transactions]
  BY DocumentParts DEF SetAddress
<1>2. [o.addresses EXCEPT ![n] = a] \in [Names -> Address]
  BY DocumentParts
<1>3. QED
  BY <1>1, <1>2, DocumentParts, DocumentOf

LEMMA RecordTypes ==
  ASSUME NEW d \in Description, NEW a \in Address
  PROVE  /\ PlainTransaction(d) \in Transaction
         /\ DeferredTransaction(d) \in Transaction
         /\ DeploymentTransaction(d, a) \in Transaction
BY SpecialAddresses DEF PlainTransaction, DeferredTransaction, DeploymentTransaction, Transaction

LEMMA WriteStageKeeps ==
  ASSUME NEW o, IsDocument(o), NEW s \in Nat
  PROVE  /\ IsDocument(WriteStage(o, s))
         /\ GetLastDeploymentStage(WriteStage(o, s)) = s
         /\ WriteStage(o, s).transactions = o.transactions
         /\ WriteStage(o, s).addresses = o.addresses
<1>1. WriteStage(o, s) = [state        |-> [last_deployment_stage |-> s],
                          addresses    |-> o.addresses,
                          transactions |-> o.transactions]
  BY DocumentParts DEF WriteStage
<1>2. QED
  BY <1>1, DocumentParts, DocumentOf DEF GetLastDeploymentStage

\* No key of the document is called "development": removeNetwork changes nothing.
LEMMA RemoveNetworkKeeps ==
  ASSUME NEW o, IsDocument(o)
  PROVE  RemoveNetwork(o, "development") = o
<1>1. o = [k \in {"state", "addresses", "transactions"} |-> o[k]]
  BY DEF IsDocument
<1>2. DOMAIN o \ {"development"} = DOMAIN o /\ DOMAIN o = {"state", "addresses", "transactions"}
  BY DEF IsDocument
<1>3. QED
  BY <1>1, <1>2 DEF RemoveNetwork

LEMMA FindDependencyType ==
  ASSUME NEW o, IsDocument(o), NEW n \in Names
  PROVE  FindDependency(o, n) \in Address /\ GetContractAddress(o, n) \in Address
BY DocumentParts, SpecialAddresses DEF FindDependency, GetContractAddress

USE DEF Running

-----------------------------------------------------------------------------
(***************************************************************************)
(* Typing of the operators that read the state.                            *)
(***************************************************************************)
LEMMA StepTypes ==
  ASSUME NEW s \in Stages, NEW k \in DOMAIN Script[s]
  PROVE  /\ Script[s][k] \in DeployStep \cup MockStep \cup CallStep
         /\ Script[s][k].kind = "deploy" => Script[s][k] \in DeployStep
         /\ Script[s][k].kind = "mock" => Script[s][k] \in MockStep
         /\ Script[s][k].kind = "call" => Script[s][k] \in CallStep
<1>1. Script[s] \in Seq(DeployStep \cup MockStep \cup CallStep)
  BY ScriptAssumption
<1>2. Script[s][k] \in DeployStep \cup MockStep \cup CallStep
  BY <1>1
<1>3. QED
  BY <1>2 DEF DeployStep, MockStep, CallStep

LEMMA ScriptLength ==
  ASSUME NEW s \in Stages
  PROVE  Len(Script[s]) \in Nat /\ DOMAIN Script[s] = 1..Len(Script[s])
<1>1. Script[s] \in Seq(DeployStep \cup MockStep \cup CallStep)
  BY ScriptAssumption
<1>2. QED
  BY <1>1

LEMMA ResolveType ==
  ASSUME WorldTypeOK, NEW a \in Argument
  PROVE  Resolve(a) \in Address
BY FindDependencyType, SpecialAddresses DEF Resolve, WorldTypeOK, Argument

LEMMA ResolveAllType ==
  ASSUME WorldTypeOK, NEW args \in Seq(Argument)
  PROVE  ResolveAll(args) \in Seq(Address)
<1>1. ResolveAll(args) \in [1..Len(args) -> Address]
  BY ResolveType DEF ResolveAll
<1>2. Len(args) \in Nat
  OBVIOUS
<1>3. QED
  BY <1>1, <1>2

LEMMA DescriptionType ==
  ASSUME NEW s \in DeployStep \cup MockStep \cup CallStep
  PROVE  StepDescription(s) \in Description
<1>1. CASE s.kind = "call"
  <2>1. s \in CallStep
    BY <1>1 DEF DeployStep, MockStep
  <2>2. QED
    BY <1>1, <2>1 DEF StepDescription, Description, CallStep, Argument, Tags
<1>2. CASE s.kind # "call"
  <2>1. s.name \in Names
    BY <1>2 DEF DeployStep, MockStep, CallStep
  <2>2. QED
    BY <1>2, <2>1 DEF StepDescription, Description, Tags
<1>3. QED
  BY <1>1, <1>2

-----------------------------------------------------------------------------
(***************************************************************************)
(* Type correctness.                                                       *)
(***************************************************************************)
LEMMA InitType == Init => TypeOK
<1> SUFFICES ASSUME Init PROVE TypeOK
  OBVIOUS
<1>1. WorldTypeOK
  BY EmptyIsDocument DEF Init, WorldTypeOK
<1>2. RunTypeOK
  BY ScriptAssumption DEF Init, RunTypeOK
<1>3. BoundsOK
  BY BoundAssumption DEF Init, BoundsOK
<1>4. QED
  BY <1>1, <1>2, <1>3 DEF TypeOK

\* Moving on from where the run is.
LEMMA StopType == Stop => RunTypeOK'
BY ScriptAssumption DEF Stop, RunTypeOK

LEMMA ToStageType ==
  ASSUME NEW s \in Stages, ToStage(s + 1)
  PROVE  RunTypeOK'
BY ScriptAssumption DEF ToStage, RunTypeOK, Stages

LEMMA NextStepType ==
  ASSUME RunTypeOK, stage \in Stages, step \in DOMAIN Script[stage], NextStep
  PROVE  RunTypeOK'
BY ScriptLength DEF NextStep, RunTypeOK

LEMMA UnchangedBoundsType == BoundsOK /\ UNCHANGED environment => BoundsOK'
BY DEF BoundsOK, environment

LEMMA UnchangedWorldType ==
  ASSUME WorldTypeOK, UNCHANGED world, IsDocument(outputs')
  PROVE  WorldTypeOK'
BY DEF WorldTypeOK, world

LEMMA StageType ==
  ASSUME TypeOK,
         \/ StartRun \/ PassRetiredStage \/ SkipFinishedStage \/ PrepareDeployment
         \/ FinishStage \/ EndRun
  PROVE  TypeOK'
<1> USE DEF TypeOK
<1>1. CASE StartRun
  <2>1. WorldTypeOK' /\ BoundsOK'
    BY <1>1, UnchangedBoundsType, UnchangedWorldType DEF StartRun, WorldTypeOK
  <2>2. RunTypeOK'
    BY <1>1 DEF StartRun, RunTypeOK
  <2>3. QED
    BY <2>1, <2>2
<1>2. CASE PassRetiredStage
  BY <1>2, ToStageType, UnchangedBoundsType, UnchangedWorldType
     DEF PassRetiredStage, AtStage, WorldTypeOK
<1>3. CASE SkipFinishedStage
  BY <1>3, ToStageType, UnchangedBoundsType, UnchangedWorldType
     DEF SkipFinishedStage, AtStage, WorldTypeOK
<1>4. CASE PrepareDeployment
  <2>1. outputs' = outputs
    BY <1>4, RemoveNetworkKeeps DEF PrepareDeployment, WorldTypeOK
  <2>2. WorldTypeOK' /\ BoundsOK'
    BY <1>4, <2>1, UnchangedBoundsType, UnchangedWorldType DEF PrepareDeployment, WorldTypeOK
  <2>3. RunTypeOK'
    BY <1>4, ScriptLength DEF PrepareDeployment, Preparing, AtStage, RunTypeOK
  <2>4. QED
    BY <2>2, <2>3
<1>5. CASE FinishStage
  <2>1. stage \in Stages /\ stage + 1 \in Nat
    BY <1>5 DEF FinishStage, RunTypeOK, Stages
  <2>2. IsDocument(outputs')
    BY <1>5, <2>1, WriteStageKeeps DEF FinishStage, WorldTypeOK
  <2>3. QED
    BY <1>5, <2>1, <2>2, ToStageType, UnchangedBoundsType, UnchangedWorldType DEF FinishStage
<1>6. CASE EndRun
  BY <1>6, StopType, UnchangedBoundsType, UnchangedWorldType DEF EndRun, WorldTypeOK
<1>7. QED
  BY <1>1, <1>2, <1>3, <1>4, <1>5, <1>6

\* What the guards of the step actions give.
LEMMA AtStepPlace ==
  ASSUME TypeOK, NEW kind, AtStep(kind)
  PROVE  stage \in Stages /\ step \in DOMAIN Script[stage] /\ Current.kind = kind
BY DEF AtStep, TypeOK, RunTypeOK

LEMMA SavePlace ==
  ASSUME TypeOK, pc = "save"
  PROVE  /\ stage \in Stages /\ step \in DOMAIN Script[stage]
         /\ Current \in DeployStep
         /\ cache[Current.type] \in Nat \ {0}
<1>1. stage \in Stages /\ step \in DOMAIN Script[stage] /\ Current.kind = "deploy"
  BY DEF TypeOK, RunTypeOK
<1>2. Current \in DeployStep
  BY <1>1, StepTypes DEF Current
<1>3. Current.type \in Types
  BY <1>2 DEF DeployStep
<1>4. cache[Current.type] \in 0..Len(chain) /\ Len(chain) \in Nat
  BY <1>3 DEF TypeOK, WorldTypeOK
<1>5. QED
  BY <1>1, <1>2, <1>4 DEF TypeOK, RunTypeOK

LEMMA CreateContractType == ASSUME TypeOK, CreateContract PROVE TypeOK'
<1> USE DEF TypeOK
<1>1. stage \in Stages /\ step \in DOMAIN Script[stage] /\ Current.kind = "deploy"
  BY AtStepPlace DEF CreateContract
<1>2. Current \in DeployStep
  BY <1>1, StepTypes DEF Current
<1> DEFINE new == [type |-> Current.type, salt |-> Current.salt,
                   args |-> ResolveAll(Current.args), operator |-> Deployer]
<1>3. new \in Contract
  BY <1>2, ResolveAllType, SpecialAddresses DEF Contract, DeployStep
<1>4. chain' = Append(chain, new) /\ cache' = [cache EXCEPT ![Current.type] = Len(chain) + 1]
  BY DEF CreateContract
<1>5. Len(chain) \in Nat /\ chain' \in Seq(Contract) /\ Len(chain') = Len(chain) + 1
  <2> HIDE DEF new
  <2>1. QED
    BY <1>3, <1>4 DEF WorldTypeOK
<1>6. cache' \in [Types -> 0..Len(chain')]
  <2> HIDE DEF new
  <2> DEFINE longer == Len(chain) + 1
  <2>1. longer \in 0..longer /\ \A i \in 0..Len(chain) : i \in 0..longer
    BY <1>5
  <2>2. cache' = [cache EXCEPT ![Current.type] = longer] /\ Len(chain') = longer
    BY <1>4, <1>5
  <2>3. cache \in [Types -> 0..Len(chain)]
    BY DEF WorldTypeOK
  <2> HIDE DEF longer
  <2>4. cache \in [Types -> 0..longer]
    BY <2>1, <2>3
  <2>5. QED
    BY <2>1, <2>2, <2>4
<1>7. WorldTypeOK'
  BY <1>5, <1>6 DEF CreateContract, WorldTypeOK
<1>8. Current' = Current /\ cache'[Current.type] # 0
  BY <1>2, <1>4, <1>5 DEF CreateContract, Current, WorldTypeOK, DeployStep
<1>9. RunTypeOK'
  BY <1>1, <1>8 DEF CreateContract, RunTypeOK
<1>10. BoundsOK'
  BY UnchangedBoundsType DEF CreateContract
<1>11. QED
  BY <1>7, <1>9, <1>10

LEMMA ReuseContractType == ASSUME TypeOK, ReuseContract PROVE TypeOK'
<1> USE DEF TypeOK
<1>1. stage \in Stages /\ step \in DOMAIN Script[stage] /\ Current.kind = "deploy"
  BY AtStepPlace DEF ReuseContract
<1>2. WorldTypeOK' /\ BoundsOK'
  BY UnchangedBoundsType, UnchangedWorldType DEF ReuseContract, WorldTypeOK
<1>3. Current' = Current /\ cache'[Current'.type] # 0
  BY DEF ReuseContract, Reusable, Current, world
<1>4. RunTypeOK'
  BY <1>1, <1>3 DEF ReuseContract, RunTypeOK
<1>5. QED
  BY <1>2, <1>4

\* saveContractDeployment only ever adds.
LEMMA SaveContractDeploymentKeeps ==
  ASSUME NEW o, IsDocument(o), NEW n \in Names, NEW a \in Address, NEW d \in Description
  PROVE  LET saved == SaveContractDeployment(o, n, a, d) IN
         /\ IsDocument(saved)
         /\ saved.state = o.state
         /\ saved.addresses = IF o.addresses[n] = NoAddress
                                THEN [o.addresses EXCEPT ![n] = a] ELSE o.addresses
         /\ \A k \in DOMAIN o.transactions :
              /\ k \in DOMAIN saved.transactions
              /\ saved.transactions[k] = o.transactions[k]
<1> DEFINE addressed == SetAddress(o, n, a)
<1> DEFINE tx == DeploymentTransaction(d, a)
<1>1. IsDocument(addressed) /\ tx \in Transaction
      /\ addressed.state = o.state /\ addressed.transactions = o.transactions
      /\ addressed.addresses = [o.addresses EXCEPT ![n] = a]
  BY SetAddressKeeps, RecordTypes
<1>2. /\ IsDocument(AddTransaction(addressed, tx))
      /\ AddTransaction(addressed, tx).state = addressed.state
      /\ AddTransaction(addressed, tx).addresses = addressed.addresses
      /\ \A k \in DOMAIN addressed.transactions :
           /\ k \in DOMAIN AddTransaction(addressed, tx).transactions
           /\ AddTransaction(addressed, tx).transactions[k] = addressed.transactions[k]
  <2> HIDE DEF addressed, tx
  <2>1. QED
    BY <1>1, AddTransactionKeeps
<1>3. SaveContractDeployment(o, n, a, d) =
        IF o.addresses[n] = NoAddress THEN AddTransaction(addressed, tx) ELSE o
  BY DEF SaveContractDeployment, GetContractAddress
<1>4. QED
  <2> HIDE DEF addressed, tx
  <2>1. QED
    BY <1>1, <1>2, <1>3

LEMMA SaveDeploymentType == ASSUME TypeOK, SaveDeployment PROVE TypeOK'
<1> USE DEF TypeOK
<1>1. stage \in Stages /\ step \in DOMAIN Script[stage] /\ Current \in DeployStep
      /\ ContractAt(cache[Current.type]) \in Address
  BY SavePlace, SpecialAddresses DEF SaveDeployment
<1>2. Current.name \in Names /\ StepDescription(Current) \in Description
  BY <1>1, DescriptionType DEF DeployStep
<1>3. IsDocument(outputs')
  BY <1>1, <1>2, SaveContractDeploymentKeeps DEF SaveDeployment, WorldTypeOK
<1>4. QED
  BY <1>1, <1>3, NextStepType, UnchangedWorldType, UnchangedBoundsType DEF SaveDeployment

LEMMA WriteContractAddressType == ASSUME TypeOK, WriteContractAddress PROVE TypeOK'
<1> USE DEF TypeOK
<1>1. stage \in Stages /\ step \in DOMAIN Script[stage] /\ Current \in DeployStep
      /\ ContractAt(cache[Current.type]) \in Address
  BY SavePlace, SpecialAddresses DEF WriteContractAddress
<1>2. IsDocument(outputs')
  BY <1>1, SetAddressKeeps DEF WriteContractAddress, WorldTypeOK, DeployStep
<1>3. RunTypeOK'
  BY <1>1 DEF WriteContractAddress, RunTypeOK
<1>4. QED
  BY <1>2, <1>3, UnchangedWorldType, UnchangedBoundsType DEF WriteContractAddress

LEMMA WriteMockAddressType == ASSUME TypeOK, WriteMockAddress PROVE TypeOK'
<1> USE DEF TypeOK
<1>1. stage \in Stages /\ step \in DOMAIN Script[stage] /\ Current \in MockStep
  BY AtStepPlace, StepTypes DEF WriteMockAddress, Current
<1>2. Current.name \in Names
  BY <1>1 DEF MockStep
<1>3. IsDocument(outputs') /\ randoms' \in Nat
  <2>1. randoms \in Nat /\ randoms + 1 \in Nat /\ IsDocument(outputs)
    BY DEF WorldTypeOK
  <2>2. Deployer \in Address /\ RandomAddress(randoms + 1) \in Address
    BY <2>1, SpecialAddresses
  <2>3. /\ IsDocument(SetAddress(outputs, Current.name, Deployer))
        /\ IsDocument(SetAddress(outputs, Current.name, RandomAddress(randoms + 1)))
    BY <1>2, <2>1, <2>2, SetAddressKeeps
  <2>4. QED
    BY <2>1, <2>3 DEF WriteMockAddress
<1>4. RunTypeOK'
  BY <1>1 DEF WriteMockAddress, RunTypeOK
<1>5. QED
  BY <1>3, <1>4, UnchangedBoundsType DEF WriteMockAddress, WorldTypeOK

LEMMA RecordTransactionType == ASSUME TypeOK, RecordTransaction PROVE TypeOK'
<1> USE DEF TypeOK
<1>1. stage \in Stages /\ step \in DOMAIN Script[stage]
  BY DEF RecordTransaction, RunTypeOK
<1>2. PlainTransaction(StepDescription(Current)) \in Transaction
  BY <1>1, StepTypes, DescriptionType, RecordTypes, SpecialAddresses DEF Current
<1>3. IsDocument(outputs')
  BY <1>2, AddTransactionKeeps DEF RecordTransaction, WriteTransaction, WorldTypeOK
<1>4. QED
  BY <1>1, <1>3, NextStepType, UnchangedWorldType, UnchangedBoundsType DEF RecordTransaction

LEMMA DeferCallType == ASSUME TypeOK, DeferCall PROVE TypeOK'
<1> USE DEF TypeOK
<1>1. stage \in Stages /\ step \in DOMAIN Script[stage]
  BY AtStepPlace DEF DeferCall, CallReady
<1>2. DeferredTransaction(StepDescription(Current)) \in Transaction
  BY <1>1, StepTypes, DescriptionType, RecordTypes, SpecialAddresses DEF Current
<1>3. IsDocument(outputs')
  BY <1>2, AddTransactionKeeps DEF DeferCall, SaveDeferredTransaction, WorldTypeOK
<1>4. QED
  BY <1>1, <1>3, NextStepType, UnchangedWorldType, UnchangedBoundsType DEF DeferCall

\* Skipping a step changes nothing but the place.
LEMMA SkipType ==
  ASSUME TypeOK, SkipRecordedName \/ SkipCall
  PROVE  TypeOK'
<1> USE DEF TypeOK
<1>1. stage \in Stages /\ step \in DOMAIN Script[stage]
  BY AtStepPlace DEF SkipRecordedName, SkipCall, CallReady
<1>2. QED
  BY <1>1, NextStepType, UnchangedWorldType, UnchangedBoundsType
     DEF SkipRecordedName, SkipCall, WorldTypeOK

LEMMA SendCallType == ASSUME TypeOK, SendCall PROVE TypeOK'
<1> USE DEF TypeOK
<1>1. stage \in Stages /\ step \in DOMAIN Script[stage] /\ Current \in CallStep
  BY AtStepPlace, StepTypes DEF SendCall, CallReady, Current
<1>2. Current.op \in Operation /\ Resolve(Current.target) \in Address
      /\ Resolve(Current.subject) \in Address
  BY <1>1, ResolveType DEF CallStep, Argument
<1>3. effects' \subseteq Operation \X Address \X Address
  BY <1>2 DEF SendCall, Effect, WorldTypeOK
<1>4. chain' \in Seq(Contract) /\ Len(chain') = Len(chain)
  <2> DEFINE i == Resolve(Current.target)[2]
  <2> DEFINE new == [chain[i] EXCEPT !.operator = Resolve(Current.subject)]
  <2>1. CASE Current.op # "operator"
    BY <2>1 DEF SendCall, WorldTypeOK
  <2>2. CASE Current.op = "operator"
    <3>1. chain' = [chain EXCEPT ![i] = new] /\ chain \in Seq(Contract)
      BY <2>2 DEF SendCall, WorldTypeOK
    <3>2. chain \in [1..Len(chain) -> Contract] /\ Len(chain) \in Nat
      BY <3>1
    <3>3. ASSUME i \in 1..Len(chain) PROVE new \in Contract
      <4> DEFINE subject == Resolve(Current.subject)
      <4>1. chain[i] \in Contract /\ subject \in Address
        BY <1>2, <3>2, <3>3
      <4> HIDE DEF subject
      <4>2. [chain[i] EXCEPT !.operator = subject] \in Contract
        <5> HIDE DEF i
        <5>1. QED
          BY <4>1 DEF Contract
      <4>3. QED
        BY <4>2 DEF subject
    <3> HIDE DEF i, new
    <3>4. chain' \in [1..Len(chain) -> Contract]
      BY <3>1, <3>2, <3>3
    <3>5. QED
      BY <3>2, <3>4
  <2>3. QED
    BY <2>1, <2>2
<1>5. WorldTypeOK'
  BY <1>3, <1>4 DEF SendCall, WorldTypeOK
<1>6. RunTypeOK'
  BY <1>1 DEF SendCall, RunTypeOK
<1>7. QED
  BY <1>5, <1>6, UnchangedBoundsType DEF SendCall

LEMMA InterruptionType ==
  ASSUME TypeOK, Abort \/ Interruption
  PROVE  TypeOK'
<1> USE DEF TypeOK, Interruption
<1>1. CASE Abort
  BY <1>1, StopType, UnchangedBoundsType, UnchangedWorldType DEF Abort, WorldTypeOK
<1>2. CASE Crash
  <2>1. BoundsOK'
    BY <1>2, BoundAssumption DEF Crash, BoundsOK
  <2>2. QED
    BY <1>2, <2>1, StopType, UnchangedWorldType DEF Crash, WorldTypeOK
<1>3. CASE TearWrite
  <2>1. BoundsOK'
    BY <1>3, BoundAssumption DEF TearWrite, BoundsOK
  <2>2. QED
    BY <1>3, <2>1, StopType, EmptyIsDocument, UnchangedWorldType DEF TearWrite
<1>4. CASE FreshCheckout
  <2>1. BoundsOK'
    BY <1>4, BoundAssumption DEF FreshCheckout, BoundsOK
  <2>2. Len(chain) \in Nat
    BY DEF WorldTypeOK
  <2>3. WorldTypeOK'
    BY <1>4, <2>2 DEF FreshCheckout, WorldTypeOK
  <2>4. RunTypeOK'
    BY <1>4, ScriptAssumption DEF FreshCheckout, RunTypeOK
  <2>5. QED
    BY <2>1, <2>3, <2>4
<1>5. QED
  BY <1>1, <1>2, <1>3, <1>4

LEMMA TypeStep == TypeOK /\ [Next]_vars => TypeOK'
<1> SUFFICES ASSUME TypeOK, [Next]_vars PROVE TypeOK'
  OBVIOUS
<1>1. CASE Next
  BY <1>1, StageType, CreateContractType, ReuseContractType, SaveDeploymentType,
     WriteContractAddressType, WriteMockAddressType, RecordTransactionType, DeferCallType,
     SkipType, SendCallType, InterruptionType
     DEF Next, Progress
<1>2. CASE UNCHANGED vars
  BY <1>2 DEF vars, world, environment, TypeOK, WorldTypeOK, RunTypeOK, BoundsOK, Current, Running
<1>3. QED
  BY <1>1, <1>2

\* Every value a run of "hardhat deploy" reads or writes has its type, whatever the
\* scripts: in particular the keys of the transactions stay consecutive, so that
\* getNextTransactionKey always finds a free one.
THEOREM TypeCorrect == Spec => []TypeOK
BY InitType, TypeStep, PTL DEF Spec

-----------------------------------------------------------------------------
(***************************************************************************)
(* The ledger only grows, the stages it counts as finished are complete,   *)
(* and to its readers it is the abstract registry: by the inductive        *)
(* invariant RunInvariant.                                                 *)
(***************************************************************************)
(***************************************************************************)
(* What makes a name count as recorded.                                    *)
(***************************************************************************)
NonCall(s) == DOMAIN Script[s] \ CallSteps(s)

LEMMA NameOfStep ==
  ASSUME NEW s \in Stages, NEW k \in NonCall(s)
  PROVE  /\ k \in DOMAIN Script[s] /\ Script[s][k].kind # "call"
         /\ Script[s][k] \in DeployStep \cup MockStep
         /\ Script[s][k].name \in Names
<1>1. k \in DOMAIN Script[s] /\ Script[s][k].kind # "call"
  BY DEF NonCall, CallSteps
<1>2. Script[s][k] \in DeployStep \cup MockStep
  BY <1>1, StepTypes DEF CallStep
<1>3. QED
  BY <1>1, <1>2 DEF DeployStep, MockStep

\* An address of dependencies.ts is not the empty one.
LEMMA KnownIsAddress ==
  ASSUME NEW n \in Names
  PROVE  KnownAddress(n) # NoAddress
BY NamesAssumption DEF KnownAddress, NoAddress, Tags

LEMMA ContractIsAddress == \A i : ContractAt(i) # NoAddress /\ RandomAddress(i) # NoAddress
BY DEF ContractAt, RandomAddress, NoAddress

LEMMA DeployerIsAddress == Deployer # NoAddress
BY DEF Deployer, NoAddress

\* A name whose step counts as unrecorded has the empty address in the ledger ...
LEMMA UnrecordedHasNoAddress ==
  ASSUME NEW s \in DeployStep \cup MockStep, ~Recorded(s)
  PROVE  outputs.addresses[s.name] = NoAddress
<1>1. s.name \in Names
  BY DEF DeployStep, MockStep
<1>2. QED
  BY <1>1, KnownIsAddress, NamesAssumption DEF Recorded, FindDependency, GetContractAddress

\* ... and one that has an address there counts as recorded.
LEMMA AddressedIsRecorded ==
  ASSUME NEW s \in DeployStep \cup MockStep, outputs.addresses[s.name] # NoAddress
  PROVE  Recorded(s)
<1>1. s.name \in Names
  BY DEF DeployStep, MockStep
<1>2. QED
  BY <1>1, KnownIsAddress DEF Recorded, FindDependency, GetContractAddress

\* As long as addresses stay, names stay recorded.
LEMMA RecordedStays ==
  ASSUME NEW s \in DeployStep \cup MockStep, Recorded(s), AddressesKept
  PROVE  Recorded(s)'
<1>1. s.name \in Names
  BY DEF DeployStep, MockStep
<1>2. QED
  BY <1>1 DEF Recorded, FindDependency, GetContractAddress, AddressesKept

LEMMA RecordPlace ==
  ASSUME TypeOK, pc = "record"
  PROVE  stage \in Stages /\ step \in DOMAIN Script[stage]
BY DEF TypeOK, RunTypeOK

-----------------------------------------------------------------------------
(***************************************************************************)
(* A step that does not tear the file only adds to the ledger.             *)
(***************************************************************************)
Grows == AddressesKept /\ RecordsKept /\ StageKept

LEMMA UnchangedGrows == TypeOK /\ outputs' = outputs => Grows
BY DocumentParts
   DEF Grows, AddressesKept, RecordsKept, StageKept, GetLastDeploymentStage, TypeOK, WorldTypeOK

LEMMA AddRecordGrows ==
  ASSUME TypeOK, NEW tx \in Transaction, outputs' = AddTransaction(outputs, tx)
  PROVE  Grows
<1>1. IsDocument(outputs) /\ outputs.state.last_deployment_stage \in Nat
  BY DocumentParts DEF TypeOK, WorldTypeOK
<1>2. QED
  BY <1>1, AddTransactionKeeps
     DEF Grows, AddressesKept, RecordsKept, StageKept, GetLastDeploymentStage

\* An address is written over the empty one only.
LEMMA SetAddressGrows ==
  ASSUME TypeOK, NEW n \in Names, NEW a \in Address,
         outputs.addresses[n] = NoAddress, outputs' = SetAddress(outputs, n, a)
  PROVE  Grows
<1>1. IsDocument(outputs) /\ outputs.state.last_deployment_stage \in Nat
      /\ outputs.addresses \in [Names -> Address]
  BY DocumentParts DEF TypeOK, WorldTypeOK
<1>2. outputs'.state = outputs.state /\ outputs'.transactions = outputs.transactions
      /\ outputs'.addresses = [outputs.addresses EXCEPT ![n] = a]
  BY <1>1, SetAddressKeeps
<1>3. QED
  BY <1>1, <1>2
     DEF Grows, AddressesKept, RecordsKept, StageKept, GetLastDeploymentStage

LEMMA SaveDeploymentGrows ==
  ASSUME TypeOK, SaveDeployment
  PROVE  Grows
<1>1. Current \in DeployStep /\ ContractAt(cache[Current.type]) \in Address
  BY SavePlace, SpecialAddresses DEF SaveDeployment
<1>2. Current.name \in Names /\ StepDescription(Current) \in Description
  BY <1>1, DescriptionType DEF DeployStep
<1>3. IsDocument(outputs) /\ outputs.state.last_deployment_stage \in Nat
      /\ outputs.addresses \in [Names -> Address]
  BY DocumentParts DEF TypeOK, WorldTypeOK
<1>4. outputs' = SaveContractDeployment(outputs, Current.name,
                   ContractAt(cache[Current.type]), StepDescription(Current))
  BY DEF SaveDeployment
<1>5. /\ outputs'.state = outputs.state
      /\ outputs'.addresses =
           IF outputs.addresses[Current.name] = NoAddress
             THEN [outputs.addresses EXCEPT ![Current.name] = ContractAt(cache[Current.type])]
             ELSE outputs.addresses
      /\ RecordsKept
  BY <1>1, <1>2, <1>3, <1>4, SaveContractDeploymentKeeps DEF RecordsKept
<1>6. AddressesKept
  BY <1>2, <1>3, <1>5 DEF AddressesKept
<1>7. StageKept
  BY <1>3, <1>5 DEF StageKept, GetLastDeploymentStage
<1>8. QED
  BY <1>5, <1>6, <1>7 DEF Grows

LEMMA GrowthStep ==
  ASSUME TypeOK, RunInvariant, [Next]_vars, tornWrites' = tornWrites
  PROVE  Grows
<1>1. ASSUME PrepareDeployment PROVE Grows
  <2>1. outputs' = outputs
    BY <1>1, RemoveNetworkKeeps DEF PrepareDeployment, TypeOK, WorldTypeOK
  <2>2. QED
    BY <2>1, UnchangedGrows
<1>2. ASSUME FinishStage PROVE Grows
  <2>1. stage \in Nat /\ stage + 1 \in Nat /\ IsDocument(outputs) /\ outputs.state.last_deployment_stage \in Nat
    BY DocumentParts, ScriptAssumption DEF TypeOK, RunTypeOK, WorldTypeOK
  <2>2. /\ GetLastDeploymentStage(outputs') = stage + 1
        /\ outputs'.addresses = outputs.addresses /\ outputs'.transactions = outputs.transactions
    BY <1>2, <2>1, WriteStageKeeps DEF FinishStage
  <2>3. GetLastDeploymentStage(outputs) <= stage
    BY <1>2 DEF RunInvariant, CurrentStageOpen, FinishStage
  <2>4. QED
    BY <2>1, <2>2, <2>3
       DEF Grows, AddressesKept, RecordsKept, StageKept, GetLastDeploymentStage
<1>3. ASSUME WriteContractAddress PROVE Grows
  <2>1. Current \in DeployStep /\ ContractAt(cache[Current.type]) \in Address
    BY <1>3, SavePlace, SpecialAddresses DEF WriteContractAddress
  <2>2. outputs.addresses[Current.name] = NoAddress
    BY <1>3, <2>1, UnrecordedHasNoAddress DEF RunInvariant, WritesOnce, WriteContractAddress
  <2>3. QED
    BY <1>3, <2>1, <2>2, SetAddressGrows DEF WriteContractAddress, DeployStep
<1>4. ASSUME WriteMockAddress PROVE Grows
  <2>1. Current \in MockStep /\ ~Recorded(Current)
    BY <1>4, AtStepPlace, StepTypes DEF WriteMockAddress, Current
  <2>2. Current.name \in Names /\ outputs.addresses[Current.name] = NoAddress
    BY <2>1, UnrecordedHasNoAddress DEF MockStep
  <2>3. randoms + 1 \in Nat
    BY DEF TypeOK, WorldTypeOK
  <2>4. PICK a \in Address : outputs' = SetAddress(outputs, Current.name, a)
    BY <1>4, <2>3, SpecialAddresses DEF WriteMockAddress
  <2>5. QED
    BY <2>2, <2>4, SetAddressGrows
<1>5. ASSUME RecordTransaction \/ DeferCall PROVE Grows
  <2>1. stage \in Stages /\ step \in DOMAIN Script[stage]
    BY <1>5, AtStepPlace, RecordPlace DEF RecordTransaction, DeferCall, CallReady
  <2>2. PlainTransaction(StepDescription(Current)) \in Transaction
        /\ DeferredTransaction(StepDescription(Current)) \in Transaction
    BY <2>1, StepTypes, DescriptionType, RecordTypes, SpecialAddresses DEF Current
  <2>3. QED
    BY <1>5, <2>2, AddRecordGrows
       DEF RecordTransaction, DeferCall, WriteTransaction, SaveDeferredTransaction
<1>6. ASSUME TearWrite PROVE FALSE
  BY <1>6 DEF TearWrite, TypeOK, BoundsOK
<1>7. ASSUME \/ StartRun \/ PassRetiredStage \/ SkipFinishedStage \/ EndRun
             \/ SkipRecordedName \/ CreateContract \/ ReuseContract
             \/ SkipCall \/ SendCall \/ Abort \/ Crash \/ FreshCheckout
             \/ UNCHANGED vars
      PROVE  Grows
  <2>1. outputs' = outputs
    BY <1>7 DEF StartRun, PassRetiredStage, SkipFinishedStage, EndRun, SkipRecordedName,
       CreateContract, ReuseContract, SkipCall, SendCall, Abort, Crash, FreshCheckout, vars
  <2>2. QED
    BY <2>1, UnchangedGrows
<1>8. QED
  BY <1>1, <1>2, <1>3, <1>4, <1>5, <1>6, <1>7, SaveDeploymentGrows
     DEF Next, Progress, Interruption

-----------------------------------------------------------------------------
(***************************************************************************)
(* RunInvariant is inductive.                                              *)
(***************************************************************************)
LEMMA InitRun == Init => RunInvariant
<1> SUFFICES ASSUME Init PROVE RunInvariant
  OBVIOUS
<1>1. pc = "idle" /\ GetLastDeploymentStage(outputs) = 0
  BY DEF Init, EmptyOutputs, GetLastDeploymentStage
<1>2. FinishedStagesRecorded
  BY <1>1, ScriptAssumption DEF FinishedStagesRecorded, StageAlreadyFinished, Stages
<1>3. QED
  BY <1>1, <1>2 DEF RunInvariant, PassedStagesFinished, CurrentStageOpen,
     PassedStepsRecorded, WritesOnce

\* Between two stages and between two runs only these two conjuncts matter.
LEMMA OutsideScripts ==
  ASSUME ~Running', FinishedStagesRecorded', PassedStagesFinished'
  PROVE  RunInvariant'
BY DEF RunInvariant, CurrentStageOpen, PassedStepsRecorded, WritesOnce

LEMMA FinishedStaysRecorded ==
  ASSUME FinishedStagesRecorded, AddressesKept,
         GetLastDeploymentStage(outputs') = GetLastDeploymentStage(outputs)
  PROVE  FinishedStagesRecorded'
<1> SUFFICES ASSUME NEW s \in Stages, StageAlreadyFinished(s)',
                    NEW k \in DOMAIN Script[s] \ CallSteps(s)
             PROVE  Recorded(Script[s][k])'
  BY DEF FinishedStagesRecorded, CallSteps
<1>1. Recorded(Script[s][k])
  BY DEF FinishedStagesRecorded, StageAlreadyFinished
<1>2. QED
  BY <1>1, NameOfStep, RecordedStays DEF NonCall

\* Inside a script, at the same step or the next one.
LEMMA InsideScript ==
  ASSUME TypeOK, RunInvariant, AddressesKept, Running, NEW now, now = Current,
         GetLastDeploymentStage(outputs') = GetLastDeploymentStage(outputs),
         stage' = stage,
         \/ step' = step
         \/ step' = step + 1 /\ (now.kind # "call" => Recorded(now)'),
         WritesOnce'
  PROVE  RunInvariant'
<1>1. FinishedStagesRecorded'
  BY FinishedStaysRecorded DEF RunInvariant
<1>2. PassedStagesFinished' /\ CurrentStageOpen'
  BY DEF RunInvariant, PassedStagesFinished, CurrentStageOpen, StageAlreadyFinished
<1>3. stage \in Stages /\ step \in Nat /\ DOMAIN Script[stage] \subseteq Nat
  BY ScriptLength DEF TypeOK, RunTypeOK
<1>4. PassedStepsRecorded'
  <2> SUFFICES ASSUME NEW k \in DOMAIN Script[stage] \ CallSteps(stage), k < step'
               PROVE  Recorded(Script[stage][k])'
    BY DEF PassedStepsRecorded, CallSteps
  <2>1. CASE k < step
    <3>1. Recorded(Script[stage][k])
      BY <2>1 DEF RunInvariant, PassedStepsRecorded
    <3>2. QED
      BY <1>3, <3>1, NameOfStep, RecordedStays DEF NonCall
  <2>2. CASE ~(k < step)
    <3>1. k = step
      BY <1>3, <2>2
    <3>2. now.kind # "call" /\ now = Script[stage'][k]
      BY <1>3, <3>1, NameOfStep DEF NonCall, Current
    <3>3. Recorded(now)'
      BY <1>3, <2>2, <3>2
    <3>4. QED
      BY <3>2, <3>3
  <2>3. QED
    BY <2>1, <2>2
<1>5. QED
  BY <1>1, <1>2, <1>4 DEF RunInvariant

\* Steps of a script leave the stage counter alone.
LEMMA StageStays ==
  ASSUME TypeOK,
         \/ SkipCall \/ DeferCall \/ SkipRecordedName \/ RecordTransaction
         \/ SaveDeployment \/ WriteContractAddress \/ WriteMockAddress
  PROVE  GetLastDeploymentStage(outputs') = GetLastDeploymentStage(outputs)
<1> SUFFICES outputs'.state = outputs.state
  BY DEF GetLastDeploymentStage
<1>1. IsDocument(outputs) /\ randoms + 1 \in Nat
  BY DEF TypeOK, WorldTypeOK
<1>2. CASE SkipCall \/ SkipRecordedName
  BY <1>2 DEF SkipCall, SkipRecordedName
<1>3. CASE DeferCall \/ RecordTransaction
  <2>1. stage \in Stages /\ step \in DOMAIN Script[stage]
    BY <1>3, AtStepPlace, RecordPlace DEF RecordTransaction, DeferCall, CallReady
  <2>2. PlainTransaction(StepDescription(Current)) \in Transaction
        /\ DeferredTransaction(StepDescription(Current)) \in Transaction
    BY <2>1, StepTypes, DescriptionType, RecordTypes, SpecialAddresses DEF Current
  <2>3. QED
    BY <1>1, <1>3, <2>2, AddTransactionKeeps
       DEF RecordTransaction, DeferCall, WriteTransaction, SaveDeferredTransaction
<1>4. CASE SaveDeployment \/ WriteContractAddress
  <2>1. Current \in DeployStep /\ ContractAt(cache[Current.type]) \in Address
    BY <1>4, SavePlace, SpecialAddresses DEF SaveDeployment, WriteContractAddress
  <2>2. Current.name \in Names /\ StepDescription(Current) \in Description
    BY <2>1, DescriptionType DEF DeployStep
  <2>3. CASE SaveDeployment
    BY <1>1, <2>1, <2>2, <2>3, SaveContractDeploymentKeeps DEF SaveDeployment
  <2>4. CASE WriteContractAddress
    BY <1>1, <2>1, <2>2, <2>4, SetAddressKeeps DEF WriteContractAddress
  <2>5. QED
    BY <1>4, <2>3, <2>4
<1>5. CASE WriteMockAddress
  <2>1. Current.name \in Names
    BY <1>5, AtStepPlace, StepTypes DEF WriteMockAddress, Current, MockStep
  <2>2. PICK a \in Address : outputs' = SetAddress(outputs, Current.name, a)
    BY <1>1, <1>5, SpecialAddresses DEF WriteMockAddress
  <2>3. QED
    BY <1>1, <2>1, <2>2, SetAddressKeeps
<1>6. QED
  BY <1>2, <1>3, <1>4, <1>5

\* What was written is recorded.
LEMMA AddressWritten ==
  ASSUME TypeOK, NEW now \in DeployStep \cup MockStep, now = Current,
         SaveDeployment \/ WriteContractAddress \/ WriteMockAddress
  PROVE  Recorded(now)'
<1>1. /\ IsDocument(outputs) /\ outputs.addresses \in [Names -> Address]
      /\ randoms + 1 \in Nat /\ now.name \in Names
  BY DocumentParts DEF TypeOK, WorldTypeOK, DeployStep, MockStep
<1>2. outputs'.addresses[now.name] # NoAddress
  <2>1. CASE SaveDeployment \/ WriteContractAddress
    <3>1. /\ Current \in DeployStep /\ ContractAt(cache[Current.type]) \in Address
          /\ ContractAt(cache[Current.type]) # NoAddress
      BY <2>1, SavePlace, SpecialAddresses, ContractIsAddress DEF SaveDeployment, WriteContractAddress
    <3>2. StepDescription(Current) \in Description
      BY <3>1, DescriptionType
    <3>3. \/ outputs'.addresses = [outputs.addresses EXCEPT ![now.name] = ContractAt(cache[Current.type])]
          \/ outputs'.addresses = outputs.addresses /\ outputs.addresses[now.name] # NoAddress
      BY <1>1, <2>1, <3>1, <3>2, SetAddressKeeps, SaveContractDeploymentKeeps
         DEF SaveDeployment, WriteContractAddress
    <3>4. QED
      BY <1>1, <3>1, <3>3
  <2>2. CASE WriteMockAddress
    <3>1. PICK a \in Address : a # NoAddress /\ outputs' = SetAddress(outputs, now.name, a)
      BY <1>1, <2>2, SpecialAddresses, ContractIsAddress, DeployerIsAddress DEF WriteMockAddress
    <3>2. outputs'.addresses = [outputs.addresses EXCEPT ![now.name] = a]
      BY <1>1, <3>1, SetAddressKeeps
    <3>3. QED
      BY <1>1, <3>1, <3>2
  <2>3. QED
    BY <2>1, <2>2
<1>3. QED
  BY <1>1, <1>2, KnownIsAddress DEF Recorded, FindDependency, GetContractAddress

LEMMA RunStep == TypeOK /\ RunInvariant /\ [Next]_vars => RunInvariant'
<1> SUFFICES ASSUME TypeOK, RunInvariant, [Next]_vars PROVE RunInvariant'
  OBVIOUS
<1>1. tornWrites' = tornWrites => AddressesKept
  BY GrowthStep DEF Grows
<1>2. TypeOK'
  BY TypeStep
<1>3. ASSUME UNCHANGED vars PROVE RunInvariant'
  BY <1>3 DEF vars, RunInvariant, FinishedStagesRecorded, PassedStagesFinished, CurrentStageOpen,
     PassedStepsRecorded, WritesOnce, CallSteps, Recorded, Current, StageAlreadyFinished
\* A run that ends, early or not, leaves the stages it finished complete.
<1>4. ASSUME Abort \/ Crash \/ EndRun \/ FreshCheckout PROVE RunInvariant'
  <2>1. outputs' = outputs /\ tornWrites' = tornWrites /\ pc' = "idle"
    BY <1>4 DEF Abort, Crash, EndRun, FreshCheckout, Stop, environment
  <2>2. FinishedStagesRecorded'
    BY <1>1, <2>1, FinishedStaysRecorded DEF RunInvariant
  <2>3. QED
    BY <2>1, <2>2, OutsideScripts DEF PassedStagesFinished
<1>5. ASSUME TearWrite PROVE RunInvariant'
  <2>1. GetLastDeploymentStage(outputs') = 0 /\ pc' = "idle"
    BY <1>5 DEF TearWrite, Stop, EmptyOutputs, GetLastDeploymentStage
  <2>2. FinishedStagesRecorded'
    BY <2>1, ScriptAssumption DEF FinishedStagesRecorded, StageAlreadyFinished, Stages
  <2>3. QED
    BY <2>1, <2>2, OutsideScripts DEF PassedStagesFinished
\* Between two stages.
<1>6. ASSUME StartRun PROVE RunInvariant'
  <2>1. outputs' = outputs /\ tornWrites' = tornWrites /\ pc' = "stage" /\ stage' = 0
    BY <1>6 DEF StartRun, environment, TypeOK, RunTypeOK
  <2>2. FinishedStagesRecorded'
    BY <1>1, <2>1, FinishedStaysRecorded DEF RunInvariant
  <2>3. PassedStagesFinished'
    BY <2>1, ScriptAssumption DEF PassedStagesFinished, Stages
  <2>4. QED
    BY <2>1, <2>2, <2>3, OutsideScripts
<1>7. ASSUME PassRetiredStage \/ SkipFinishedStage PROVE RunInvariant'
  <2>1. /\ outputs' = outputs /\ tornWrites' = tornWrites
        /\ pc = "stage" /\ pc' = "stage" /\ stage \in Stages /\ stage' = stage + 1
        /\ stage \in Retired \/ StageAlreadyFinished(stage)
    BY <1>7 DEF PassRetiredStage, SkipFinishedStage, AtStage, ToStage, environment
  <2>2. FinishedStagesRecorded'
    BY <1>1, <2>1, FinishedStaysRecorded DEF RunInvariant
  <2>3. PassedStagesFinished'
    <3> SUFFICES ASSUME NEW s \in Stages \ Retired, s < stage + 1
                 PROVE  StageAlreadyFinished(s)
      BY <2>1 DEF PassedStagesFinished, StageAlreadyFinished
    <3>1. s = stage \/ s < stage
      BY <2>1, ScriptAssumption DEF Stages
    <3>2. QED
      BY <2>1, <3>1 DEF RunInvariant, PassedStagesFinished
  <2>4. QED
    BY <2>1, <2>2, <2>3, OutsideScripts
<1>8. ASSUME FinishStage PROVE RunInvariant'
  <2>1. /\ stage \in Stages /\ stage \in Nat /\ stage + 1 \in Nat
        /\ pc = "step" /\ pc' = "stage" /\ stage' = stage + 1 /\ tornWrites' = tornWrites
        /\ IsDocument(outputs)
    BY <1>8, ScriptAssumption
       DEF FinishStage, ToStage, environment, TypeOK, RunTypeOK, WorldTypeOK, Stages
  <2>2. GetLastDeploymentStage(outputs') = stage + 1
    BY <1>8, <2>1, WriteStageKeeps DEF FinishStage
  <2>3. \A k \in DOMAIN Script[stage] : k < step
    BY <1>8, <2>1, ScriptLength DEF FinishStage, TypeOK, RunTypeOK
  <2>4. FinishedStagesRecorded'
    <3> SUFFICES ASSUME NEW s \in Stages, s < stage + 1, NEW k \in NonCall(s)
                 PROVE  Recorded(Script[s][k])'
      BY <2>2 DEF FinishedStagesRecorded, StageAlreadyFinished, CallSteps, NonCall
    <3>1. s = stage \/ s < stage
      BY <2>1 DEF Stages
    <3>2. k \in DOMAIN Script[s]
      BY DEF NonCall
    <3>3. ASSUME s = stage PROVE Recorded(Script[s][k])
      BY <2>1, <2>3, <3>2, <3>3 DEF RunInvariant, PassedStepsRecorded, NonCall
    <3>4. ASSUME s < stage PROVE Recorded(Script[s][k])
      <4>1. s \notin Retired
        BY <3>2, ScriptAssumption
      <4>2. StageAlreadyFinished(s)
        BY <2>1, <3>4, <4>1 DEF RunInvariant, PassedStagesFinished
      <4>3. QED
        BY <4>2 DEF RunInvariant, FinishedStagesRecorded, NonCall
    <3>5. QED
      <4>1. Recorded(Script[s][k])
        BY <3>1, <3>3, <3>4
      <4>2. QED
        BY <1>1, <2>1, <4>1, NameOfStep, RecordedStays
  <2>5. PassedStagesFinished'
    BY <2>1, <2>2 DEF PassedStagesFinished, StageAlreadyFinished
  <2>6. QED
    BY <2>1, <2>4, <2>5, OutsideScripts
\* Entering a script.
<1>9. ASSUME PrepareDeployment PROVE RunInvariant'
  <2>1. outputs' = outputs /\ tornWrites' = tornWrites
    BY <1>9, RemoveNetworkKeeps
       DEF PrepareDeployment, environment, TypeOK, WorldTypeOK
  <2>2. /\ pc = "stage" /\ pc' = "step" /\ stage \in Stages /\ stage' = stage /\ step' = 1
        /\ ~StageAlreadyFinished(stage)
    BY <1>9 DEF PrepareDeployment, Preparing, AtStage, TypeOK, RunTypeOK
  <2>3. FinishedStagesRecorded'
    BY <1>1, <2>1, FinishedStaysRecorded DEF RunInvariant
  <2>4. PassedStagesFinished'
    BY <2>1, <2>2 DEF RunInvariant, PassedStagesFinished, StageAlreadyFinished
  <2>5. CurrentStageOpen'
    <3>1. GetLastDeploymentStage(outputs) \in Nat /\ stage \in Nat
      BY <2>2, DocumentParts, ScriptAssumption
         DEF TypeOK, WorldTypeOK, GetLastDeploymentStage, Stages
    <3>2. QED
      BY <2>1, <2>2, <3>1 DEF CurrentStageOpen, StageAlreadyFinished
  <2>6. PassedStepsRecorded' /\ WritesOnce'
    BY <2>2, ScriptLength DEF PassedStepsRecorded, WritesOnce
  <2>7. QED
    BY <2>3, <2>4, <2>5, <2>6 DEF RunInvariant
\* Inside a script: the step the run is at, and what becomes of it.
<1>10. PICK now : now = Current
  OBVIOUS
<1>11. ASSUME CreateContract \/ ReuseContract PROVE RunInvariant'
  <2>1. /\ outputs' = outputs /\ tornWrites' = tornWrites /\ stage' = stage /\ step' = step
        /\ pc = "step" /\ pc' = "save" /\ ~Recorded(Current)
    BY <1>11 DEF CreateContract, ReuseContract, AtStep, environment
  <2>2. WritesOnce'
    BY <2>1 DEF WritesOnce, Recorded, Current
  <2>3. QED
    BY <1>1, <1>10, <2>1, <2>2, InsideScript
<1>12. ASSUME SendCall PROVE RunInvariant'
  <2>1. /\ outputs' = outputs /\ tornWrites' = tornWrites /\ stage' = stage /\ step' = step
        /\ pc = "step" /\ pc' = "record" /\ Current.kind = "call"
    BY <1>12 DEF SendCall, CallReady, AtStep, environment
  <2>2. WritesOnce'
    BY <2>1 DEF WritesOnce, Current
  <2>3. QED
    BY <1>1, <1>10, <2>1, <2>2, InsideScript
<1>13. ASSUME SkipCall \/ DeferCall PROVE RunInvariant'
  <2>1. /\ tornWrites' = tornWrites /\ stage' = stage /\ step' = step + 1
        /\ pc = "step" /\ pc' = "step" /\ now.kind = "call"
    BY <1>10, <1>13 DEF SkipCall, DeferCall, CallReady, AtStep, NextStep, environment
  <2>2. GetLastDeploymentStage(outputs') = GetLastDeploymentStage(outputs)
    BY <1>13, StageStays
  <2>3. WritesOnce'
    BY <2>1 DEF WritesOnce
  <2>4. QED
    BY <1>1, <1>10, <2>1, <2>2, <2>3, InsideScript
<1>14. ASSUME SkipRecordedName \/ RecordTransaction PROVE RunInvariant'
  <2>1. /\ tornWrites' = tornWrites /\ stage' = stage /\ step' = step + 1
        /\ Running /\ pc' = "step" /\ stage \in Stages /\ step \in DOMAIN Script[stage]
    BY <1>14, RecordPlace, AtStepPlace
       DEF SkipRecordedName, RecordTransaction, AtStep, NextStep, environment
  <2>2. GetLastDeploymentStage(outputs') = GetLastDeploymentStage(outputs)
    BY <1>14, StageStays
  <2>3. ASSUME now.kind # "call" PROVE Recorded(now)'
    <3>1. now \in DeployStep \cup MockStep
      BY <1>10, <2>1, <2>3, StepTypes DEF Current, CallStep
    <3>2. Recorded(now)
      BY <1>10, <1>14, <2>3 DEF SkipRecordedName, RecordTransaction, RunInvariant, WritesOnce
    <3>3. QED
      BY <1>1, <2>1, <3>1, <3>2, RecordedStays
  <2>4. WritesOnce'
    BY <2>1 DEF WritesOnce
  <2>5. QED
    BY <1>1, <1>10, <2>1, <2>2, <2>3, <2>4, InsideScript
\* The three actions that write an address.
<1>15. ASSUME SaveDeployment \/ WriteContractAddress \/ WriteMockAddress
       PROVE  RunInvariant'
  <2>1. Running /\ tornWrites' = tornWrites /\ stage' = stage
    BY <1>15 DEF SaveDeployment, WriteContractAddress, WriteMockAddress, NextStep, AtStep,
       environment
  <2>2. GetLastDeploymentStage(outputs') = GetLastDeploymentStage(outputs)
    BY <1>15, StageStays
  <2>3. now \in DeployStep \cup MockStep
    BY <1>10, <1>15, AtStepPlace, SavePlace, StepTypes
       DEF SaveDeployment, WriteContractAddress, WriteMockAddress, Current
  <2>4. Recorded(now)'
    BY <1>10, <1>15, <2>3, AddressWritten
  <2>5. \/ step' = step /\ pc' = "record"
        \/ step' = step + 1 /\ pc' = "step"
    BY <1>15 DEF SaveDeployment, WriteContractAddress, WriteMockAddress, NextStep
  <2>6. WritesOnce'
    BY <1>10, <2>1, <2>4, <2>5 DEF WritesOnce, Current
  <2>7. QED
    BY <1>1, <1>10, <2>1, <2>2, <2>4, <2>5, <2>6, InsideScript
<1>16. QED
  BY <1>3, <1>4, <1>5, <1>6, <1>7, <1>8, <1>9, <1>11, <1>12, <1>13, <1>14, <1>15
     DEF Next, Progress, Interruption

-----------------------------------------------------------------------------
(***************************************************************************)
(* Theorems.                                                               *)
(***************************************************************************)
\* The place of a run is what the ledger says is done: the stages it has passed are
\* finished, the names of the steps behind it are recorded, and what it is about to
\* record is not recorded yet.
THEOREM RunInvariantHolds == Spec => []RunInvariant
<1>1. Init => RunInvariant
  BY InitRun
<1>2. TypeOK /\ RunInvariant /\ [Next]_vars => RunInvariant'
  BY RunStep
<1>3. QED
  BY <1>1, <1>2, TypeCorrect, PTL DEF Spec

\* A stage that trackFinishedStage has counted, and that stageAlreadyFinished lets
\* every later run skip, has all its names in the ledger.
THEOREM FinishedAreRecorded == Spec => []FinishedStagesRecorded
<1>1. RunInvariant => FinishedStagesRecorded
  BY DEF RunInvariant
<1>2. QED
  BY <1>1, RunInvariantHolds, PTL

\* No script runs before the scripts ahead of it have finished, in this run or in
\* an earlier one.
THEOREM InOrder == Spec => []StagesInOrder
<1>1. RunInvariant => StagesInOrder
  BY DEF RunInvariant, PassedStagesFinished, StagesInOrder
<1>2. QED
  BY <1>1, RunInvariantHolds, PTL

\* Unless a write is torn, no operation of outputHelper.ts that a run performs
\* moves an address, rewrites a record or lowers last_deployment_stage.
THEOREM Monotone == Spec => LedgerOnlyGrows
<1>1. TypeOK /\ RunInvariant /\ [Next]_vars =>
        [tornWrites' = tornWrites => AddressesKept /\ RecordsKept /\ StageKept]_vars
  BY GrowthStep DEF Grows
<1>2. QED
  BY <1>1, TypeCorrect, RunInvariantHolds, PTL DEF Spec, LedgerOnlyGrows

-----------------------------------------------------------------------------
(***************************************************************************)
(* The refinement: the outputs file is a registry.                         *)
(***************************************************************************)
LEMMA InitRefines == Init => Abstract!Init
BY DEF Init, Abstract!Init, Abstract!Empty, EmptyOutputs, GetLastDeploymentStage

LEMMA WriteRefines ==
  ASSUME TypeOK, NEW n \in Names, NEW a \in Address, a # NoAddress,
         outputs.addresses[n] = NoAddress,
         outputs'.addresses = [outputs.addresses EXCEPT ![n] = a],
         GetLastDeploymentStage(outputs') = GetLastDeploymentStage(outputs)
  PROVE  Abstract!Next
<1>1. outputs.addresses \in [Names -> Address]
  BY DocumentParts DEF TypeOK, WorldTypeOK
<1>2. Abstract!Register(n)
  BY <1>1 DEF Abstract!Register
<1>3. QED
  BY <1>2 DEF Abstract!Next

LEMMA RefineStep ==
  ASSUME TypeOK, RunInvariant, RunInvariant', [Next]_vars
  PROVE  Abstract!Next \/ UNCHANGED Abstract!vars
<1>1. /\ IsDocument(outputs) /\ outputs.addresses \in [Names -> Address]
      /\ randoms + 1 \in Nat
  BY DocumentParts DEF TypeOK, WorldTypeOK
\* Nothing a reader of the registry sees.
<1>2. ASSUME \/ StartRun \/ PassRetiredStage \/ SkipFinishedStage \/ EndRun
             \/ SkipRecordedName \/ CreateContract \/ ReuseContract
             \/ SkipCall \/ SendCall \/ Abort \/ Crash \/ FreshCheckout
             \/ UNCHANGED vars
      PROVE  UNCHANGED Abstract!vars
  <2>1. outputs' = outputs
    BY <1>2 DEF StartRun, PassRetiredStage, SkipFinishedStage, EndRun, SkipRecordedName,
       CreateContract, ReuseContract, SkipCall, SendCall, Abort, Crash, FreshCheckout, vars
  <2>2. QED
    BY <2>1 DEF Abstract!vars
<1>3. ASSUME PrepareDeployment PROVE UNCHANGED Abstract!vars
  <2>1. outputs' = outputs
    BY <1>1, <1>3, RemoveNetworkKeeps DEF PrepareDeployment
  <2>2. QED
    BY <2>1 DEF Abstract!vars
<1>4. ASSUME RecordTransaction \/ DeferCall PROVE UNCHANGED Abstract!vars
  <2>1. stage \in Stages /\ step \in DOMAIN Script[stage]
    BY <1>4, AtStepPlace, RecordPlace DEF RecordTransaction, DeferCall, CallReady
  <2>2. PlainTransaction(StepDescription(Current)) \in Transaction
        /\ DeferredTransaction(StepDescription(Current)) \in Transaction
    BY <2>1, StepTypes, DescriptionType, RecordTypes, SpecialAddresses DEF Current
  <2>3. outputs'.addresses = outputs.addresses
    BY <1>1, <1>4, <2>2, AddTransactionKeeps
       DEF RecordTransaction, DeferCall, WriteTransaction, SaveDeferredTransaction
  <2>4. QED
    BY <1>4, <2>3, StageStays DEF Abstract!vars
\* An address is registered.
<1>5. ASSUME SaveDeployment PROVE Abstract!Next \/ UNCHANGED Abstract!vars
  <2>1. Current \in DeployStep /\ ContractAt(cache[Current.type]) \in Address
        /\ Current.name \in Names
    BY <1>5, SavePlace, SpecialAddresses DEF SaveDeployment, DeployStep
  <2>2. outputs'.addresses = [outputs.addresses EXCEPT ![Current.name] = ContractAt(cache[Current.type])]
        \/ outputs'.addresses = outputs.addresses
    BY <1>1, <1>5, <2>1, DescriptionType, SaveContractDeploymentKeeps DEF SaveDeployment
  <2>3. outputs.addresses[Current.name] = NoAddress
    BY <1>5, <2>1, UnrecordedHasNoAddress DEF RunInvariant, WritesOnce, SaveDeployment
  <2>4. GetLastDeploymentStage(outputs') = GetLastDeploymentStage(outputs)
    BY <1>5, StageStays
  <2>5. QED
    BY <2>1, <2>2, <2>3, <2>4, WriteRefines, ContractIsAddress DEF Abstract!vars
<1>6. ASSUME WriteContractAddress PROVE Abstract!Next
  <2>1. Current \in DeployStep /\ ContractAt(cache[Current.type]) \in Address
        /\ Current.name \in Names
    BY <1>6, SavePlace, SpecialAddresses DEF WriteContractAddress, DeployStep
  <2>2. outputs'.addresses = [outputs.addresses EXCEPT ![Current.name] = ContractAt(cache[Current.type])]
    BY <1>1, <1>6, <2>1, SetAddressKeeps DEF WriteContractAddress
  <2>3. outputs.addresses[Current.name] = NoAddress
    BY <1>6, <2>1, UnrecordedHasNoAddress DEF RunInvariant, WritesOnce, WriteContractAddress
  <2>4. GetLastDeploymentStage(outputs') = GetLastDeploymentStage(outputs)
    BY <1>6, StageStays
  <2>5. QED
    BY <2>1, <2>2, <2>3, <2>4, WriteRefines, ContractIsAddress
<1>7. ASSUME WriteMockAddress PROVE Abstract!Next
  <2>1. Current \in MockStep /\ ~Recorded(Current)
    BY <1>7, AtStepPlace, StepTypes DEF WriteMockAddress, Current
  <2>2. Current.name \in Names /\ outputs.addresses[Current.name] = NoAddress
    BY <2>1, UnrecordedHasNoAddress DEF MockStep
  <2>3. PICK a \in Address : a # NoAddress /\ outputs' = SetAddress(outputs, Current.name, a)
    BY <1>1, <1>7, SpecialAddresses, ContractIsAddress, DeployerIsAddress DEF WriteMockAddress
  <2>4. outputs'.addresses = [outputs.addresses EXCEPT ![Current.name] = a]
    BY <1>1, <2>2, <2>3, SetAddressKeeps
  <2>5. GetLastDeploymentStage(outputs') = GetLastDeploymentStage(outputs)
    BY <1>7, StageStays
  <2>6. QED
    BY <2>2, <2>3, <2>4, <2>5, WriteRefines
\* A stage is finished: its names and those of the stages before it are there.
<1>8. ASSUME FinishStage PROVE Abstract!Finish(stage) /\ stage \in 0..LastStage
  <2>1. /\ stage \in Stages /\ stage \in Nat /\ stage + 1 \in Nat
        /\ GetLastDeploymentStage(outputs) <= stage
    BY <1>8, ScriptAssumption
       DEF FinishStage, TypeOK, RunTypeOK, Stages, RunInvariant, CurrentStageOpen
  <2>2. /\ GetLastDeploymentStage(outputs') = stage + 1
        /\ outputs'.addresses = outputs.addresses
    BY <1>1, <1>8, <2>1, WriteStageKeeps DEF FinishStage
  <2>3. ASSUME NEW s \in 0..stage, NEW n \in RequiredNames(s)
        PROVE  outputs.addresses[n] # NoAddress
    <3>1. s \in Stages /\ s < stage + 1
      BY <2>1, ScriptAssumption DEF Stages
    <3>2. PICK k \in NonCall(s) :
            /\ n = Script[s][k].name
            /\ \/ n \notin KnownDependencies
               \/ Script[s][k].kind = "mock" /\ ~Script[s][k].polyfill
      BY DEF RequiredNames, NonCall
    <3>3. Recorded(Script[s][k])'
      BY <2>2, <3>1, <3>2
         DEF RunInvariant, FinishedStagesRecorded, StageAlreadyFinished, NonCall, CallSteps
    <3>4. QED
      BY <2>2, <3>2, <3>3 DEF Recorded, FindDependency, GetContractAddress
  <2>4. GetLastDeploymentStage(outputs) \in Nat
    BY DocumentParts DEF TypeOK, WorldTypeOK, GetLastDeploymentStage
  <2>5. QED
    BY <2>1, <2>2, <2>3, <2>4 DEF Abstract!Finish, Stages
<1>9. ASSUME TearWrite PROVE Abstract!LoseFile
  BY <1>9 DEF TearWrite, Abstract!LoseFile, Abstract!Empty, EmptyOutputs, GetLastDeploymentStage
<1>10. QED
  BY <1>2, <1>3, <1>4, <1>5, <1>6, <1>7, <1>8, <1>9
     DEF Next, Progress, Interruption, Abstract!Next

\* Deployment implements Registry: to whoever reads the outputs file, a name keeps
\* its address and a stage is done once all its names are there, wherever the runs
\* that wrote the file were cut short.
THEOREM Refinement == Spec => ImplementsRegistry
<1>1. Init => Abstract!Init
  BY InitRefines
<1>2. TypeOK /\ RunInvariant /\ RunInvariant' /\ [Next]_vars => [Abstract!Next]_(Abstract!vars)
  BY RefineStep
<1>3. QED
  BY <1>1, <1>2, TypeCorrect, RunInvariantHolds, PTL DEF Spec, ImplementsRegistry, Abstract!Spec
-----------------------------------------------------------------------------
(***************************************************************************)
(* The ledger and the chain: what an interrupted run leaves behind, that   *)
(* the next run finds it again, and that a recorded contract is the one    *)
(* its script would deploy.                                                *)
(***************************************************************************)
USE DEF Running

-----------------------------------------------------------------------------
(***************************************************************************)
(* What a step does to the chain.                                          *)
(***************************************************************************)
\* The contracts of the chain stay, with their type, constants and arguments.
ContractsStay ==
  \A i \in DOMAIN chain : /\ i \in DOMAIN chain'
                          /\ chain'[i].type = chain[i].type
                          /\ chain'[i].salt = chain[i].salt
                          /\ chain'[i].args = chain[i].args

LEMMA CreatedContract ==
  ASSUME TypeOK, CreateContract
  PROVE  LET new == Len(chain) + 1 IN
         /\ new \in Nat \ {0} /\ DOMAIN chain = 1..Len(chain) /\ DOMAIN chain' = 1..new
         /\ \A i \in DOMAIN chain : chain'[i] = chain[i]
         /\ chain'[new].type = Current.type /\ chain'[new].salt = Current.salt
         /\ chain'[new].args = ResolveAll(Current.args)
         /\ chain'[new].operator = Deployer
         /\ \A t \in Types : cache'[t] = IF t = Current.type THEN new ELSE cache[t]
<1> DEFINE contract == [type |-> Current.type, salt |-> Current.salt,
                        args |-> ResolveAll(Current.args), operator |-> Deployer]
<1>1. Current \in DeployStep
  BY AtStepPlace, StepTypes DEF CreateContract, Current
<1>2. contract \in Contract
  BY <1>1, ResolveAllType, SpecialAddresses DEF Contract, DeployStep, TypeOK
<1>3. chain' = Append(chain, contract) /\ cache' = [cache EXCEPT ![Current.type] = Len(chain) + 1]
  BY DEF CreateContract
<1>4. chain \in Seq(Contract) /\ cache \in [Types -> 0..Len(chain)]
  BY DEF TypeOK, WorldTypeOK
<1>5. /\ contract.type = Current.type /\ contract.salt = Current.salt
      /\ contract.args = ResolveAll(Current.args) /\ contract.operator = Deployer
  OBVIOUS
<1> HIDE DEF contract
<1>6. /\ Len(chain) + 1 \in Nat \ {0} /\ DOMAIN chain = 1..Len(chain)
      /\ DOMAIN chain' = 1..(Len(chain) + 1)
      /\ \A i \in DOMAIN chain : chain'[i] = chain[i]
      /\ chain'[Len(chain) + 1] = contract
  BY <1>2, <1>3, <1>4
<1>7. \A t \in Types : cache'[t] = IF t = Current.type THEN Len(chain) + 1 ELSE cache[t]
  BY <1>3, <1>4
<1>8. QED
  BY <1>5, <1>6, <1>7

LEMMA OperatorSet ==
  ASSUME TypeOK, SendCall
  PROVE  /\ DOMAIN chain' = DOMAIN chain
         /\ ContractsStay
<1> DEFINE i == Resolve(Current.target)[2]
<1> DEFINE subject == Resolve(Current.subject)
<1>1. \/ chain' = chain
      \/ chain' = [chain EXCEPT ![i].operator = subject]
  BY DEF SendCall
<1>2. chain \in [1..Len(chain) -> Contract]
  BY DEF TypeOK, WorldTypeOK
<1> HIDE DEF i, subject
<1>3. \A j \in DOMAIN chain : chain[j] \in Contract
  BY <1>2
<1>4. QED
  BY <1>1, <1>2, <1>3 DEF ContractsStay, Contract

LEMMA ChainStep ==
  ASSUME TypeOK, [Next]_vars
  PROVE  ContractsStay /\ (CreateContract \/ DOMAIN chain' = DOMAIN chain)
<1>1. CASE CreateContract
  BY <1>1, CreatedContract DEF ContractsStay
<1>2. CASE SendCall
  BY <1>2, OperatorSet
<1>3. CASE ~CreateContract /\ ~SendCall
  <2>1. chain' = chain
    BY <1>3 DEF Next, Progress, Interruption, StartRun, PassRetiredStage, SkipFinishedStage,
       PrepareDeployment, FinishStage, EndRun, SkipRecordedName, ReuseContract, SaveDeployment,
       WriteContractAddress, WriteMockAddress, RecordTransaction, SkipCall, DeferCall, Abort,
       Crash, TearWrite, FreshCheckout, vars, world
  <2>2. QED
    BY <2>1 DEF ContractsStay
<1>4. QED
  BY <1>1, <1>2, <1>3

\* The two actions that record a contract write the index hardhat-deploy returned.
LEMMA ContractRecorded ==
  ASSUME TypeOK, RunInvariant, SaveDeployment \/ WriteContractAddress
  PROVE  /\ Current \in DeployStep /\ Current.name \in Names
         /\ outputs.addresses[Current.name] = NoAddress
         /\ outputs'.addresses =
              [outputs.addresses EXCEPT ![Current.name] = ContractAt(cache[Current.type])]
<1>1. /\ Current \in DeployStep /\ ContractAt(cache[Current.type]) \in Address
      /\ ~Recorded(Current) /\ IsDocument(outputs)
  BY SavePlace, SpecialAddresses
     DEF SaveDeployment, WriteContractAddress, RunInvariant, WritesOnce, TypeOK, WorldTypeOK
<1>2. Current.name \in Names /\ StepDescription(Current) \in Description
  BY <1>1, DescriptionType DEF DeployStep
<1>3. outputs.addresses[Current.name] = NoAddress
  BY <1>1, UnrecordedHasNoAddress
<1>4. CASE SaveDeployment
  BY <1>1, <1>2, <1>3, <1>4, SaveContractDeploymentKeeps DEF SaveDeployment
<1>5. CASE WriteContractAddress
  BY <1>1, <1>2, <1>3, <1>5, SetAddressKeeps DEF WriteContractAddress
<1>6. QED
  BY <1>1, <1>2, <1>3, <1>4, <1>5

\* A ledger that has lost nothing so far is one that no step has torn.
LEMMA StillWhole ==
  ASSUME TypeOK, [Next]_vars, tornWrites' = 0
  PROVE  tornWrites = 0 /\ tornWrites' = tornWrites
<1>1. tornWrites \in Nat
  BY BoundAssumption DEF TypeOK, BoundsOK
<1>2. CASE TearWrite
  BY <1>1, <1>2 DEF TearWrite
<1>3. CASE ~TearWrite
  BY <1>3 DEF Next, Progress, Interruption, StartRun, PassRetiredStage, SkipFinishedStage,
     PrepareDeployment, FinishStage, EndRun, SkipRecordedName, CreateContract, ReuseContract,
     SaveDeployment, WriteContractAddress, WriteMockAddress, RecordTransaction, SkipCall,
     DeferCall, SendCall, Abort, Crash, FreshCheckout, vars, environment
<1>4. QED
  BY <1>2, <1>3

LEMMA RecordedContractsStay ==
  ASSUME AddressesKept
  PROVE  RecordedContracts \subseteq RecordedContracts'
<1> SUFFICES ASSUME NEW n \in Placed
             PROVE  outputs.addresses[n][2] \in RecordedContracts'
  BY DEF RecordedContracts
<1>1. n \in Names /\ outputs.addresses[n][1] = "contract"
  BY DEF Placed
<1>2. NoAddress[1] # "contract"
  BY DEF NoAddress
<1>3. outputs'.addresses[n] = outputs.addresses[n]
  BY <1>1, <1>2 DEF AddressesKept
<1>4. QED
  BY <1>1, <1>3 DEF RecordedContracts, Placed

LEMMA OneMore ==
  ASSUME NEW S, IsFiniteSet(S), NEW x, NEW T, T \subseteq S \cup {x}
  PROVE  /\ IsFiniteSet(T) /\ Cardinality(T) \in Nat /\ Cardinality(S) \in Nat
         /\ Cardinality(T) <= Cardinality(S) + 1
<1> DEFINE all == S \cup {x}
<1>1. IsFiniteSet(all) /\ Cardinality(all) = IF x \in S THEN Cardinality(S) ELSE Cardinality(S) + 1
  BY FS_AddElement
<1>2. T \in SUBSET all
  OBVIOUS
<1> HIDE DEF all
<1>3. IsFiniteSet(T) /\ Cardinality(T) <= Cardinality(all)
  BY <1>1, <1>2, FS_Subset
<1>4. Cardinality(T) \in Nat /\ Cardinality(S) \in Nat
  BY <1>3, FS_CardinalityType
<1>5. QED
  BY <1>1, <1>3, <1>4

-----------------------------------------------------------------------------
(***************************************************************************)
(* Interrupted runs lose at most one contract each.                        *)
(***************************************************************************)
\* The contract the run has in its hands and will record next.
Held == IF pc = "save" THEN {cache[Current.type]} ELSE {}

\* Everything else the ledger misses was left by a run that was cut short.
OrphanInvariant == tornWrites = 0 => Cardinality(Unrecorded \ Held) <= crashes

LEMMA UnrecordedFinite ==
  ASSUME TypeOK
  PROVE  IsFiniteSet(Unrecorded) /\ Cardinality(Unrecorded) \in Nat
<1>1. DOMAIN chain = 1..Len(chain) /\ Len(chain) \in Int /\ 1 \in Int
  BY DEF TypeOK, WorldTypeOK
<1>2. IsFiniteSet(DOMAIN chain)
  BY <1>1, FS_Interval
<1>3. Unrecorded \in SUBSET DOMAIN chain
  BY DEF Unrecorded
<1>4. QED
  BY <1>2, <1>3, FS_Subset, FS_CardinalityType

\* Only a crash adds to them.
LEMMA OrphansStay ==
  ASSUME TypeOK, RunInvariant, [Next]_vars, AddressesKept, ~Crash, ~TearWrite
  PROVE  Unrecorded' \ Held' \subseteq Unrecorded \ Held
<1>1. RecordedContracts \subseteq RecordedContracts'
  BY RecordedContractsStay
<1>2. CASE CreateContract
  <2>1. /\ pc = "step" /\ pc' = "save" /\ Current' = Current /\ Current.type \in Types
    BY <1>2, AtStepPlace, StepTypes DEF CreateContract, AtStep, Current, DeployStep
  <2>2. Held = {} /\ Held' = {Len(chain) + 1}
    BY <1>2, <2>1, CreatedContract DEF Held
  <2>3. DOMAIN chain' \ {Len(chain) + 1} \subseteq DOMAIN chain
    BY <1>2, CreatedContract
  <2>4. QED
    BY <1>1, <2>2, <2>3 DEF Unrecorded
<1>3. ASSUME ~CreateContract PROVE Unrecorded' \subseteq Unrecorded
  BY <1>1, <1>3, ChainStep DEF Unrecorded
<1>4. CASE SaveDeployment \/ WriteContractAddress
  <2>1. ~CreateContract /\ pc = "save"
    BY <1>4 DEF SaveDeployment, WriteContractAddress, CreateContract, AtStep
  <2>2. Held = {cache[Current.type]}
    BY <2>1 DEF Held
  <2>3. outputs'.addresses[Current.name] = ContractAt(cache[Current.type]) /\ Current.name \in Names
    BY <1>4, ContractRecorded, DocumentParts DEF TypeOK, WorldTypeOK
  <2>4. cache[Current.type] \in RecordedContracts'
    BY <2>3 DEF RecordedContracts, Placed, ContractAt
  <2>5. QED
    BY <1>3, <2>1, <2>2, <2>4 DEF Unrecorded
<1>5. CASE UNCHANGED vars
  BY <1>5 DEF vars, world, Unrecorded, RecordedContracts, Placed, Held, Current
<1>6. CASE pc # "save" /\ ~CreateContract
  BY <1>3, <1>6 DEF Held
<1>7. QED
  BY <1>2, <1>4, <1>5, <1>6 DEF Next, Progress, Interruption, StartRun, PassRetiredStage,
     SkipFinishedStage, PrepareDeployment, Preparing, AtStage, FinishStage, EndRun,
     SkipRecordedName, ReuseContract, WriteMockAddress, RecordTransaction, SkipCall, DeferCall,
     SendCall, CallReady, Abort, AtStep, FreshCheckout

LEMMA OrphanStep ==
  TypeOK /\ RunInvariant /\ OrphanInvariant /\ [Next]_vars => OrphanInvariant'
<1> SUFFICES ASSUME TypeOK, RunInvariant, OrphanInvariant, [Next]_vars, tornWrites' = 0
             PROVE  Cardinality(Unrecorded' \ Held') <= crashes'
  BY DEF OrphanInvariant
<1> DEFINE before == Unrecorded \ Held
<1> DEFINE after == Unrecorded' \ Held'
<1>1. tornWrites = 0 /\ AddressesKept /\ ~TearWrite
  BY StillWhole, GrowthStep DEF Grows, TearWrite
<1>2. IsFiniteSet(before) /\ Cardinality(before) \in Nat /\ Cardinality(before) <= crashes
      /\ crashes \in Nat
  BY <1>1, UnrecordedFinite, FS_Subset, FS_CardinalityType, BoundAssumption
     DEF OrphanInvariant, TypeOK, BoundsOK
<1>3. CASE ~Crash
  <2>1. crashes' = crashes
    BY <1>1, <1>3 DEF Next, Progress, Interruption, StartRun, PassRetiredStage, SkipFinishedStage,
       PrepareDeployment, FinishStage, EndRun, SkipRecordedName, CreateContract, ReuseContract,
       SaveDeployment, WriteContractAddress, WriteMockAddress, RecordTransaction, SkipCall,
       DeferCall, SendCall, Abort, FreshCheckout, vars, environment
  <2>2. after \in SUBSET before
    BY <1>1, <1>3, OrphansStay
  <2> HIDE DEF before, after
  <2>3. Cardinality(after) <= Cardinality(before) /\ Cardinality(after) \in Nat
    BY <1>2, <2>2, FS_Subset, FS_CardinalityType
  <2>4. QED
    BY <1>2, <2>1, <2>3 DEF after
<1>4. CASE Crash
  <2>1. crashes' = crashes + 1 /\ after = Unrecorded
    BY <1>4 DEF Crash, Stop, world, Unrecorded, RecordedContracts, Placed, Held
  <2>2. PICK held : Held \subseteq {held}
    BY DEF Held
  <2>3. after \subseteq before \cup {held}
    BY <2>1, <2>2
  <2> HIDE DEF before, after
  <2>4. Cardinality(after) <= Cardinality(before) + 1 /\ Cardinality(after) \in Nat
    BY <1>2, <2>3, OneMore
  <2>5. QED
    BY <1>2, <2>1, <2>4 DEF after
<1>5. QED
  BY <1>3, <1>4

\* An interrupted run leaves at most one contract the ledger misses: between
\* deploy() and the entry saveContractDeployment makes there is one contract, and
\* whatever cuts the run short, the runs before and after it lose no other.
THEOREM OrphansAreBounded == Spec => []OrphansBounded
<1>1. Init => OrphanInvariant
  <2> SUFFICES ASSUME Init PROVE OrphanInvariant
    OBVIOUS
  <2>1. Unrecorded \ Held = {} /\ crashes = 0
    BY DEF Init, Unrecorded
  <2>2. QED
    BY <2>1, FS_EmptySet DEF OrphanInvariant
<1>2. TypeOK /\ OrphanInvariant => OrphansBounded
  <2> SUFFICES ASSUME TypeOK, OrphanInvariant, tornWrites = 0
               PROVE  Cardinality(Unrecorded) <= crashes + (IF pc = "save" THEN 1 ELSE 0)
    BY DEF OrphansBounded
  <2> DEFINE rest == Unrecorded \ Held
  <2>1. IsFiniteSet(rest) /\ Cardinality(rest) \in Nat /\ Cardinality(rest) <= crashes
        /\ crashes \in Nat /\ Cardinality(Unrecorded) \in Nat /\ IsFiniteSet(Unrecorded)
    BY UnrecordedFinite, FS_Subset, FS_CardinalityType, BoundAssumption
       DEF OrphanInvariant, TypeOK, BoundsOK
  <2>2. CASE pc # "save"
    BY <2>1, <2>2 DEF Held
  <2>3. CASE pc = "save"
    <3>1. Unrecorded \subseteq rest \cup {cache[Current.type]}
      BY <2>3 DEF Held
    <3> HIDE DEF rest
    <3>2. Cardinality(Unrecorded) <= Cardinality(rest) + 1
      BY <2>1, <3>1, OneMore
    <3>3. QED
      BY <2>1, <2>3, <3>2
  <2>4. QED
    BY <2>2, <2>3
<1>3. QED
  BY <1>1, <1>2, OrphanStep, TypeCorrect, RunInvariantHolds, PTL DEF Spec

-----------------------------------------------------------------------------
(***************************************************************************)
(* What keeps its meaning as long as addresses stay.                       *)
(***************************************************************************)
LEMMA ResolveStays ==
  ASSUME NEW a \in Argument, Resolve(a) # NoAddress, AddressesKept
  PROVE  Resolve(a)' = Resolve(a)
BY DEF Resolve, Argument, FindDependency, GetContractAddress, AddressesKept

LEMMA InstanceStays ==
  ASSUME NEW d \in DeployStep, Resolvable(d), AddressesKept
  PROVE  Resolvable(d)' /\ Instance(d)' = Instance(d)
<1>1. \A k \in DOMAIN d.args : d.args[k] \in Argument
  BY DEF DeployStep
<1>2. \A k \in DOMAIN d.args : Resolve(d.args[k])' = Resolve(d.args[k])
  BY <1>1, ResolveStays DEF Resolvable
<1>3. ResolveAll(d.args)' = ResolveAll(d.args)
  BY <1>2 DEF ResolveAll
<1>4. QED
  BY <1>2, <1>3 DEF Resolvable, Instance

\* The steps that write no address.
LEMMA AddressesSame ==
  ASSUME TypeOK, [Next]_vars, ~SaveDeployment, ~WriteContractAddress, ~WriteMockAddress,
         ~TearWrite
  PROVE  outputs'.addresses = outputs.addresses
<1>1. IsDocument(outputs)
  BY DEF TypeOK, WorldTypeOK
<1>2. CASE PrepareDeployment
  BY <1>1, <1>2, RemoveNetworkKeeps DEF PrepareDeployment
<1>3. CASE FinishStage
  <2>1. stage + 1 \in Nat
    BY ScriptAssumption DEF TypeOK, RunTypeOK
  <2>2. QED
    BY <1>1, <1>3, <2>1, WriteStageKeeps DEF FinishStage
<1>4. CASE RecordTransaction \/ DeferCall
  <2>1. stage \in Stages /\ step \in DOMAIN Script[stage]
    BY <1>4, AtStepPlace, RecordPlace DEF RecordTransaction, DeferCall, CallReady
  <2>2. PlainTransaction(StepDescription(Current)) \in Transaction
        /\ DeferredTransaction(StepDescription(Current)) \in Transaction
    BY <2>1, StepTypes, DescriptionType, RecordTypes, SpecialAddresses DEF Current
  <2>3. QED
    BY <1>1, <1>4, <2>2, AddTransactionKeeps
       DEF RecordTransaction, DeferCall, WriteTransaction, SaveDeferredTransaction
<1>5. QED
  BY <1>2, <1>3, <1>4 DEF Next, Progress, Interruption, StartRun, PassRetiredStage,
     SkipFinishedStage, EndRun, SkipRecordedName, CreateContract, ReuseContract, SkipCall,
     SendCall, Abort, Crash, FreshCheckout, vars

-----------------------------------------------------------------------------
(***************************************************************************)
(* A contract the ledger misses is found again.                            *)
(***************************************************************************)
\* Every name that the scripts provide before step k of stage s is recorded.
Reached(s, k) ==
  \A t \in Stages : \A j \in NonCall(t) :
    t < s \/ (t = s /\ j < k) => Recorded(Script[t][j])

\* Step k of stage s has deployed contract i and not recorded it, and it is the next
\* name that any run will record: no run can deploy anything before it gets there, so
\* hardhat-deploy's entry for the type stays the same.
LeftAt(i, s, k) ==
  LET d == Script[s][k] IN
  /\ d.kind = "deploy" /\ Resolvable(d) /\ SameInstance(chain[i], d)
  /\ d.fresh \/ (~Recorded(d) /\ cache[d.type] = i /\ Reached(s, k))

AdoptionInvariant ==
  (tornWrites = 0 /\ checkouts = 0) =>
    \A i \in Unrecorded : \E s \in Stages : \E k \in DOMAIN Script[s] : LeftAt(i, s, k)

\* A run inside a script has reached its step ...
LEMMA RunHasReached ==
  ASSUME TypeOK, RunInvariant, Running
  PROVE  Reached(stage, step)
<1> SUFFICES ASSUME NEW t \in Stages, NEW j \in NonCall(t), t < stage \/ (t = stage /\ j < step)
             PROVE  Recorded(Script[t][j])
  BY DEF Reached
<1>1. CASE t = stage /\ j < step
  BY <1>1 DEF RunInvariant, PassedStepsRecorded, NonCall
<1>2. CASE t < stage
  <2>1. t \notin Retired
    BY ScriptAssumption DEF NonCall
  <2>2. StageAlreadyFinished(t)
    BY <1>2, <2>1 DEF RunInvariant, PassedStagesFinished
  <2>3. QED
    BY <2>2 DEF RunInvariant, FinishedStagesRecorded, NonCall
<1>3. QED
  BY <1>1, <1>2

\* ... and if that step is to record a name, it is the only such place.
LEMMA OnePlace ==
  ASSUME TypeOK, RunInvariant, Running, step \in NonCall(stage), ~Recorded(Current),
         NEW s \in Stages, NEW k \in NonCall(s), ~Recorded(Script[s][k]), Reached(s, k)
  PROVE  s = stage /\ k = step
<1>1. stage \in Stages
  BY DEF TypeOK, RunTypeOK
<1>2. s \in Nat /\ stage \in Nat /\ k \in Nat /\ step \in Nat
  BY <1>1, ScriptLength, ScriptAssumption DEF NonCall, Stages
<1>3. ~(s < stage \/ (s = stage /\ k < step))
  BY RunHasReached DEF Reached
<1>4. ~(stage < s \/ (stage = s /\ step < k))
  BY <1>1 DEF Reached, Current
<1>5. QED
  BY <1>2, <1>3, <1>4

LEMMA LeftStays ==
  ASSUME AddressesKept, ContractsStay, NEW i \in DOMAIN chain,
         NEW s \in Stages, NEW k \in DOMAIN Script[s], LeftAt(i, s, k),
         \/ Script[s][k].fresh
         \/ ~Recorded(Script[s][k])' /\ cache'[Script[s][k].type] = i
  PROVE  LeftAt(i, s, k)'
<1> DEFINE d == Script[s][k]
<1>1. d \in DeployStep /\ d.kind = "deploy" /\ Resolvable(d) /\ SameInstance(chain[i], d)
  BY StepTypes DEF LeftAt
<1>2. Resolvable(d)' /\ Instance(d)' = Instance(d)
  BY <1>1, InstanceStays
<1>3. SameInstance(chain[i], d)'
  BY <1>1, <1>2 DEF SameInstance, ContractsStay
<1>4. CASE d.fresh
  BY <1>1, <1>2, <1>3, <1>4 DEF LeftAt
<1>5. CASE ~d.fresh
  <2>1. Reached(s, k) /\ ~Recorded(d)' /\ cache'[d.type] = i
    BY <1>5 DEF LeftAt
  <2>2. Reached(s, k)'
    <3> SUFFICES ASSUME NEW t \in Stages, NEW j \in NonCall(t), t < s \/ (t = s /\ j < k)
                 PROVE  Recorded(Script[t][j])'
      BY DEF Reached, NonCall, CallSteps
    <3>1. Recorded(Script[t][j])
      BY <2>1 DEF Reached
    <3>2. QED
      BY <3>1, NameOfStep, RecordedStays
  <2>3. QED
    BY <1>1, <1>2, <1>3, <2>1, <2>2 DEF LeftAt
<1>6. QED
  BY <1>4, <1>5

LEMMA NoFreshCheckout ==
  ASSUME TypeOK, [Next]_vars, checkouts' = 0
  PROVE  checkouts = 0 /\ ~FreshCheckout
<1>1. checkouts \in Nat
  BY BoundAssumption DEF TypeOK, BoundsOK
<1>2. ~FreshCheckout
  BY <1>1 DEF FreshCheckout
<1>3. QED
  BY <1>2 DEF Next, Progress, Interruption, StartRun, PassRetiredStage, SkipFinishedStage,
     PrepareDeployment, FinishStage, EndRun, SkipRecordedName, CreateContract, ReuseContract,
     SaveDeployment, WriteContractAddress, WriteMockAddress, RecordTransaction, SkipCall,
     DeferCall, SendCall, Abort, Crash, TearWrite, vars, environment

LEMMA AdoptionStep ==
  TypeOK /\ RunInvariant /\ AdoptionInvariant /\ [Next]_vars => AdoptionInvariant'
<1> SUFFICES ASSUME TypeOK, RunInvariant, AdoptionInvariant, [Next]_vars,
                    tornWrites' = 0, checkouts' = 0,
                    NEW i \in Unrecorded'
             PROVE  \E s \in Stages : \E k \in DOMAIN Script[s] : LeftAt(i, s, k)'
  BY DEF AdoptionInvariant
<1>1. tornWrites = 0 /\ checkouts = 0 /\ AddressesKept /\ ~TearWrite /\ ~FreshCheckout
  BY StillWhole, NoFreshCheckout, GrowthStep DEF Grows, TearWrite
<1>2. ContractsStay /\ RecordedContracts \subseteq RecordedContracts'
  BY <1>1, ChainStep, RecordedContractsStay
<1>3. ASSUME i \in DOMAIN chain
      PROVE  \E s \in Stages : \E k \in DOMAIN Script[s] : LeftAt(i, s, k)
  BY <1>1, <1>2, <1>3 DEF AdoptionInvariant, Unrecorded
\* The new contract is left at the step that deploys it.
<1>4. CASE CreateContract /\ i \notin DOMAIN chain
  <2>1. /\ stage \in Stages /\ step \in DOMAIN Script[stage] /\ Current \in DeployStep
        /\ Current.kind = "deploy" /\ Resolvable(Current) /\ ~Recorded(Current) /\ Running
    BY <1>4, AtStepPlace, StepTypes DEF CreateContract, AtStep, Current
  <2>2. i = Len(chain) + 1
    BY <1>4, CreatedContract DEF Unrecorded
  <2>3. /\ chain'[i].type = Current.type /\ chain'[i].salt = Current.salt
        /\ chain'[i].args = ResolveAll(Current.args) /\ cache'[Current.type] = i
    BY <1>4, <2>1, <2>2, CreatedContract DEF DeployStep
  <2>4. Resolvable(Current)' /\ Instance(Current)' = Instance(Current) /\ outputs' = outputs
        /\ Current' = Current
    BY <1>1, <1>4, <2>1, InstanceStays DEF CreateContract, Current
  <2>5. SameInstance(chain[i], Current)'
    BY <2>3, <2>4 DEF SameInstance, Instance
  <2>6. PICK s \in Stages : s = stage
    BY <2>1
  <2>7. PICK k \in DOMAIN Script[s] : k = step
    BY <2>1, <2>6
  <2>8. Script[s][k] = Current
    BY <2>6, <2>7 DEF Current
  <2>9. Reached(s, k) /\ ~Recorded(Script[s][k])
    BY <2>1, <2>6, <2>7, <2>8, RunHasReached
  <2>10. Reached(s, k)' /\ ~Recorded(Script[s][k])'
    BY <2>4, <2>9 DEF Reached, Recorded, NonCall, CallSteps
  <2>11. LeftAt(i, s, k)'
    <3>1. Resolvable(Script[s][k])' /\ SameInstance(chain[i], Script[s][k])'
      BY <2>4, <2>5, <2>8
    <3>2. Script[s][k].kind = "deploy" /\ cache'[Script[s][k].type] = i
      BY <2>1, <2>3, <2>8
    <3>3. QED
      BY <2>10, <3>1, <3>2 DEF LeftAt
  <2>12. QED
    BY <2>11
\* No other step that deploys or records leaves an unrecorded contract behind, unless
\* it is one that no run will find.
<1>5. ASSUME i \in DOMAIN chain, Running, step \in NonCall(stage), ~Recorded(Current),
             NEW s \in Stages, NEW k \in DOMAIN Script[s], LeftAt(i, s, k),
             ~Script[s][k].fresh
      PROVE  /\ Current.kind = "deploy" /\ cache[Current.type] = i
             /\ Resolvable(Current) /\ SameInstance(chain[i], Current) /\ ~Current.fresh
  <2>1. k \in NonCall(s) /\ ~Recorded(Script[s][k]) /\ Reached(s, k)
    BY <1>5 DEF LeftAt, NonCall, CallSteps
  <2>2. s = stage /\ k = step
    BY <1>5, <2>1, OnePlace
  <2>3. QED
    BY <1>5, <2>2 DEF LeftAt, Current
<1>6. CASE CreateContract /\ i \in DOMAIN chain
  <2>s. PICK s \in Stages : \E k \in DOMAIN Script[s] : LeftAt(i, s, k)
    BY <1>3, <1>6
  <2>1. PICK k \in DOMAIN Script[s] : LeftAt(i, s, k)
    BY <2>s
  <2>2. Script[s][k].fresh
    <3> SUFFICES ASSUME ~Script[s][k].fresh PROVE FALSE
      OBVIOUS
    <3>1. Running /\ step \in NonCall(stage) /\ ~Recorded(Current) /\ ~Reusable(Current)
      BY <1>6, AtStepPlace DEF CreateContract, AtStep, NonCall, CallSteps, Current
    <3>2. /\ Current.kind = "deploy" /\ cache[Current.type] = i
          /\ SameInstance(chain[i], Current) /\ ~Current.fresh
      BY <1>5, <1>6, <2>1, <3>1
    <3>3. i # 0
      BY <1>6, CreatedContract
    <3>4. QED
      BY <3>1, <3>2, <3>3 DEF Reusable
  <2>3. QED
    BY <1>1, <1>2, <1>6, <2>1, <2>2, LeftStays
<1>7. CASE SaveDeployment \/ WriteContractAddress
  <2>1. i \in DOMAIN chain
    BY <1>7, ChainStep DEF Unrecorded, SaveDeployment, WriteContractAddress, world
  <2>s. PICK s \in Stages : \E k \in DOMAIN Script[s] : LeftAt(i, s, k)
    BY <1>3, <2>1
  <2>2. PICK k \in DOMAIN Script[s] : LeftAt(i, s, k)
    BY <2>s
  <2>3. Script[s][k].fresh
    <3> SUFFICES ASSUME ~Script[s][k].fresh PROVE FALSE
      OBVIOUS
    <3>1. /\ stage \in Stages /\ step \in DOMAIN Script[stage] /\ Current.kind = "deploy"
          /\ Running /\ ~Recorded(Current)
      BY <1>7, SavePlace
         DEF SaveDeployment, WriteContractAddress, RunInvariant, WritesOnce, DeployStep
    <3>2. cache[Current.type] = i
      BY <1>5, <2>1, <2>2, <3>1 DEF NonCall, CallSteps, Current
    <3>3. outputs'.addresses[Current.name] = ContractAt(i) /\ Current.name \in Names
      BY <1>7, <3>2, ContractRecorded, DocumentParts DEF TypeOK, WorldTypeOK
    <3>4. i \in RecordedContracts'
      BY <3>3 DEF RecordedContracts, Placed, ContractAt
    <3>5. QED
      BY <3>4 DEF Unrecorded
  <2>4. QED
    BY <1>1, <1>2, <2>1, <2>2, <2>3, LeftStays
<1>8. CASE WriteMockAddress
  <2>1. i \in DOMAIN chain
    BY <1>8 DEF Unrecorded, WriteMockAddress
  <2>s. PICK s \in Stages : \E k \in DOMAIN Script[s] : LeftAt(i, s, k)
    BY <1>3, <2>1
  <2>2. PICK k \in DOMAIN Script[s] : LeftAt(i, s, k)
    BY <2>s
  <2>3. Script[s][k].fresh
    <3>1. Running /\ step \in NonCall(stage) /\ ~Recorded(Current) /\ Current.kind = "mock"
      BY <1>8, AtStepPlace DEF WriteMockAddress, AtStep, NonCall, CallSteps, Current
    <3>2. QED
      BY <1>5, <2>1, <2>2, <3>1
  <2>4. QED
    BY <1>1, <1>2, <2>1, <2>2, <2>3, LeftStays
\* Whatever else a run does, it changes neither addresses nor hardhat-deploy's cache.
<1>9. CASE ~CreateContract /\ ~SaveDeployment /\ ~WriteContractAddress /\ ~WriteMockAddress
  <2>1. outputs'.addresses = outputs.addresses
    BY <1>1, <1>9, AddressesSame
  <2>2. cache' = cache
    BY <1>1, <1>9 DEF Next, Progress, Interruption, StartRun, PassRetiredStage, SkipFinishedStage,
       PrepareDeployment, FinishStage, EndRun, SkipRecordedName, ReuseContract,
       RecordTransaction, SkipCall, DeferCall, SendCall, Abort, Crash, vars, world
  <2>3. i \in DOMAIN chain
    BY <1>9, ChainStep DEF Unrecorded
  <2>s. PICK s \in Stages : \E k \in DOMAIN Script[s] : LeftAt(i, s, k)
    BY <1>3, <2>3
  <2>4. PICK k \in DOMAIN Script[s] : LeftAt(i, s, k)
    BY <2>s
  <2>5. Script[s][k].fresh \/ (~Recorded(Script[s][k])' /\ cache'[Script[s][k].type] = i)
    BY <2>1, <2>2, <2>4 DEF LeftAt, Recorded, FindDependency, GetContractAddress
  <2>6. QED
    BY <1>1, <1>2, <2>3, <2>4, <2>5, LeftStays
<1>10. QED
  BY <1>4, <1>6, <1>7, <1>8, <1>9

\* A crash between deploy() and the entry in the ledger loses nothing: the contract is
\* the one hardhat-deploy returns when a later run comes to the step that deployed it,
\* because no run can deploy another one before.
THEOREM OrphansAreAdopted == Spec => []UnrecordedIsAdoptable
<1>1. Init => AdoptionInvariant
  <2> SUFFICES ASSUME Init PROVE Unrecorded = {}
    BY DEF AdoptionInvariant
  <2>1. QED
    BY DEF Init, Unrecorded
<1>2. AdoptionInvariant => UnrecordedIsAdoptable
  BY DEF AdoptionInvariant, UnrecordedIsAdoptable, LeftAt
<1>3. QED
  BY <1>1, <1>2, AdoptionStep, TypeCorrect, RunInvariantHolds, PTL DEF Spec

-----------------------------------------------------------------------------
(***************************************************************************)
(* A recorded contract is the one its script would deploy.                 *)
(***************************************************************************)
\* Contract i is what deployment d creates with the addresses the ledger has.
Deploys(d, i) == i \in DOMAIN chain /\ Resolvable(d) /\ SameInstance(chain[i], d)

\* The ledger has a contract of the chain for d, and it is d's.
Matches(d) ==
  LET a == outputs.addresses[d.name] IN a[1] = "contract" => Deploys(d, a[2])

\* ... also the one that the run is about to record.
ScriptedInvariant ==
  /\ \A s \in Stages : \A k \in NonCall(s) :
       Script[s][k].kind = "deploy" => Matches(Script[s][k])
  /\ pc = "save" => Deploys(Current, cache[Current.type])

LEMMA StepInSteps ==
  ASSUME NEW s \in Stages, NEW k \in DOMAIN Script[s]
  PROVE  Script[s][k] \in Steps
BY DEF Steps

LEMMA SameDeployment ==
  ASSUME NEW d \in Steps, NEW e \in Steps, d.kind = "deploy", e.kind = "deploy",
         d.name = e.name, NEW i, Deploys(d, i)
  PROVE  Deploys(e, i)
<1>1. d.type = e.type /\ d.salt = e.salt /\ d.args = e.args
  BY DeploymentAssumption
<1>2. QED
  BY <1>1 DEF Deploys, Resolvable, SameInstance, Instance

LEMMA DeploysStays ==
  ASSUME AddressesKept, ContractsStay, NEW d \in DeployStep, NEW i, Deploys(d, i)
  PROVE  Deploys(d, i)'
BY InstanceStays DEF Deploys, SameInstance, ContractsStay

\* A step that leaves the address of d's name as it is leaves the contract as it is.
LEMMA MatchesStays ==
  ASSUME AddressesKept, ContractsStay, NEW d \in DeployStep, Matches(d),
         outputs'.addresses[d.name] = outputs.addresses[d.name]
  PROVE  Matches(d)'
BY DeploysStays DEF Matches

LEMMA ScriptedStep ==
  TypeOK /\ RunInvariant /\ ScriptedInvariant /\ [Next]_vars => ScriptedInvariant'
<1> SUFFICES ASSUME TypeOK, RunInvariant, ScriptedInvariant, [Next]_vars
             PROVE  ScriptedInvariant'
  OBVIOUS
<1>1. ContractsStay
  BY ChainStep
<1>2. ASSUME ~TearWrite PROVE AddressesKept
  <2>1. tornWrites' = tornWrites
    BY <1>2 DEF Next, Progress, Interruption, StartRun, PassRetiredStage, SkipFinishedStage,
       PrepareDeployment, FinishStage, EndRun, SkipRecordedName, CreateContract, ReuseContract,
       SaveDeployment, WriteContractAddress, WriteMockAddress, RecordTransaction, SkipCall,
       DeferCall, SendCall, Abort, Crash, FreshCheckout, vars, environment
  <2>2. QED
    BY <2>1, GrowthStep DEF Grows
\* What the ledger has.
<1>3. ASSUME NEW s \in Stages, NEW k \in NonCall(s), Script[s][k].kind = "deploy"
      PROVE  Matches(Script[s][k])'
  <2> DEFINE d == Script[s][k]
  <2>1. d \in DeployStep /\ d \in Steps /\ d.name \in Names /\ Matches(d)
    BY <1>3, NameOfStep, StepTypes, StepInSteps DEF ScriptedInvariant
  <2>2. outputs.addresses \in [Names -> Address]
    BY DocumentParts DEF TypeOK, WorldTypeOK
  <2>3. CASE TearWrite
    <3>1. outputs'.addresses[d.name] = NoAddress
      BY <2>1, <2>3 DEF TearWrite, EmptyOutputs
    <3>2. NoAddress[1] # "contract"
      BY DEF NoAddress
    <3>3. QED
      BY <3>1, <3>2 DEF Matches
  <2>4. CASE (SaveDeployment \/ WriteContractAddress) /\ Current.name = d.name
    <3>1. /\ stage \in Stages /\ step \in DOMAIN Script[stage] /\ pc = "save"
          /\ Current \in DeployStep
      BY <2>4, SavePlace DEF SaveDeployment, WriteContractAddress
    <3>2. Current \in Steps /\ Current.kind = "deploy" /\ Deploys(Current, cache[Current.type])
      BY <3>1, StepInSteps DEF ScriptedInvariant, Current, DeployStep
    <3>3. PICK i : i = cache[Current.type]
      OBVIOUS
    <3>4. Deploys(d, i)
      BY <1>3, <2>1, <2>4, <3>2, <3>3, SameDeployment
    <3>5. ~TearWrite
      BY <2>4 DEF SaveDeployment, WriteContractAddress, TearWrite, NextStep, Stop
    <3>6. Deploys(d, i)'
      BY <1>1, <1>2, <2>1, <3>4, <3>5, DeploysStays
    <3>7. outputs'.addresses[d.name] = ContractAt(i)
      BY <2>1, <2>2, <2>4, <3>3, ContractRecorded
    <3>8. QED
      BY <3>6, <3>7 DEF Matches, ContractAt
  <2>5. CASE (SaveDeployment \/ WriteContractAddress) /\ Current.name # d.name
    <3>1. outputs'.addresses[d.name] = outputs.addresses[d.name]
      BY <2>1, <2>2, <2>5, ContractRecorded
    <3>2. ~TearWrite
      BY <2>5 DEF SaveDeployment, WriteContractAddress, TearWrite, NextStep, Stop
    <3>3. QED
      BY <1>1, <1>2, <2>1, <3>1, <3>2, MatchesStays
  <2>6. CASE WriteMockAddress
    <3>1. Current.name \in Names /\ randoms + 1 \in Nat /\ IsDocument(outputs)
      BY <2>6, AtStepPlace, StepTypes
         DEF WriteMockAddress, Current, MockStep, TypeOK, WorldTypeOK
    <3>2. PICK a \in Address : a[1] # "contract" /\ outputs' = SetAddress(outputs, Current.name, a)
      BY <2>6, <3>1, SpecialAddresses DEF WriteMockAddress, Deployer, RandomAddress
    <3>3. outputs'.addresses = [outputs.addresses EXCEPT ![Current.name] = a]
      BY <3>1, <3>2, SetAddressKeeps
    <3>4. CASE Current.name = d.name
      BY <2>1, <2>2, <3>2, <3>3, <3>4 DEF Matches
    <3>5. CASE Current.name # d.name
      <4>1. ~TearWrite
        BY <2>6 DEF WriteMockAddress, TearWrite, Stop
      <4>2. QED
        BY <1>1, <1>2, <2>1, <2>2, <3>3, <3>5, <4>1, MatchesStays
    <3>6. QED
      BY <3>4, <3>5
  <2>7. CASE ~TearWrite /\ ~SaveDeployment /\ ~WriteContractAddress /\ ~WriteMockAddress
    BY <1>1, <1>2, <2>1, <2>7, AddressesSame, MatchesStays
  <2>8. QED
    BY <2>3, <2>4, <2>5, <2>6, <2>7
\* What the run is about to record.
<1>4. ASSUME pc' = "save" PROVE Deploys(Current, cache[Current.type])'
  <2>1. CASE CreateContract
    <3>1. /\ Current \in DeployStep /\ Resolvable(Current) /\ Current' = Current
          /\ Current.type \in Types /\ ~TearWrite
      BY <2>1, AtStepPlace, StepTypes DEF CreateContract, Current, DeployStep, TearWrite, Stop
    <3>2. Resolvable(Current)' /\ Instance(Current)' = Instance(Current)
      BY <1>2, <3>1, InstanceStays
    <3>3. cache'[Current.type] = Len(chain) + 1
      BY <2>1, <3>1, CreatedContract
    <3>4. QED
      BY <2>1, <3>1, <3>2, <3>3, CreatedContract DEF Deploys, SameInstance, Instance
  <2>2. CASE ReuseContract
    <3>1. /\ Current \in DeployStep /\ Resolvable(Current) /\ Reusable(Current)
          /\ UNCHANGED <<outputs, chain, cache>> /\ Current' = Current
      BY <2>2, AtStepPlace, StepTypes DEF ReuseContract, Current, world
    <3>2. cache[Current.type] \in DOMAIN chain
      <4>1. cache[Current.type] \in 0..Len(chain) /\ chain \in Seq(Contract)
        BY <3>1 DEF TypeOK, WorldTypeOK, DeployStep
      <4>2. QED
        BY <3>1, <4>1 DEF Reusable
    <3>3. Deploys(Current, cache[Current.type])
      BY <3>1, <3>2 DEF Deploys, Reusable
    <3>4. QED
      BY <3>1, <3>3 DEF Deploys, Resolvable, SameInstance, Instance, ResolveAll, Resolve
  <2>3. CASE UNCHANGED vars
    BY <1>4, <2>3 DEF vars, world, ScriptedInvariant, Deploys, Current, Resolvable,
       SameInstance, Instance, ResolveAll, Resolve
  <2>4. QED
    BY <1>4, <2>1, <2>2, <2>3
       DEF Next, Progress, Interruption, StartRun, PassRetiredStage, ToStage, Stop, NextStep,
       SkipFinishedStage, PrepareDeployment, FinishStage, EndRun, SkipRecordedName,
       SaveDeployment, WriteContractAddress, WriteMockAddress, RecordTransaction, SkipCall,
       DeferCall, SendCall, Abort, Crash, TearWrite, FreshCheckout
<1>5. QED
  BY <1>3, <1>4 DEF ScriptedInvariant, NonCall, CallSteps

LEMMA ScriptedInit == Init => ScriptedInvariant
<1> SUFFICES ASSUME Init, NEW s \in Stages, NEW k \in NonCall(s)
             PROVE  Matches(Script[s][k])
  BY DEF ScriptedInvariant, Init
<1>1. Script[s][k].name \in Names /\ outputs = EmptyOutputs
  BY NameOfStep DEF Init
<1>2. NoAddress[1] # "contract"
  BY DEF NoAddress
<1>3. QED
  BY <1>1, <1>2 DEF Matches, EmptyOutputs

\* The chain agrees with the ledger.  A recorded contract was created with the type, the
\* constants and the addresses its script would give it now, though runs stop and start
\* again between the writes: addresses never move, and hardhat-deploy reuses a contract
\* only if its creation data is what this run would send.
THEOREM ContractsAreScripted == Spec => []DeployedAsScripted
<1>1. ScriptedInvariant => DeployedAsScripted
  BY DEF ScriptedInvariant, DeployedAsScripted, Matches, Deploys, GetContractAddress, NonCall
<1>2. QED
  BY <1>1, ScriptedInit, ScriptedStep, TypeCorrect, RunInvariantHolds, PTL DEF Spec

-----------------------------------------------------------------------------
(***************************************************************************)
(* No contract has two names.                                              *)
(***************************************************************************)
\* The addresses a step leaves alone, and what the others write.
LEMMA AddressSteps ==
  ASSUME TypeOK, RunInvariant, [Next]_vars
  PROVE  \/ outputs'.addresses = outputs.addresses
         \/ TearWrite /\ outputs'.addresses = [n \in Names |-> NoAddress]
         \/ \E s \in Steps, a \in Address :
              /\ s.name \in Names /\ s.kind # "call" /\ s = Current
              /\ outputs'.addresses = [outputs.addresses EXCEPT ![s.name] = a]
              /\ \/ /\ s.kind = "deploy" /\ pc = "save"
                    /\ cache[s.type] \in DOMAIN chain /\ a = ContractAt(cache[s.type])
                 \/ s.kind = "mock" /\ s.value = "deployer" /\ a = Deployer
                 \/ /\ s.kind = "mock" /\ s.value = "random"
                    /\ a = RandomAddress(randoms + 1) /\ randoms' = randoms + 1
<1>1. CASE SaveDeployment \/ WriteContractAddress
  <2>1. /\ stage \in Stages /\ step \in DOMAIN Script[stage] /\ pc = "save"
        /\ Current \in DeployStep /\ Current.kind = "deploy" /\ Current.name \in Names
        /\ cache[Current.type] \in Nat \ {0}
    BY <1>1, SavePlace, ContractRecorded DEF SaveDeployment, WriteContractAddress, DeployStep
  <2>2. Current \in Steps
    BY <2>1, StepInSteps DEF Current
  <2>3. cache[Current.type] \in DOMAIN chain
    <3>1. cache[Current.type] \in 0..Len(chain) /\ chain \in Seq(Contract)
      BY <2>1 DEF TypeOK, WorldTypeOK, DeployStep
    <3>2. QED
      BY <2>1, <3>1
  <2>4. ContractAt(cache[Current.type]) \in Address
    BY <2>1, SpecialAddresses
  <2>5. QED
    BY <1>1, <2>1, <2>2, <2>3, <2>4, ContractRecorded
<1>2. CASE WriteMockAddress
  <2>1. /\ stage \in Stages /\ step \in DOMAIN Script[stage]
        /\ Current \in MockStep /\ Current.kind = "mock"
        /\ randoms + 1 \in Nat /\ IsDocument(outputs)
    BY <1>2, AtStepPlace, StepTypes DEF WriteMockAddress, Current, TypeOK, WorldTypeOK
  <2>2. Current \in Steps /\ Current.name \in Names
    BY <2>1, StepInSteps DEF Current, MockStep
  <2>3. PICK a \in Address :
          /\ outputs' = SetAddress(outputs, Current.name, a)
          /\ \/ Current.value = "deployer" /\ a = Deployer
             \/ /\ Current.value = "random"
                /\ a = RandomAddress(randoms + 1) /\ randoms' = randoms + 1
    BY <1>2, <2>1, SpecialAddresses DEF WriteMockAddress
  <2>4. outputs'.addresses = [outputs.addresses EXCEPT ![Current.name] = a]
    BY <2>1, <2>2, <2>3, SetAddressKeeps
  <2>5. QED
    BY <2>1, <2>2, <2>3, <2>4
<1>3. CASE TearWrite
  BY <1>3 DEF TearWrite, EmptyOutputs
<1>4. QED
  BY <1>1, <1>2, <1>3, AddressesSame

\* Where the ledger's addresses come from.
Sources ==
  \A n \in Names : LET a == outputs.addresses[n] IN
    \/ a = NoAddress
    \/ a = Deployer /\ \E s \in Providers(n) : s.kind = "mock" /\ s.value = "deployer"
    \/ a[1] = "contract" /\ \E s \in Providers(n) : s.kind = "deploy"
    \/ Providers(n) # {} /\ \E i \in 1..randoms : a = RandomAddress(i)

\* A random address is drawn once.
RandomsOnce ==
  \A n, m \in Names : (/\ outputs.addresses[n] = outputs.addresses[m]
                       /\ outputs.addresses[n][1] = "random") => n = m

AliasInvariant == Sources /\ RandomsOnce /\ (DeploymentsDiffer => NoAliases)

\* Names with addresses of their own have different ones.
LEMMA ApartAddresses ==
  ASSUME DeploymentsDiffer, TypeOK, AliasInvariant, NEW a, NEW b, Apart(a, b),
         Resolve(a) # NoAddress
  PROVE  Resolve(a) # Resolve(b)
<1>1. ASSUME NEW n, HasOwnAddress(n), n \notin KnownDependencies
      PROVE  /\ n \in Names /\ Resolve(n) = outputs.addresses[n] /\ Resolve(n)[1] \in Tags
             /\ Resolve(n) # Deployer
             /\ Resolve(n) # NoAddress => Resolve(n)[1] \in {"contract", "random"}
  <2>1. n \in Names /\ Resolve(n) = outputs.addresses[n]
    BY <1>1, NamesAssumption DEF HasOwnAddress, Resolve, FindDependency, GetContractAddress, Tags
  <2>2. \A s \in Providers(n) : s.kind = "mock" => s.value = "random"
    BY <1>1 DEF HasOwnAddress
  <2>3. PICK r : r = Resolve(n)
    OBVIOUS
  <2>4. \/ r = NoAddress \/ r[1] = "contract" \/ \E i \in 1..randoms : r = RandomAddress(i)
    BY <2>1, <2>2, <2>3 DEF AliasInvariant, Sources
  <2>5. NoAddress[1] = "" /\ Deployer[1] = "deployer" /\ \A i : RandomAddress(i)[1] = "random"
    BY DEF NoAddress, Deployer, RandomAddress
  <2>6. r[1] \in Tags /\ r # Deployer /\ (r # NoAddress => r[1] \in {"contract", "random"})
    <3>1. CASE r = NoAddress
      BY <2>5, <3>1 DEF Tags
    <3>2. CASE r[1] = "contract"
      BY <2>5, <3>2 DEF Tags
    <3>3. CASE \E i \in 1..randoms : r = RandomAddress(i)
      BY <2>5, <3>3 DEF Tags
    <3>4. QED
      BY <2>4, <3>1, <3>2, <3>3
  <2>7. QED
    BY <2>1, <2>3, <2>6
<1>2. ASSUME NEW n \in KnownDependencies
      PROVE  Resolve(n) = <<n, 0>> /\ n \notin Tags
  BY NamesAssumption DEF Resolve, FindDependency, KnownAddress, Tags
<1>3. Resolve("deployer") = <<"deployer", 0>> /\ "deployer" \in Tags /\ "deployer" \notin Names
  BY NamesAssumption DEF Resolve, Deployer, Tags
<1>4. a # b /\ (HasOwnAddress(a) \/ a = "deployer") /\ (HasOwnAddress(b) \/ b = "deployer")
  BY DEF Apart
<1>5. CASE a \in KnownDependencies \/ b \in KnownDependencies
  BY <1>1, <1>2, <1>3, <1>4, <1>5
<1>6. CASE a = "deployer" \/ b = "deployer"
  BY <1>1, <1>2, <1>3, <1>4, <1>6 DEF Deployer
<1>7. CASE /\ HasOwnAddress(a) /\ a \notin KnownDependencies
           /\ HasOwnAddress(b) /\ b \notin KnownDependencies
  BY <1>1, <1>4, <1>7 DEF AliasInvariant, RandomsOnce, NoAliases, Placed
<1>8. QED
  BY <1>4, <1>5, <1>6, <1>7

LEMMA RandomsGrow ==
  ASSUME TypeOK, [Next]_vars
  PROVE  randoms \in Nat /\ randoms' \in Nat /\ randoms <= randoms'
<1>1. randoms \in Nat
  BY DEF TypeOK, WorldTypeOK
<1>2. randoms' \in {randoms, randoms + 1}
  BY DEF Next, Progress, Interruption, StartRun, PassRetiredStage, SkipFinishedStage,
     PrepareDeployment, FinishStage, EndRun, SkipRecordedName, CreateContract, ReuseContract,
     SaveDeployment, WriteContractAddress, WriteMockAddress, RecordTransaction, SkipCall,
     DeferCall, SendCall, Abort, Crash, TearWrite, FreshCheckout, vars, world
<1>3. QED
  BY <1>1, <1>2

\* A contract has been recorded for one deployment at most: two would differ in their
\* constants, or in an argument that names two contracts which are older.
LEMMA OneContractOneName ==
  ASSUME DeploymentsDiffer, TypeOK, AliasInvariant,
         NEW d \in Steps, NEW e \in Steps, d.kind = "deploy", e.kind = "deploy",
         NEW i, Deploys(d, i), Deploys(e, i)
  PROVE  d.name = e.name
<1> SUFFICES ASSUME d.name # e.name PROVE FALSE
  OBVIOUS
<1>1. d \in DeployStep /\ e \in DeployStep
  <2>1. d \in UNION {{Script[s][k] : k \in DOMAIN Script[s]} : s \in Stages}
        /\ e \in UNION {{Script[s][k] : k \in DOMAIN Script[s]} : s \in Stages}
    BY DEF Steps
  <2>2. QED
    BY <2>1, StepTypes
<1>2. d.args \in Seq(Argument) /\ e.args \in Seq(Argument)
  BY <1>1 DEF DeployStep
<1>3. Instance(d) = Instance(e)
  BY DEF Deploys, SameInstance
<1>4. d.type = e.type /\ d.salt = e.salt /\ ResolveAll(d.args) = ResolveAll(e.args)
  BY <1>3 DEF Instance
<1>5. Len(d.args) = Len(e.args)
  <2>1. DOMAIN d.args = DOMAIN e.args
    BY <1>4 DEF ResolveAll
  <2>2. QED
    BY <1>2, <2>1
<1>6. PICK k \in DOMAIN d.args : Apart(d.args[k], e.args[k])
  BY <1>4, <1>5 DEF DeploymentsDiffer
<1>7. Resolve(d.args[k]) = Resolve(e.args[k]) /\ Resolve(d.args[k]) # NoAddress
  <2>1. k \in DOMAIN e.args
    BY <1>2, <1>5
  <2>2. QED
    BY <1>4, <2>1 DEF ResolveAll, Deploys, Resolvable
<1>8. QED
  BY <1>6, <1>7, ApartAddresses

LEMMA AliasStep ==
  ASSUME TypeOK, RunInvariant, ScriptedInvariant, AliasInvariant, [Next]_vars
  PROVE  AliasInvariant'
<1>1. outputs.addresses \in [Names -> Address]
  BY DocumentParts DEF TypeOK, WorldTypeOK
<1>2. randoms \in Nat /\ randoms' \in Nat /\ randoms <= randoms'
  BY RandomsGrow
<1>3. /\ NoAddress[1] = "" /\ Deployer[1] = "deployer"
      /\ \A i : ContractAt(i)[1] = "contract" /\ ContractAt(i)[2] = i
      /\ \A i : RandomAddress(i)[1] = "random" /\ RandomAddress(i)[2] = i
  BY DEF NoAddress, Deployer, ContractAt, RandomAddress
<1>4. CASE outputs'.addresses = outputs.addresses
  <2>1. Sources'
    BY <1>2, <1>4 DEF AliasInvariant, Sources
  <2>2. RandomsOnce' /\ (DeploymentsDiffer => NoAliases')
    BY <1>4 DEF AliasInvariant, RandomsOnce, NoAliases, Placed
  <2>3. QED
    BY <2>1, <2>2 DEF AliasInvariant
<1>5. CASE outputs'.addresses = [n \in Names |-> NoAddress]
  BY <1>3, <1>5 DEF AliasInvariant, Sources, RandomsOnce, NoAliases, Placed
<1>6. ASSUME NEW s \in Steps, NEW a \in Address,
             s.name \in Names, s.kind # "call", s = Current,
             outputs'.addresses = [outputs.addresses EXCEPT ![s.name] = a],
             \/ /\ s.kind = "deploy" /\ pc = "save"
                /\ cache[s.type] \in DOMAIN chain /\ a = ContractAt(cache[s.type])
             \/ s.kind = "mock" /\ s.value = "deployer" /\ a = Deployer
             \/ /\ s.kind = "mock" /\ s.value = "random"
                /\ a = RandomAddress(randoms + 1) /\ randoms' = randoms + 1
      PROVE  AliasInvariant'
  <2>1. s \in Providers(s.name)
    BY <1>6 DEF Providers
  <2>2. Sources'
    <3> SUFFICES ASSUME NEW n \in Names, NEW b, b = outputs'.addresses[n]
                 PROVE  \/ b = NoAddress
                        \/ b = Deployer /\ \E t \in Providers(n) : t.kind = "mock" /\ t.value = "deployer"
                        \/ b[1] = "contract" /\ \E t \in Providers(n) : t.kind = "deploy"
                        \/ Providers(n) # {} /\ \E i \in 1..randoms' : b = RandomAddress(i)
      BY DEF Sources
    <3>1. CASE n = s.name
      <4>1. b = a
        BY <1>1, <1>6, <3>1
      <4>2. CASE s.kind = "deploy"
        <5>1. a[1] = "contract"
          BY <1>6, <4>2 DEF ContractAt
        <5>2. QED
          BY <2>1, <3>1, <4>1, <4>2, <5>1
      <4>3. CASE s.kind = "mock" /\ s.value = "deployer" /\ a = Deployer
        BY <2>1, <3>1, <4>1, <4>3
      <4>4. CASE a = RandomAddress(randoms + 1) /\ randoms' = randoms + 1
        <5>1. randoms + 1 \in 1..randoms'
          BY <1>2, <4>4
        <5>2. QED
          BY <2>1, <3>1, <4>1, <4>4, <5>1
      <4>5. QED
        BY <1>6, <4>2, <4>3, <4>4
    <3>2. CASE n # s.name
      <4>1. b = outputs.addresses[n]
        BY <1>1, <1>6, <3>2
      <4>2. QED
        BY <1>2, <4>1 DEF AliasInvariant, Sources
    <3>3. QED
      BY <3>1, <3>2
  <2>3. ASSUME NEW n \in Names, n # s.name, outputs.addresses[n] = a, a[1] = "random" PROVE FALSE
    <3>1. a = RandomAddress(randoms + 1)
      BY <1>3, <1>6, <2>3
    <3>2. PICK i \in 1..randoms : a = RandomAddress(i)
      BY <1>3, <2>3 DEF AliasInvariant, Sources
    <3>3. a[2] = randoms + 1 /\ a[2] = i
      BY <1>3, <3>1, <3>2
    <3>4. QED
      BY <1>2, <3>3
  <2>4. RandomsOnce'
    BY <1>1, <1>6, <2>3 DEF AliasInvariant, RandomsOnce
  <2>5. ASSUME DeploymentsDiffer, NEW n \in Names, n # s.name, outputs.addresses[n] = a,
               a[1] = "contract"
        PROVE  FALSE
    <3>1. s.kind = "deploy" /\ pc = "save" /\ a = ContractAt(cache[s.type])
      BY <1>3, <1>6, <2>5
    <3>2. Deploys(s, cache[s.type])
      BY <1>6, <3>1 DEF ScriptedInvariant
    <3>3. PICK t \in Providers(n) : t.kind = "deploy"
      BY <1>3, <2>5 DEF AliasInvariant, Sources
    <3>4. t \in Steps /\ t.name = n
      BY DEF Providers
    <3>5. Matches(t)
      <4>1. PICK r \in Stages : \E k \in DOMAIN Script[r] : t = Script[r][k]
        BY <3>4 DEF Steps
      <4>2. PICK k \in DOMAIN Script[r] : t = Script[r][k]
        BY <4>1
      <4>3. QED
        BY <3>3, <4>2 DEF ScriptedInvariant, NonCall, CallSteps
    <3>6. Deploys(t, cache[s.type])
      <4>1. outputs.addresses[t.name] = a /\ a[2] = cache[s.type]
        BY <2>5, <3>1, <3>4 DEF ContractAt
      <4>2. QED
        BY <2>5, <3>5, <4>1 DEF Matches
    <3>7. PICK i : i = cache[s.type]
      OBVIOUS
    <3>8. QED
      BY <2>5, <3>1, <3>2, <3>3, <3>4, <3>6, <3>7, OneContractOneName
  <2>6. DeploymentsDiffer => NoAliases'
    BY <1>1, <1>6, <2>5 DEF AliasInvariant, NoAliases, Placed
  <2>7. QED
    BY <2>2, <2>4, <2>6 DEF AliasInvariant
<1>7. QED
  BY <1>4, <1>5, <1>6, AddressSteps

LEMMA AliasInit == Init => AliasInvariant
<1> SUFFICES ASSUME Init PROVE AliasInvariant
  OBVIOUS
<1>1. NoAddress[1] = ""
  BY DEF NoAddress
<1>2. QED
  BY <1>1 DEF Init, EmptyOutputs, AliasInvariant, Sources, RandomsOnce, NoAliases, Placed

\* hardhat-deploy returns the contract a crash left unrecorded, and never one that has a
\* name already, if the scripts' deployments differ in what it compares.
THEOREM NamesAreUnique == DeploymentsDiffer => (Spec => []NoAliases)
<1> SUFFICES ASSUME DeploymentsDiffer PROVE Spec => []NoAliases
  OBVIOUS
<1>1. TypeOK /\ RunInvariant /\ ScriptedInvariant /\ AliasInvariant /\ [Next]_vars => AliasInvariant'
  BY AliasStep
<1>2. AliasInvariant => NoAliases
  BY DEF AliasInvariant
<1>3. QED
  BY <1>1, <1>2, ScriptedInit, AliasInit, ScriptedStep, TypeCorrect, RunInvariantHolds, PTL
     DEF Spec

-----------------------------------------------------------------------------
(***************************************************************************)
(* What the ledger and the chain hold without a record.                    *)
(***************************************************************************)
LEMMA CallStepParts ==
  ASSUME NEW c \in Steps, c.kind = "call"
  PROVE  /\ c \in CallStep /\ c.kind = "call" /\ c.op \in Operation
         /\ c.target \in Names /\ c.target \in Argument /\ c.subject \in Argument
<1>1. PICK s \in Stages : \E k \in DOMAIN Script[s] : c = Script[s][k]
  BY DEF Steps
<1>2. c \in CallStep
  BY <1>1, StepTypes
<1>3. QED
  BY <1>2 DEF CallStep, Argument

\* The records a step leaves alone, and the one it adds.
LEMMA RecordSteps ==
  ASSUME TypeOK, RunInvariant, [Next]_vars
  PROVE  \/ outputs'.transactions = outputs.transactions
         \/ TearWrite /\ outputs'.transactions = <<>>
         \/ \E tx \in Transaction :
              /\ \E k \in DOMAIN outputs'.transactions : outputs'.transactions[k] = tx
              /\ \A k \in DOMAIN outputs'.transactions :
                   \/ outputs'.transactions[k] = tx
                   \/ /\ k \in DOMAIN outputs.transactions
                      /\ outputs'.transactions[k] = outputs.transactions[k]
              /\ (tx.deferred <=> DeferCall) /\ tx.description = StepDescription(Current)
<1>1. IsDocument(outputs) /\ outputs.addresses \in [Names -> Address]
  BY DocumentParts DEF TypeOK, WorldTypeOK
<1>2. CASE RecordTransaction \/ DeferCall
  <2>1. stage \in Stages /\ step \in DOMAIN Script[stage]
    BY <1>2, AtStepPlace, RecordPlace DEF RecordTransaction, DeferCall, CallReady
  <2> DEFINE plain == PlainTransaction(StepDescription(Current))
             deferred == DeferredTransaction(StepDescription(Current))
  <2>2. plain \in Transaction /\ deferred \in Transaction
    BY <2>1, StepTypes, DescriptionType, RecordTypes, SpecialAddresses DEF Current
  <2>3. /\ ~plain.deferred /\ plain.description = StepDescription(Current)
        /\ deferred.deferred /\ deferred.description = StepDescription(Current)
    BY DEF PlainTransaction, DeferredTransaction
  <2>4. RecordTransaction => outputs' = AddTransaction(outputs, plain) /\ pc = "record"
    BY DEF RecordTransaction, WriteTransaction
  <2>5. DeferCall => outputs' = AddTransaction(outputs, deferred) /\ pc = "step"
    BY DEF DeferCall, SaveDeferredTransaction, CallReady, AtStep
  <2> HIDE DEF plain, deferred
  <2>6. CASE RecordTransaction
    <3>1. ~DeferCall
      BY <2>4, <2>5, <2>6
    <3>2. QED
      BY <1>1, <2>2, <2>3, <2>4, <2>6, <3>1, AddedRecord
  <2>7. CASE DeferCall
    BY <1>1, <2>2, <2>3, <2>5, <2>7, AddedRecord
  <2>8. QED
    BY <1>2, <2>6, <2>7
<1>3. CASE SaveDeployment
  <2>1. /\ Current \in DeployStep /\ Current.name \in Names
        /\ outputs.addresses[Current.name] = NoAddress /\ cache[Current.type] \in Nat
    BY <1>3, ContractRecorded, SavePlace DEF SaveDeployment
  <2>2. StepDescription(Current) \in Description /\ ContractAt(cache[Current.type]) \in Address
    BY <2>1, DescriptionType, SpecialAddresses
  <2> DEFINE a == ContractAt(cache[Current.type])
             tx == DeploymentTransaction(StepDescription(Current), a)
             addressed == SetAddress(outputs, Current.name, a)
  <2>3. tx \in Transaction /\ ~tx.deferred /\ tx.description = StepDescription(Current)
    BY <2>2, RecordTypes DEF DeploymentTransaction, PlainTransaction
  <2>4. IsDocument(addressed) /\ addressed.transactions = outputs.transactions
    BY <1>1, <2>1, <2>2, SetAddressKeeps
  <2>5. outputs' = AddTransaction(addressed, tx) /\ ~DeferCall
    BY <1>3, <2>1 DEF SaveDeployment, SaveContractDeployment, GetContractAddress, DeferCall,
       CallReady, AtStep
  <2> HIDE DEF a, tx, addressed
  <2>6. QED
    BY <2>3, <2>4, <2>5, AddedRecord
<1>4. CASE WriteContractAddress \/ WriteMockAddress
  <2>1. Current.name \in Names /\ randoms + 1 \in Nat
    BY <1>4, ContractRecorded, AtStepPlace, StepTypes
       DEF WriteMockAddress, Current, MockStep, TypeOK, WorldTypeOK
  <2>2. WriteContractAddress => cache[Current.type] \in Nat
    BY SavePlace DEF WriteContractAddress
  <2>3. PICK a \in Address : outputs' = SetAddress(outputs, Current.name, a)
    BY <1>4, <2>1, <2>2, SpecialAddresses DEF WriteContractAddress, WriteMockAddress
  <2>4. QED
    BY <1>1, <2>1, <2>3, SetAddressKeeps
<1>5. CASE PrepareDeployment
  BY <1>1, <1>5, RemoveNetworkKeeps DEF PrepareDeployment
<1>6. CASE FinishStage
  <2>1. stage + 1 \in Nat
    BY ScriptAssumption DEF TypeOK, RunTypeOK
  <2>2. QED
    BY <1>1, <1>6, <2>1, WriteStageKeeps DEF FinishStage
<1>7. CASE TearWrite
  BY <1>7 DEF TearWrite, EmptyOutputs
<1>8. QED
  BY <1>2, <1>3, <1>4, <1>5, <1>6, <1>7 DEF Next, Progress, Interruption, StartRun,
     PassRetiredStage, SkipFinishedStage, EndRun, SkipRecordedName, CreateContract,
     ReuseContract, SkipCall, SendCall, Abort, Crash, FreshCheckout, vars

\* What the run is about to record.
Doing == IF pc = "record" THEN {StepDescription(Current)} ELSE {}

\* An effect on the chain is one of a call whose addresses the ledger has.
MadeBy(c) == /\ c \in Steps /\ c.kind = "call"
             /\ Resolve(c.target) # NoAddress /\ Resolve(c.subject) # NoAddress

EffectsAreCalls == \A e \in effects : \E c \in Steps : MadeBy(c) /\ e = Effect(c)

\* Everything else without a record was left by a run that was cut short.
TrackInvariant ==
  tornWrites = 0 => /\ EffectsAreCalls
                    /\ IsFiniteSet(Untracked \ Doing)
                    /\ Cardinality(Untracked \ Doing) <= crashes

LEMMA MadeByStays ==
  ASSUME AddressesKept, NEW c, MadeBy(c)
  PROVE  MadeBy(c)' /\ Effect(c)' = Effect(c)
<1>1. Resolve(c.target)' = Resolve(c.target) /\ Resolve(c.subject)' = Resolve(c.subject)
  BY CallStepParts, ResolveStays DEF MadeBy
<1>2. QED
  BY <1>1 DEF MadeBy, Effect

\* Calls with one effect have one description.
EffectsTell ==
  \A c, d \in Steps :
    (MadeBy(c) /\ d.kind = "call" /\ Effect(c) = Effect(d)) =>
      <<c.op, c.target, c.subject>> = <<d.op, d.target, d.subject>>

LEMMA EffectsTellCalls ==
  DeploymentsDiffer /\ CallsDiffer /\ TypeOK /\ AliasInvariant => EffectsTell
<1> SUFFICES ASSUME DeploymentsDiffer, CallsDiffer, TypeOK, AliasInvariant,
                    NEW c \in Steps, NEW d \in Steps, MadeBy(c), d.kind = "call",
                    Effect(c) = Effect(d)
             PROVE  <<c.op, c.target, c.subject>> = <<d.op, d.target, d.subject>>
  BY DEF EffectsTell
<1>1. c.op = d.op /\ Resolve(c.target) = Resolve(d.target) /\ Resolve(c.subject) = Resolve(d.subject)
  BY DEF Effect
<1>2. ~Apart(c.target, d.target) /\ ~Apart(c.subject, d.subject)
  BY <1>1, ApartAddresses DEF MadeBy
<1>3. c.target = d.target /\ c.subject = d.subject
  BY <1>1, <1>2 DEF CallsDiffer, MadeBy
<1>4. QED
  BY <1>1, <1>3

\* What a step does to the effects.
LEMMA EffectSteps ==
  ASSUME TypeOK, [Next]_vars
  PROVE  \/ effects' = effects
         \/ /\ SendCall /\ MadeBy(Current) /\ outputs' = outputs
            /\ effects' = effects \cup {Effect(Current)}
            /\ pc' = "record" /\ Current' = Current
<1>1. CASE SendCall
  <2>1. stage \in Stages /\ step \in DOMAIN Script[stage] /\ Current.kind = "call"
    BY <1>1, AtStepPlace DEF SendCall, CallReady
  <2>2. MadeBy(Current)
    BY <1>1, <2>1, StepInSteps DEF SendCall, CallReady, MadeBy, Current
  <2>3. QED
    BY <1>1, <2>2 DEF SendCall, Current
<1>2. CASE ~SendCall
  BY <1>2 DEF Next, Progress, Interruption, StartRun, PassRetiredStage, SkipFinishedStage,
     PrepareDeployment, FinishStage, EndRun, SkipRecordedName, CreateContract, ReuseContract,
     SaveDeployment, WriteContractAddress, WriteMockAddress, RecordTransaction, SkipCall,
     DeferCall, Abort, Crash, TearWrite, FreshCheckout, vars, world
<1>3. QED
  BY <1>1, <1>2

\* A step records what the run was about to record ...
LEMMA DoingIsDone ==
  ASSUME TypeOK, RunInvariant, [Next]_vars, ~Crash, ~TearWrite
  PROVE  Doing \subseteq Described' \cup Doing'
<1>1. CASE RecordTransaction
  <2>1. PICK tx \in Transaction :
          /\ \E k \in DOMAIN outputs'.transactions : outputs'.transactions[k] = tx
          /\ tx.description = StepDescription(Current)
    <3>1. stage \in Stages /\ step \in DOMAIN Script[stage] /\ IsDocument(outputs)
      BY <1>1, RecordPlace DEF RecordTransaction, TypeOK, WorldTypeOK
    <3> DEFINE tx == PlainTransaction(StepDescription(Current))
    <3>2. tx \in Transaction
      BY <3>1, StepTypes, DescriptionType, RecordTypes, SpecialAddresses DEF Current
    <3>3. tx.description = StepDescription(Current)
      BY DEF PlainTransaction
    <3>4. outputs' = AddTransaction(outputs, tx)
      BY <1>1 DEF RecordTransaction, WriteTransaction
    <3> HIDE DEF tx
    <3>5. QED
      BY <3>1, <3>2, <3>3, <3>4, AddedRecord
  <2>2. QED
    BY <2>1 DEF Described, Doing
<1>2. CASE UNCHANGED vars
  BY <1>2 DEF vars, Doing, Current
<1>3. CASE pc # "record"
  BY <1>3 DEF Doing
<1>4. QED
  BY <1>1, <1>2, <1>3 DEF Next, Progress, Interruption, StartRun, PassRetiredStage,
     SkipFinishedStage, PrepareDeployment, Preparing, AtStage, FinishStage, EndRun,
     SkipRecordedName, CreateContract, ReuseContract, SaveDeployment, WriteContractAddress,
     WriteMockAddress, SkipCall, DeferCall, SendCall, CallReady, Abort, AtStep, FreshCheckout

\* ... and what becomes of a name is recorded with it or next.
LEMMA NameIsTracked ==
  ASSUME TypeOK, RunInvariant, [Next]_vars, ~TearWrite,
         NEW s \in Steps, s.kind # "call", outputs.addresses[s.name] = NoAddress,
         outputs'.addresses[s.name] # NoAddress
  PROVE  StepDescription(s) \in Described' \cup Doing'
<1>1. CASE SaveDeployment
  <2>1. /\ Current \in DeployStep /\ Current.name \in Names /\ IsDocument(outputs)
        /\ outputs.addresses[Current.name] = NoAddress /\ cache[Current.type] \in Nat
        /\ outputs'.addresses =
             [outputs.addresses EXCEPT ![Current.name] = ContractAt(cache[Current.type])]
    BY <1>1, ContractRecorded, SavePlace DEF SaveDeployment, TypeOK, WorldTypeOK
  <2>2. StepDescription(Current) \in Description /\ ContractAt(cache[Current.type]) \in Address
    BY <2>1, DescriptionType, SpecialAddresses
  <2> DEFINE a == ContractAt(cache[Current.type])
             tx == DeploymentTransaction(StepDescription(Current), a)
             addressed == SetAddress(outputs, Current.name, a)
  <2>3. tx \in Transaction /\ tx.description = StepDescription(Current)
    BY <2>2, RecordTypes DEF DeploymentTransaction, PlainTransaction
  <2>4. IsDocument(addressed)
    BY <2>1, <2>2, SetAddressKeeps
  <2>5. outputs' = AddTransaction(addressed, tx)
    BY <1>1, <2>1 DEF SaveDeployment, SaveContractDeployment, GetContractAddress
  <2>6. s.name = Current.name
    BY <2>1
  <2> HIDE DEF a, tx, addressed
  <2>7. \E k \in DOMAIN outputs'.transactions : outputs'.transactions[k] = tx
    BY <2>3, <2>4, <2>5, AddedRecord
  <2>8. StepDescription(s) = StepDescription(Current)
    BY <2>1, <2>6 DEF StepDescription, DeployStep
  <2> QED
    BY <2>3, <2>7, <2>8 DEF Described
<1>2. CASE WriteContractAddress \/ WriteMockAddress
  <2>1. /\ Current.name \in Names /\ Current.kind # "call" /\ randoms + 1 \in Nat
        /\ pc' = "record" /\ Current' = Current
    BY <1>2, ContractRecorded, AtStepPlace, StepTypes
       DEF WriteContractAddress, WriteMockAddress, Current, MockStep, DeployStep, AtStep,
           TypeOK, WorldTypeOK
  <2>2. WriteContractAddress => cache[Current.type] \in Nat
    BY SavePlace DEF WriteContractAddress
  <2>3. PICK a \in Address : outputs' = SetAddress(outputs, Current.name, a)
    BY <1>2, <2>1, <2>2, SpecialAddresses DEF WriteContractAddress, WriteMockAddress
  <2>4. outputs'.addresses = [outputs.addresses EXCEPT ![Current.name] = a]
        /\ outputs.addresses \in [Names -> Address]
    BY <2>1, <2>3, SetAddressKeeps, DocumentParts DEF TypeOK, WorldTypeOK
  <2>5. s.name = Current.name
    BY <2>1, <2>4
  <2>6. StepDescription(s) = StepDescription(Current)
    BY <2>1, <2>5 DEF StepDescription
  <2> QED
    BY <2>1, <2>6 DEF Doing, StepDescription
<1>3. QED
  BY <1>1, <1>2, AddressesSame

\* Only a crash adds to what is without a record.
LEMMA UntrackedStays ==
  ASSUME TypeOK, RunInvariant, [Next]_vars, AddressesKept, RecordsKept,
         EffectsAreCalls, EffectsTell', ~Crash, ~TearWrite
  PROVE  Untracked' \ Doing' \subseteq Untracked \ Doing
<1> SUFFICES ASSUME NEW d \in Untracked' \ Doing' PROVE d \in Untracked \ Doing
  OBVIOUS
<1> PICK s \in Steps : Happened(s)' /\ d = StepDescription(s)'
  BY DEF Untracked
<1>0. d = StepDescription(s) /\ StepDescription(s) \notin Described' \cup Doing'
  BY DEF Untracked, StepDescription
<1> SUFFICES StepDescription(s) \in Untracked \ Doing
  BY <1>0
<1>1. StepDescription(s) \notin Described
  BY <1>0 DEF RecordsKept, Described
<1>2. StepDescription(s) \notin Doing
  BY <1>0, DoingIsDone
<1>3. CASE s.kind # "call"
  <2>1. Happened(s)
    BY <1>0, <1>3, NameIsTracked DEF Happened
  <2>2. QED
    BY <1>1, <1>2, <2>1 DEF Untracked
<1>4. CASE s.kind = "call"
  <2>1. Effect(s)' \in effects'
    BY <1>4 DEF Happened
  <2>2. CASE Effect(s)' \in effects
    <3>1. PICK c \in Steps : MadeBy(c) /\ Effect(s)' = Effect(c)
      BY <2>2 DEF EffectsAreCalls
    <3>2. MadeBy(c)' /\ Effect(c)' = Effect(s)'
      BY <3>1, MadeByStays
    <3>3. StepDescription(c) = StepDescription(s)
      <4>1. c.kind = "call" /\ <<c.op, c.target, c.subject>> = <<s.op, s.target, s.subject>>
        BY <1>4, <3>2 DEF EffectsTell, MadeBy
      <4>2. QED
        BY <1>4, <4>1 DEF StepDescription
    <3>4. Happened(c)
      BY <2>2, <3>1 DEF Happened, MadeBy
    <3>5. QED
      BY <1>1, <1>2, <3>3, <3>4 DEF Untracked
  <2>3. CASE Effect(s)' \notin effects
    <3>1. /\ MadeBy(Current) /\ outputs' = outputs /\ Effect(s)' = Effect(Current)
          /\ pc' = "record" /\ Current' = Current
      BY <2>1, <2>3, EffectSteps
    <3>2. MadeBy(Current)' /\ Effect(Current)' = Effect(s)'
      BY <3>1 DEF MadeBy, Effect, Resolve
    <3>3. <<Current.op, Current.target, Current.subject>> = <<s.op, s.target, s.subject>>
          /\ Current.kind = "call"
      BY <1>4, <3>1, <3>2 DEF EffectsTell, MadeBy
    <3>4. StepDescription(Current) = StepDescription(s)
      BY <1>4, <3>3 DEF StepDescription
    <3>5. QED
      BY <1>0, <3>1, <3>4 DEF Doing, StepDescription
  <2>4. QED
    BY <2>2, <2>3
<1>5. QED
  BY <1>3, <1>4

LEMMA TrackStep ==
  ASSUME TypeOK, RunInvariant, TrackInvariant, [Next]_vars, EffectsTell'
  PROVE  TrackInvariant'
<1> SUFFICES ASSUME tornWrites' = 0
             PROVE  /\ EffectsAreCalls'
                    /\ IsFiniteSet(Untracked' \ Doing')
                    /\ Cardinality(Untracked' \ Doing') <= crashes'
  BY DEF TrackInvariant
<1> DEFINE before == Untracked \ Doing
<1> DEFINE after == Untracked' \ Doing'
<1>1. tornWrites = 0 /\ AddressesKept /\ RecordsKept /\ ~TearWrite
  BY StillWhole, GrowthStep DEF Grows, TearWrite
<1>2. /\ EffectsAreCalls /\ IsFiniteSet(before) /\ Cardinality(before) \in Nat
      /\ Cardinality(before) <= crashes /\ crashes \in Nat
  BY <1>1, FS_CardinalityType, BoundAssumption DEF TrackInvariant, TypeOK, BoundsOK
<1>3. EffectsAreCalls'
  <2> SUFFICES ASSUME NEW e \in effects'
               PROVE  \E c \in Steps : MadeBy(c)' /\ e = Effect(c)'
    BY DEF EffectsAreCalls
  <2>1. PICK c \in Steps : MadeBy(c) /\ e = Effect(c)
    BY <1>2, EffectSteps DEF EffectsAreCalls, MadeBy
  <2>2. QED
    BY <1>1, <2>1, MadeByStays
<1>4. CASE ~Crash
  <2>1. crashes' = crashes
    BY <1>1, <1>4 DEF Next, Progress, Interruption, StartRun, PassRetiredStage, SkipFinishedStage,
       PrepareDeployment, FinishStage, EndRun, SkipRecordedName, CreateContract, ReuseContract,
       SaveDeployment, WriteContractAddress, WriteMockAddress, RecordTransaction, SkipCall,
       DeferCall, SendCall, Abort, FreshCheckout, vars, environment
  <2>2. after \in SUBSET before
    BY <1>1, <1>2, <1>4, UntrackedStays
  <2> HIDE DEF before, after
  <2>3. /\ IsFiniteSet(after) /\ Cardinality(after) \in Nat
        /\ Cardinality(after) <= Cardinality(before)
    BY <1>2, <2>2, FS_Subset, FS_CardinalityType
  <2>4. IsFiniteSet(after) /\ Cardinality(after) <= crashes'
    BY <1>2, <2>1, <2>3
  <2>5. QED
    BY <1>3, <2>4 DEF after
<1>5. CASE Crash
  <2>1. crashes' = crashes + 1 /\ after = Untracked
    BY <1>5 DEF Crash, Stop, world, Untracked, Happened, Described, Effect, Resolve, Doing
  <2>2. PICK done : Doing \subseteq {done}
    BY DEF Doing
  <2>3. after \subseteq before \cup {done}
    BY <2>1, <2>2
  <2> HIDE DEF before, after
  <2>4. /\ IsFiniteSet(after) /\ Cardinality(after) \in Nat
        /\ Cardinality(after) <= Cardinality(before) + 1
    BY <1>2, <2>3, OneMore
  <2>5. IsFiniteSet(after) /\ Cardinality(after) <= crashes'
    BY <1>2, <2>1, <2>4
  <2>6. QED
    BY <1>3, <2>5 DEF after
<1>6. QED
  BY <1>4, <1>5

LEMMA TrackInit == Init => TrackInvariant
<1> SUFFICES ASSUME Init PROVE TrackInvariant
  OBVIOUS
<1>1. effects = {} /\ crashes = 0 /\ \A n \in Names : outputs.addresses[n] = NoAddress
  BY DEF Init, EmptyOutputs
<1>2. \A s \in Steps : ~Happened(s)
  <2> SUFFICES ASSUME NEW s \in Steps, s.kind # "call" PROVE s.name \in Names
    BY <1>1 DEF Happened
  <2>1. PICK r \in Stages : \E k \in DOMAIN Script[r] : s = Script[r][k]
    BY DEF Steps
  <2>2. QED
    BY <2>1, StepTypes DEF DeployStep, MockStep, CallStep
<1>3. Untracked \ Doing = {} /\ EffectsAreCalls
  BY <1>1, <1>2 DEF Untracked, EffectsAreCalls
<1>4. QED
  BY <1>1, <1>3, FS_EmptySet DEF TrackInvariant

\* An interrupted run leaves at most one address or call without its record, where the
\* scripts' deployments and calls differ: what the chain shows under one name, or in one
\* effect, was then done by one step.
THEOREM UntrackedAreBounded ==
  (DeploymentsDiffer /\ CallsDiffer) => (Spec => []UntrackedBounded)
<1> SUFFICES ASSUME DeploymentsDiffer, CallsDiffer PROVE Spec => []UntrackedBounded
  OBVIOUS
<1>1. TypeOK /\ RunInvariant /\ ScriptedInvariant /\ AliasInvariant /\ [Next]_vars => AliasInvariant'
  BY AliasStep
<1>2. TypeOK /\ AliasInvariant => EffectsTell
  BY EffectsTellCalls
<1>3. TypeOK /\ RunInvariant /\ TrackInvariant /\ EffectsTell' /\ [Next]_vars => TrackInvariant'
  BY TrackStep
<1>4. TypeOK /\ TrackInvariant => UntrackedBounded
  <2> SUFFICES ASSUME TypeOK, TrackInvariant, tornWrites = 0
               PROVE  Cardinality(Untracked) <= crashes + (IF pc = "record" THEN 1 ELSE 0)
    BY DEF UntrackedBounded
  <2> DEFINE rest == Untracked \ Doing
  <2>1. /\ IsFiniteSet(rest) /\ Cardinality(rest) \in Nat /\ Cardinality(rest) <= crashes
        /\ crashes \in Nat
    BY FS_CardinalityType, BoundAssumption DEF TrackInvariant, TypeOK, BoundsOK
  <2>2. CASE pc = "record"
    <3>1. Untracked \subseteq rest \cup {StepDescription(Current)}
      BY <2>2 DEF Doing
    <3> HIDE DEF rest
    <3>2. Cardinality(Untracked) <= Cardinality(rest) + 1 /\ Cardinality(Untracked) \in Nat
      BY <2>1, <3>1, OneMore
    <3>3. QED
      BY <2>1, <2>2, <3>2
  <2>3. CASE pc # "record"
    BY <2>1, <2>3 DEF Doing
  <2>4. QED
    BY <2>2, <2>3
<1>5. QED
  BY <1>1, <1>2, <1>3, <1>4, ScriptedInit, AliasInit, TrackInit, ScriptedStep, TypeCorrect,
     RunInvariantHolds, PTL DEF Spec
=============================================================================
