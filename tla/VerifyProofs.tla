---------------------------- MODULE VerifyProofs ----------------------------
(***************************************************************************)
(* Theorems about EtherscanVerify, for every script and any number of      *)
(* overlaps, failures and interruptions: a flag is never a lie, and while  *)
(* runs and tasks take turns the task undoes nothing that a run has done.  *)
(***************************************************************************)
EXTENDS EtherscanVerify, DeploymentProofs

-----------------------------------------------------------------------------
(***************************************************************************)
(* Records and flags.                                                      *)
(***************************************************************************)
LEMMA LogParts ==
  ASSUME NEW o, IsDocument(o)
  PROVE  /\ DOMAIN o.transactions \subseteq Nat
         /\ \A k \in DOMAIN o.transactions :
              /\ o.transactions[k] \in Transaction
              /\ o.transactions[k].contractAddress \in Address
<1>1. IsTransactionLog(o.transactions)
  BY DocumentParts
<1>2. DOMAIN o.transactions \subseteq Nat
  BY <1>1, FS_CardinalityType DEF IsTransactionLog
<1>3. o.transactions \in [DOMAIN o.transactions -> Transaction]
  BY <1>1 DEF IsTransactionLog
<1> QED
  BY <1>2, <1>3 DEF Transaction

\* Setting a flag changes nothing else in a document.
LEMMA SetVerifiedKeeps ==
  ASSUME NEW o, IsDocument(o), NEW k \in DOMAIN o.transactions
  PROVE  /\ IsDocument(SetVerified(o, k))
         /\ SetVerified(o, k).state = o.state
         /\ SetVerified(o, k).addresses = o.addresses
         /\ DOMAIN SetVerified(o, k).transactions = DOMAIN o.transactions
         /\ \A j \in DOMAIN o.transactions :
              SetVerified(o, k).transactions[j] =
                IF j = k THEN [o.transactions[k] EXCEPT !.verified = TRUE]
                         ELSE o.transactions[j]
<1> DEFINE record == [o.transactions[k] EXCEPT !.verified = TRUE]
           log    == [o.transactions EXCEPT ![k] = record]
<1>1. record \in Transaction
  <2>1. o.transactions[k] \in Transaction
    BY LogParts
  <2> QED
    BY <2>1 DEF Transaction
<1>2. IsTransactionLog(o.transactions)
  BY DocumentParts
<1>3. o.transactions \in [DOMAIN o.transactions -> Transaction]
  BY <1>2 DEF IsTransactionLog
<1>4. /\ DOMAIN log = DOMAIN o.transactions
      /\ log \in [DOMAIN log -> Transaction]
      /\ \A j \in DOMAIN o.transactions :
           log[j] = IF j = k THEN record ELSE o.transactions[j]
  <2> HIDE DEF record
  <2> QED
    BY <1>1, <1>3
<1>5. IsTransactionLog(log)
  <2> HIDE DEF log
  <2> QED
    BY <1>2, <1>4 DEF IsTransactionLog
<1>6. SetVerified(o, k) = [state        |-> [last_deployment_stage |-> o.state.last_deployment_stage],
                           addresses    |-> o.addresses,
                           transactions |-> log]
  <2>1. SetVerified(o, k) = [o EXCEPT !.transactions = log]
    BY DEF SetVerified
  <2> HIDE DEF log
  <2> QED
    BY <2>1, DocumentParts
<1>7. o.state = [last_deployment_stage |-> o.state.last_deployment_stage]
  BY DocumentParts
<1> HIDE DEF log
<1>8. IsDocument(SetVerified(o, k))
  BY <1>5, <1>6, DocumentOf, DocumentParts
<1>9. /\ SetVerified(o, k).state = o.state
      /\ SetVerified(o, k).addresses = o.addresses
      /\ SetVerified(o, k).transactions = log
  <2> HIDE DEF record
  <2> QED
    BY <1>6, <1>7
<1> QED
  <2> HIDE DEF record
  <2>1. \A j \in DOMAIN o.transactions :
          log[j] = IF j = k THEN [o.transactions[k] EXCEPT !.verified = TRUE]
                            ELSE o.transactions[j]
    BY <1>4 DEF record
  <2> QED
    BY <1>4, <1>8, <1>9, <2>1

\* A record that is added has the flag it came with.
LEMMA AddedFlag ==
  ASSUME NEW o, IsDocument(o), NEW tx \in Transaction, ~tx.verified
  PROVE  Flagged(AddTransaction(o, tx)) \subseteq Flagged(o)
BY AddedRecord DEF Flagged

\* The records a run writes are not verified.
LEMMA UnverifiedRecords ==
  ASSUME NEW d \in Description, NEW a \in Address
  PROVE  /\ ~PlainTransaction(d).verified
         /\ ~DeferredTransaction(d).verified
         /\ ~DeploymentTransaction(d, a).verified
BY DEF PlainTransaction, DeferredTransaction, DeploymentTransaction

LEMMA SameLogSameFlags ==
  ASSUME NEW o, NEW p, o.transactions = p.transactions
  PROVE  Flagged(o) = Flagged(p)
BY DEF Flagged

\* Of the sections of A that end at one of its elements, take one that has no other
\* within it: it ends at the smallest element.
LEMMA SmallestElement ==
  ASSUME NEW A \in SUBSET Nat, IsFiniteSet(A), A # {}
  PROVE  \E n \in A : \A k \in A : n <= k
<1> DEFINE Section(m) == {k \in A : k <= m}
           T == {Section(m) : m \in A}
           Less == StrictSubsetOrdering(A)
<1>1. T \subseteq FiniteSubsetsOf(A) /\ T # {}
  <2>1. ASSUME NEW m \in A PROVE Section(m) \in FiniteSubsetsOf(A)
    <3>1. Section(m) \subseteq A
      OBVIOUS
    <3>2. IsFiniteSet(Section(m))
      <4> HIDE DEF Section
      <4> QED
        BY <3>1, FS_Subset
    <3> QED
      BY <3>1, <3>2 DEF FiniteSubsetsOf
  <2>2. PICK m \in A : TRUE
    OBVIOUS
  <2> HIDE DEF Section
  <2> QED
    BY <2>1, <2>2
<1>2. IsWellFoundedOn(Less, FiniteSubsetsOf(A))
  BY FS_StrictSubsetOrderingWellFounded
<1>3. PICK x \in T : \A y \in T : ~(<<y, x>> \in Less)
  <2> HIDE DEF T, Less
  <2> QED
    BY <1>1, <1>2, WFMin
<1>4. PICK n \in A : x = Section(n)
  OBVIOUS
<1>5. ASSUME NEW k \in A, k < n PROVE FALSE
  <2>1. Section(k) \subseteq Section(n) /\ n \in Section(n) /\ n \notin Section(k)
    <3>1. k \in Nat /\ n \in Nat /\ \A j \in A : j \in Nat
      OBVIOUS
    <3>2. n \in Section(n) /\ n \notin Section(k)
      BY <1>5, <3>1
    <3>3. \A j \in A : j <= k => j <= n
      BY <1>5, <3>1
    <3> QED
      BY <3>2, <3>3
  <2>2. <<Section(k), x>> \in Less
    BY <1>4, <2>1 DEF StrictSubsetOrdering
  <2> QED
    BY <1>3, <2>2
<1> QED
  BY <1>5

\* The next record of the loop.
LEMMA NextRecord ==
  ASSUME IsDocument(snapshot), Ahead # {}
  PROVE  /\ Min(Ahead) \in DOMAIN snapshot.transactions
         /\ Min(Ahead) \in Nat
<1>1. Ahead \in SUBSET Nat /\ Ahead \subseteq DOMAIN snapshot.transactions
  BY LogParts DEF Ahead
<1>2. PICK n \in Ahead : \A k \in Ahead : n <= k
  <2>1. IsFiniteSet(Ahead)
    <3>1. IsFiniteSet(DOMAIN snapshot.transactions)
      BY DocumentParts DEF IsTransactionLog
    <3> QED
      BY <1>1, <3>1, FS_Subset
  <2> QED
    BY <1>1, <2>1, SmallestElement
<1>3. Min(Ahead) \in Ahead
  BY <1>2 DEF Min
<1> QED
  BY <1>1, <1>3

-----------------------------------------------------------------------------
(***************************************************************************)
(* Type correctness of the two processes together.                         *)
(***************************************************************************)
LEMMA TaskInitType == VerifyInit => TaskTypeOK
<1> SUFFICES ASSUME VerifyInit PROVE TaskTypeOK
  OBVIOUS
<1>1. TypeOK
  BY InitType DEF VerifyInit
<1> QED
  BY <1>1, EmptyIsDocument, TaskAssumption DEF VerifyInit, TaskTypeOK

\* A step of the task that leaves the run where it is.
LEMMA DocumentSwapType ==
  ASSUME TypeOK, UNCHANGED <<world, pc, stage, step>>, IsDocument(outputs'), BoundsOK'
  PROVE  TypeOK'
<1>1. WorldTypeOK'
  BY UnchangedWorldType DEF TypeOK
<1>2. RunTypeOK'
  BY DEF TypeOK, RunTypeOK, Running, Current, world
<1> QED
  BY <1>1, <1>2 DEF TypeOK

LEMMA UnchangedType == TypeOK /\ UNCHANGED vars => TypeOK'
BY TypeStep DEF vars

LEMMA OverlapType ==
  ASSUME NEW active \in BOOLEAN, Overlap(active), overlaps \in 0..MaxOverlaps
  PROVE  /\ overlaps' \in 0..MaxOverlaps
         /\ overlaps' = 0 => overlaps = 0 /\ ~active
BY TaskAssumption DEF Overlap

LEMMA LoopType ==
  ASSUME TaskTypeOK, Verified \/ Failed \/ AlreadyVerified
  PROVE  TaskTypeOK'
<1> DEFINE k == Min(Ahead)
<1>1. IsDocument(snapshot) /\ Ahead # {}
  BY DEF TaskTypeOK, Verified, Failed, AlreadyVerified
<1>2. k \in DOMAIN snapshot.transactions /\ k \in Nat
  BY <1>1, NextRecord
<1>3. snapshot.transactions[k].contractAddress \in Address /\ IsDocument(SetVerified(snapshot, k))
  BY <1>1, <1>2, LogParts, SetVerifiedKeeps
<1>4. TypeOK'
  BY UnchangedType DEF TaskTypeOK, Verified, Failed, AlreadyVerified
<1>5. /\ task' = task /\ overlaps' = overlaps /\ taskCrashes' = taskCrashes
      /\ cursor' = k + 1
      /\ published' \subseteq published \cup {snapshot.transactions[k].contractAddress}
      /\ snapshot' = snapshot \/ snapshot' = SetVerified(snapshot, k)
      /\ failures' = failures \/ (failures < MaxFailures /\ failures' = failures + 1)
  BY DEF Verified, Failed, AlreadyVerified
<1> HIDE DEF k
<1>6. failures' \in 0..MaxFailures
  BY <1>5, TaskAssumption DEF TaskTypeOK
<1> QED
  BY <1>1, <1>2, <1>3, <1>4, <1>5, <1>6 DEF TaskTypeOK

LEMMA TaskEndType ==
  ASSUME TaskTypeOK, WriteBack \/ KillTask \/ TearWriteBack
  PROVE  TaskTypeOK'
<1>1. CASE WriteBack
  <2>1. IsDocument(outputs')
    BY <1>1 DEF WriteBack, TaskTypeOK
  <2>2. TypeOK'
    BY <1>1, <2>1, DocumentSwapType, UnchangedBoundsType DEF WriteBack, TaskTypeOK, TypeOK
  <2> QED
    BY <1>1, <2>2 DEF WriteBack, TaskTypeOK
<1>2. CASE KillTask
  <2>1. TypeOK'
    BY <1>2, UnchangedType DEF KillTask, TaskTypeOK
  <2> QED
    BY <1>2, <2>1, TaskAssumption DEF KillTask, TaskTypeOK
<1>3. CASE TearWriteBack
  <2>1. BoundsOK'
    BY <1>3, BoundAssumption DEF TearWriteBack, TaskTypeOK, TypeOK, BoundsOK
  <2>2. TypeOK'
    BY <1>3, <2>1, DocumentSwapType, EmptyIsDocument DEF TearWriteBack, TaskTypeOK
  <2> QED
    BY <1>3, <2>2 DEF TearWriteBack, TaskTypeOK
<1> QED
  BY <1>1, <1>2, <1>3

LEMMA TaskTypeStep == TaskTypeOK /\ [VerifyNext]_allVars => TaskTypeOK'
<1> SUFFICES ASSUME TaskTypeOK, [VerifyNext]_allVars PROVE TaskTypeOK'
  OBVIOUS
<1>1. CASE DeploymentStep
  <2>1. TypeOK'
    BY <1>1, TypeStep DEF DeploymentStep, Next, TaskTypeOK
  <2>2. overlaps' \in 0..MaxOverlaps
    BY <1>1, OverlapType DEF DeploymentStep, TaskTypeOK
  <2> QED
    BY <1>1, <2>1, <2>2 DEF DeploymentStep, TaskTypeOK, taskState
<1>2. CASE DeploymentHalt
  <2>1. TypeOK'
    BY <1>2, TypeStep DEF DeploymentHalt, Next, TaskTypeOK
  <2> QED
    BY <1>2, <2>1 DEF DeploymentHalt, TaskTypeOK, taskVars, taskState
<1>3. CASE StartVerify
  <2>1. TypeOK'
    BY <1>3, UnchangedType DEF StartVerify, TaskTypeOK
  <2>2. overlaps' \in 0..MaxOverlaps
    BY <1>3, OverlapType DEF StartVerify, TaskTypeOK
  <2> QED
    BY <1>3, <2>1, <2>2 DEF StartVerify, TaskTypeOK, TypeOK, WorldTypeOK
<1>4. CASE TaskStep \/ TaskTrouble
  BY <1>4, LoopType, TaskEndType DEF TaskStep, TaskTrouble
<1>5. CASE UNCHANGED allVars
  BY <1>5, UnchangedType DEF allVars, taskVars, taskState, TaskTypeOK
<1> QED
  BY <1>1, <1>2, <1>3, <1>4, <1>5 DEF VerifyNext

-----------------------------------------------------------------------------
(***************************************************************************)
(* Flags.                                                                  *)
(***************************************************************************)
\* No step of a run sets a flag.
LEMMA RunSetsNoFlag ==
  ASSUME TypeOK, [Next]_vars
  PROVE  Flagged(outputs') \subseteq Flagged(outputs)
<1>1. IsDocument(outputs) /\ randoms + 1 \in Nat
  BY DEF TypeOK, WorldTypeOK
<1>2. ASSUME PrepareDeployment PROVE outputs' = outputs
  BY <1>1, <1>2, RemoveNetworkKeeps DEF PrepareDeployment
<1>3. ASSUME FinishStage PROVE outputs'.transactions = outputs.transactions
  <2>1. stage + 1 \in Nat
    BY DEF TypeOK, RunTypeOK
  <2> QED
    BY <1>1, <1>3, <2>1, WriteStageKeeps DEF FinishStage
<1>4. ASSUME WriteContractAddress PROVE outputs'.transactions = outputs.transactions
  <2>1. Current.name \in Names /\ ContractAt(cache[Current.type]) \in Address
    BY <1>4, SavePlace, SpecialAddresses DEF WriteContractAddress, DeployStep
  <2> QED
    BY <1>1, <1>4, <2>1, SetAddressKeeps DEF WriteContractAddress
<1>5. ASSUME WriteMockAddress PROVE outputs'.transactions = outputs.transactions
  <2>1. Current \in MockStep
    BY <1>5, AtStepPlace, StepTypes DEF WriteMockAddress, Current
  <2>2. Current.name \in Names
    BY <2>1 DEF MockStep
  <2>3. Deployer \in Address /\ RandomAddress(randoms + 1) \in Address
    BY <1>1, SpecialAddresses
  <2>4. /\ SetAddress(outputs, Current.name, Deployer).transactions = outputs.transactions
        /\ SetAddress(outputs, Current.name, RandomAddress(randoms + 1)).transactions
             = outputs.transactions
    BY <1>1, <2>2, <2>3, SetAddressKeeps
  <2> QED
    BY <1>5, <2>4 DEF WriteMockAddress
<1>6. ASSUME RecordTransaction PROVE Flagged(outputs') \subseteq Flagged(outputs)
  <2>1. Current \in DeployStep \cup MockStep \cup CallStep
    BY <1>6, RecordPlace, StepTypes DEF RecordTransaction, Current
  <2>2. StepDescription(Current) \in Description
    BY <2>1, DescriptionType
  <2>3. PlainTransaction(StepDescription(Current)) \in Transaction
        /\ ~PlainTransaction(StepDescription(Current)).verified
    BY <2>2, RecordTypes, UnverifiedRecords, SpecialAddresses
  <2> QED
    BY <1>1, <1>6, <2>3, AddedFlag DEF RecordTransaction, WriteTransaction
<1>7. ASSUME DeferCall PROVE Flagged(outputs') \subseteq Flagged(outputs)
  <2>1. Current \in DeployStep \cup MockStep \cup CallStep
    BY <1>7, AtStepPlace, StepTypes DEF DeferCall, CallReady, Current
  <2>2. StepDescription(Current) \in Description
    BY <2>1, DescriptionType
  <2>3. DeferredTransaction(StepDescription(Current)) \in Transaction
        /\ ~DeferredTransaction(StepDescription(Current)).verified
    BY <2>2, RecordTypes, UnverifiedRecords, SpecialAddresses
  <2> QED
    BY <1>1, <1>7, <2>3, AddedFlag DEF DeferCall, SaveDeferredTransaction
<1>8. ASSUME SaveDeployment PROVE Flagged(outputs') \subseteq Flagged(outputs)
  <2> DEFINE a == ContractAt(cache[Current.type])
             o == SetAddress(outputs, Current.name, a)
             tx == DeploymentTransaction(StepDescription(Current), a)
  <2>1. Current \in DeployStep /\ a \in Address
    BY <1>8, SavePlace, SpecialAddresses DEF SaveDeployment
  <2>2. Current.name \in Names /\ StepDescription(Current) \in Description
    BY <2>1, DescriptionType DEF DeployStep
  <2>3. tx \in Transaction /\ ~tx.verified
    BY <2>1, <2>2, RecordTypes, UnverifiedRecords
  <2>4. IsDocument(o) /\ Flagged(o) = Flagged(outputs)
    BY <1>1, <2>1, <2>2, SetAddressKeeps, SameLogSameFlags
  <2>5. outputs' = AddTransaction(o, tx) \/ outputs' = outputs
    BY <1>8 DEF SaveDeployment, SaveContractDeployment
  <2> HIDE DEF o, tx
  <2> QED
    BY <2>3, <2>4, <2>5, AddedFlag
<1>9. ASSUME TearWrite PROVE Flagged(outputs') \subseteq Flagged(outputs)
  BY <1>9 DEF TearWrite, EmptyOutputs, Flagged
<1>10. ASSUME \/ StartRun \/ PassRetiredStage \/ SkipFinishedStage \/ EndRun
              \/ SkipRecordedName \/ CreateContract \/ ReuseContract \/ SkipCall
              \/ SendCall \/ Abort \/ Crash \/ FreshCheckout \/ UNCHANGED vars
       PROVE  outputs' = outputs
  BY <1>10 DEF StartRun, PassRetiredStage, SkipFinishedStage, EndRun, SkipRecordedName,
     CreateContract, ReuseContract, SkipCall, SendCall, Abort, Crash, FreshCheckout, vars
<1>11. ASSUME outputs'.transactions = outputs.transactions
       PROVE  Flagged(outputs') \subseteq Flagged(outputs)
  BY <1>11 DEF Flagged
<1> QED
  BY <1>2, <1>3, <1>4, <1>5, <1>6, <1>7, <1>8, <1>9, <1>10, <1>11
     DEF Next, Progress, Interruption

\* Setting the flag of a record adds its address.
LEMMA VerifiedFlag ==
  ASSUME NEW o, IsDocument(o), NEW k \in DOMAIN o.transactions
  PROVE  Flagged(SetVerified(o, k)) \subseteq
           Flagged(o) \cup {o.transactions[k].contractAddress}
<1> DEFINE p == SetVerified(o, k)
<1>1. /\ DOMAIN p.transactions = DOMAIN o.transactions
      /\ \A j \in DOMAIN o.transactions : j # k => p.transactions[j] = o.transactions[j]
  BY SetVerifiedKeeps
<1>2. p.transactions[k].contractAddress = o.transactions[k].contractAddress
  <2>1. p.transactions[k] = [o.transactions[k] EXCEPT !.verified = TRUE]
    BY SetVerifiedKeeps
  <2>2. o.transactions[k] \in Transaction
    BY LogParts
  <2> QED
    BY <2>1, <2>2 DEF Transaction
<1> HIDE DEF p
<1> QED
  BY <1>1, <1>2 DEF Flagged, p

\* Types of the composition, whatever overlaps and whatever is interrupted.
THEOREM TaskTypeCorrect == VerifySpec => []TaskTypeOK
BY TaskInitType, TaskTypeStep, PTL DEF VerifySpec

LEMMA FlagsStep == TaskTypeOK /\ FlagsAreTrue /\ [VerifyNext]_allVars => FlagsAreTrue'
<1> SUFFICES ASSUME TaskTypeOK, FlagsAreTrue, [VerifyNext]_allVars PROVE FlagsAreTrue'
  OBVIOUS
<1> DEFINE k == Min(Ahead)
<1>1. CASE DeploymentStep \/ DeploymentHalt
  <2>1. Flagged(outputs') \subseteq Flagged(outputs)
    BY <1>1, RunSetsNoFlag DEF DeploymentStep, DeploymentHalt, Next, TaskTypeOK
  <2>2. snapshot' = snapshot /\ published' = published
    BY <1>1 DEF DeploymentStep, DeploymentHalt, taskVars, taskState
  <2> QED
    BY <2>1, <2>2 DEF FlagsAreTrue
<1>2. CASE StartVerify
  BY <1>2 DEF StartVerify, vars, FlagsAreTrue
<1>3. CASE Verified
  <2>1. IsDocument(snapshot) /\ k \in DOMAIN snapshot.transactions
    BY <1>3, NextRecord DEF Verified, TaskTypeOK
  <2>2. Flagged(SetVerified(snapshot, k)) \subseteq
          Flagged(snapshot) \cup {snapshot.transactions[k].contractAddress}
    BY <2>1, VerifiedFlag
  <2>3. /\ outputs' = outputs /\ snapshot' = SetVerified(snapshot, k)
        /\ published' = published \cup {snapshot.transactions[k].contractAddress}
    BY <1>3 DEF Verified, vars
  <2> HIDE DEF k
  <2> QED
    BY <2>2, <2>3 DEF FlagsAreTrue
<1>4. CASE Failed \/ AlreadyVerified \/ KillTask \/ UNCHANGED allVars
  <2>1. outputs' = outputs /\ snapshot' = snapshot /\ published \subseteq published'
    BY <1>4 DEF Failed, AlreadyVerified, KillTask, allVars, vars, taskVars, taskState
  <2> QED
    BY <2>1 DEF FlagsAreTrue
<1>5. CASE WriteBack
  BY <1>5 DEF WriteBack, FlagsAreTrue
<1>6. CASE TearWriteBack
  BY <1>6 DEF TearWriteBack, FlagsAreTrue, Flagged, EmptyOutputs
<1> QED
  BY <1>1, <1>2, <1>3, <1>4, <1>5, <1>6 DEF VerifyNext, TaskStep, TaskTrouble

\* Etherscan shows the source of every contract that a record calls verified
\* (etherscanVerify.ts:32), whatever is interrupted and whoever else writes the file.
THEOREM FlagsNeverLie == VerifySpec => []FlagsAreTrue
<1>1. VerifyInit => FlagsAreTrue
  BY DEF VerifyInit, Init, FlagsAreTrue, Flagged, EmptyOutputs
<1>2. VerifySpec => []TaskTypeOK
  BY TaskTypeCorrect
<1> QED
  BY <1>1, <1>2, FlagsStep, PTL DEF VerifySpec

-----------------------------------------------------------------------------
(***************************************************************************)
(* Runs and tasks that take turns.                                         *)
(***************************************************************************)
LEMMA NothingAdded == ASSUME NEW o PROVE FlagsAdded(o, o)
BY DEF FlagsAdded

LEMMA FlagAdded ==
  ASSUME NEW o, NEW p, IsDocument(p), FlagsAdded(o, p), NEW k \in DOMAIN p.transactions
  PROVE  FlagsAdded(o, SetVerified(p, k))
<1> DEFINE q == SetVerified(p, k)
           flagged(record) == [record EXCEPT !.verified = TRUE]
<1>1. /\ DOMAIN q.transactions = DOMAIN p.transactions
      /\ \A j \in DOMAIN p.transactions :
           q.transactions[j] \in {p.transactions[j], flagged(p.transactions[j])}
  <2>1. /\ DOMAIN q.transactions = DOMAIN p.transactions
        /\ q.transactions[k] = flagged(p.transactions[k])
        /\ \A j \in DOMAIN p.transactions : j # k => q.transactions[j] = p.transactions[j]
    BY SetVerifiedKeeps
  <2> HIDE DEF q, flagged
  <2> QED
    BY <2>1
<1>2. \A record : flagged(flagged(record)) = flagged(record)
  OBVIOUS
<1> HIDE DEF q, flagged
<1>3. \A j \in DOMAIN o.transactions :
        /\ j \in DOMAIN p.transactions
        /\ p.transactions[j] \in {o.transactions[j], flagged(o.transactions[j])}
  BY DEF FlagsAdded, flagged
<1>4. \A j \in DOMAIN o.transactions :
        /\ j \in DOMAIN q.transactions
        /\ q.transactions[j] \in {o.transactions[j], flagged(o.transactions[j])}
  BY <1>1, <1>2, <1>3
<1> QED
  BY <1>4 DEF FlagsAdded, flagged, q

\* The invariant looks at the addresses and the stage of the file, not at records.
LEMMA RunInvariantOfDocument ==
  ASSUME RunInvariant, UNCHANGED <<pc, stage, step>>,
         outputs'.addresses = outputs.addresses, outputs'.state = outputs.state
  PROVE  RunInvariant'
BY DEF RunInvariant, FinishedStagesRecorded, PassedStagesFinished, CurrentStageOpen,
       PassedStepsRecorded, WritesOnce, StageAlreadyFinished, GetLastDeploymentStage,
       Recorded, FindDependency, GetContractAddress, Current, Running

LEMMA EmptyRunInvariant ==
  ASSUME pc' = "idle", outputs' = EmptyOutputs
  PROVE  RunInvariant'
<1>1. GetLastDeploymentStage(outputs') = 0
  BY DEF GetLastDeploymentStage, EmptyOutputs
<1>2. FinishedStagesRecorded'
  BY <1>1, ScriptAssumption DEF FinishedStagesRecorded, StageAlreadyFinished, Stages
<1> QED
  BY <1>2 DEF RunInvariant, PassedStagesFinished, CurrentStageOpen, PassedStepsRecorded,
              WritesOnce, Running

LEMMA TurnsInit == VerifyInit => TurnsKeepRunInvariant
BY InitRun DEF VerifyInit, TurnsKeepRunInvariant, SnapshotCurrent

\* A step of the run.
LEMMA TurnsRun ==
  ASSUME TaskTypeOK, TurnsKeepRunInvariant, DeploymentStep \/ DeploymentHalt
  PROVE  TurnsKeepRunInvariant'
<1> SUFFICES ASSUME overlaps' = 0 PROVE RunInvariant' /\ SnapshotCurrent'
  BY DEF TurnsKeepRunInvariant
<1>1. overlaps = 0 /\ (DeploymentStep => ~(pc = "idle" /\ task = "busy"))
  BY OverlapType DEF DeploymentStep, DeploymentHalt, taskVars, TaskTypeOK
<1>2. RunInvariant /\ SnapshotCurrent
  BY <1>1 DEF TurnsKeepRunInvariant
<1>3. RunInvariant'
  BY <1>2, RunStep DEF DeploymentStep, DeploymentHalt, Next, TaskTypeOK
<1>4. task' = task /\ snapshot' = snapshot
  BY DEF DeploymentStep, DeploymentHalt, taskVars, taskState
<1>5. CASE task # "busy"
  BY <1>3, <1>4, <1>5 DEF SnapshotCurrent
<1>6. CASE task = "busy"
  <2>1. pc = "idle"
    BY <1>1, <1>2, <1>6 DEF SnapshotCurrent
  <2>2. FreshCheckout
    BY <1>1, <1>6, <2>1 DEF DeploymentHalt, Interruption, Crash, TearWrite, Writing,
       Preparing, AtStage, AtStep, CallReady
  <2>3. outputs' = outputs /\ pc' = pc
    BY <2>2 DEF FreshCheckout
  <2> QED
    BY <1>1, <1>2, <1>3, <1>4, <2>1, <2>3 DEF SnapshotCurrent, FlagsAdded
<1> QED
  BY <1>5, <1>6

\* A step of the task.
LEMMA TurnsTask ==
  ASSUME TaskTypeOK, TurnsKeepRunInvariant, StartVerify \/ TaskStep \/ TaskTrouble
  PROVE  TurnsKeepRunInvariant'
<1> SUFFICES ASSUME overlaps' = 0 PROVE RunInvariant' /\ SnapshotCurrent'
  BY DEF TurnsKeepRunInvariant
<1>1. overlaps = 0 /\ (StartVerify => pc = "idle")
  BY OverlapType
     DEF StartVerify, TaskStep, TaskTrouble, Verified, AlreadyVerified, WriteBack, Failed,
         KillTask, TearWriteBack, TaskTypeOK, RunTypeOK
<1>2. RunInvariant /\ SnapshotCurrent
  BY <1>1 DEF TurnsKeepRunInvariant
<1>3. CASE StartVerify
  <2>1. outputs' = outputs /\ snapshot' = outputs /\ UNCHANGED <<pc, stage, step>>
    BY <1>3 DEF StartVerify, vars
  <2>2. RunInvariant'
    BY <1>2, <2>1, RunInvariantOfDocument
  <2> QED
    BY <1>1, <1>3, <2>1, <2>2, NothingAdded DEF SnapshotCurrent
<1>4. CASE Verified
  <2> DEFINE k == Min(Ahead)
  <2>1. IsDocument(snapshot) /\ k \in DOMAIN snapshot.transactions
    BY <1>4, NextRecord DEF Verified, TaskTypeOK
  <2>2. /\ outputs' = outputs /\ snapshot' = SetVerified(snapshot, k) /\ task = "busy"
        /\ UNCHANGED <<pc, stage, step>>
    BY <1>4 DEF Verified, vars
  <2> HIDE DEF k
  <2>3. RunInvariant'
    BY <1>2, <2>2, RunInvariantOfDocument
  <2>4. /\ snapshot'.state = snapshot.state /\ snapshot'.addresses = snapshot.addresses
        /\ DOMAIN snapshot'.transactions = DOMAIN snapshot.transactions
    BY <2>1, <2>2, SetVerifiedKeeps
  <2>5. FlagsAdded(outputs, snapshot')
    BY <1>1, <1>2, <2>1, <2>2, FlagAdded DEF SnapshotCurrent
  <2> QED
    BY <1>1, <1>2, <2>2, <2>3, <2>4, <2>5 DEF SnapshotCurrent
<1>5. CASE Failed \/ AlreadyVerified
  <2>1. /\ outputs' = outputs /\ snapshot' = snapshot /\ task = "busy"
        /\ UNCHANGED <<pc, stage, step>>
    BY <1>5 DEF Failed, AlreadyVerified, vars
  <2>2. RunInvariant'
    BY <1>2, <2>1, RunInvariantOfDocument
  <2> QED
    BY <1>1, <1>2, <2>1, <2>2 DEF SnapshotCurrent
<1>6. CASE KillTask
  <2>1. outputs' = outputs /\ UNCHANGED <<pc, stage, step>>
    BY <1>6 DEF KillTask, vars
  <2>2. RunInvariant'
    BY <1>2, <2>1, RunInvariantOfDocument
  <2> QED
    BY <1>6, <2>2 DEF KillTask, SnapshotCurrent
<1>7. CASE WriteBack
  <2>1. outputs' = snapshot /\ task = "busy" /\ UNCHANGED <<pc, stage, step>>
    BY <1>7 DEF WriteBack
  <2>2. RunInvariant'
    BY <1>1, <1>2, <2>1, RunInvariantOfDocument DEF SnapshotCurrent
  <2> QED
    BY <1>7, <2>2 DEF WriteBack, SnapshotCurrent
<1>8. CASE TearWriteBack
  <2>1. pc' = "idle" /\ outputs' = EmptyOutputs
    BY <1>1, <1>2, <1>8 DEF TearWriteBack, SnapshotCurrent
  <2>2. RunInvariant'
    BY <2>1, EmptyRunInvariant
  <2> QED
    BY <1>8, <2>2 DEF TearWriteBack, SnapshotCurrent
<1> QED
  BY <1>3, <1>4, <1>5, <1>6, <1>7, <1>8 DEF TaskStep, TaskTrouble

LEMMA TurnsStep ==
  TaskTypeOK /\ TurnsKeepRunInvariant /\ [VerifyNext]_allVars => TurnsKeepRunInvariant'
<1> SUFFICES ASSUME TaskTypeOK, TurnsKeepRunInvariant, [VerifyNext]_allVars
             PROVE  TurnsKeepRunInvariant'
  OBVIOUS
<1>1. CASE UNCHANGED allVars
  <2>1. /\ UNCHANGED <<pc, stage, step>> /\ outputs' = outputs
        /\ task' = task /\ snapshot' = snapshot /\ overlaps' = overlaps
    BY <1>1 DEF allVars, vars, taskVars, taskState
  <2>2. RunInvariant => RunInvariant'
    BY <2>1, RunInvariantOfDocument
  <2> QED
    BY <2>1, <2>2 DEF TurnsKeepRunInvariant, SnapshotCurrent, FlagsAdded
<1> QED
  BY <1>1, TurnsRun, TurnsTask DEF VerifyNext

\* As long as no task is started during a run and no run during a task, the ledger is
\* what the next run takes it for (etherscanVerify.ts:44 writes the whole file).
THEOREM TurnsAreSafe == VerifySpec => []TurnsKeepRunInvariant
<1>1. VerifySpec => []TaskTypeOK
  BY TaskTypeCorrect
<1> QED
  BY <1>1, TurnsInit, TurnsStep, PTL DEF VerifySpec

\* ... and the task changes nothing of it but flags.
LEMMA KeepsLedgerStep ==
  ASSUME TaskTypeOK, TurnsKeepRunInvariant, TurnsKeepRunInvariant', [VerifyNext]_allVars,
         overlaps = 0, tornWrites' = tornWrites
  PROVE  AddressesKept /\ FlagsAdded(outputs, outputs') /\ StageKept
<1>1. RunInvariant /\ SnapshotCurrent /\ TypeOK
  BY DEF TurnsKeepRunInvariant, TaskTypeOK
<1>2. CASE DeploymentStep \/ DeploymentHalt
  <2>1. Grows
    BY <1>1, <1>2, GrowthStep DEF DeploymentStep, DeploymentHalt, Next
  <2> QED
    BY <2>1 DEF Grows, RecordsKept, FlagsAdded
<1>3. CASE WriteBack
  <2>1. /\ outputs' = snapshot /\ snapshot.state = outputs.state
        /\ snapshot.addresses = outputs.addresses /\ FlagsAdded(outputs, snapshot)
    BY <1>1, <1>3 DEF WriteBack, SnapshotCurrent
  <2>2. GetLastDeploymentStage(outputs) \in Nat
    BY <1>1, DocumentParts DEF TypeOK, WorldTypeOK, GetLastDeploymentStage
  <2> QED
    BY <2>1, <2>2 DEF AddressesKept, StageKept, GetLastDeploymentStage
<1>4. CASE TearWriteBack
  BY <1>1, <1>4 DEF TearWriteBack, TypeOK, BoundsOK
<1>5. CASE StartVerify \/ Verified \/ AlreadyVerified \/ Failed \/ KillTask \/ UNCHANGED allVars
  <2>1. outputs' = outputs
    BY <1>5 DEF StartVerify, Verified, AlreadyVerified, Failed, KillTask, allVars, vars
  <2>2. Grows
    BY <1>1, <2>1, UnchangedGrows
  <2> QED
    BY <2>1, <2>2, NothingAdded DEF Grows
<1> QED
  BY <1>2, <1>3, <1>4, <1>5 DEF VerifyNext, TaskStep, TaskTrouble

\* No address, record or stage is lost to a task that takes its turn.
THEOREM TaskIsHarmless == VerifySpec => TaskKeepsLedger
<1>1. VerifySpec => []TaskTypeOK
  BY TaskTypeCorrect
<1>2. TaskTypeOK /\ TurnsKeepRunInvariant /\ TurnsKeepRunInvariant' /\ [VerifyNext]_allVars =>
        [(overlaps = 0 /\ tornWrites' = tornWrites) =>
           AddressesKept /\ FlagsAdded(outputs, outputs') /\ StageKept]_allVars
  BY KeepsLedgerStep
<1> QED
  BY <1>1, <1>2, TurnsAreSafe, PTL DEF VerifySpec, TaskKeepsLedger

-----------------------------------------------------------------------------
(***************************************************************************)
(* No flag is lost.                                                        *)
(***************************************************************************)
Untroubled == overlaps = 0 /\ failures = 0 /\ taskCrashes = 0 /\ tornWrites = 0

\* The document that will be the file in the end: the task's while it is busy.
Latest == IF task = "busy" THEN snapshot ELSE outputs

NothingForgotten == Untroubled => published \subseteq Flagged(Latest)

LEMMA TroubleStays ==
  ASSUME TaskTypeOK, [VerifyNext]_allVars, Untroubled'
  PROVE  Untroubled /\ ~Failed /\ ~KillTask /\ ~TearWriteBack /\ ~TearWrite
<1> USE DEF TaskTypeOK, TypeOK, BoundsOK, Untroubled
<1>1. ~Failed /\ ~KillTask /\ ~TearWriteBack /\ ~TearWrite
  BY DEF Failed, KillTask, TearWriteBack, TearWrite
<1>2. overlaps = 0
  BY <1>1, OverlapType
     DEF VerifyNext, DeploymentStep, DeploymentHalt, StartVerify, TaskStep, TaskTrouble,
         Verified, AlreadyVerified, WriteBack, allVars, taskVars
<1>3. failures = 0 /\ taskCrashes = 0
  BY <1>1 DEF VerifyNext, DeploymentStep, DeploymentHalt, StartVerify, TaskStep, TaskTrouble,
     Verified, AlreadyVerified, WriteBack, allVars, taskVars
<1>4. tornWrites = 0
  <2>1. CASE DeploymentStep \/ DeploymentHalt
    BY <1>1, <2>1 DEF DeploymentStep, DeploymentHalt, Progress, Interruption, StartRun,
       PassRetiredStage, SkipFinishedStage, PrepareDeployment, FinishStage, EndRun,
       SkipRecordedName, CreateContract, ReuseContract, SaveDeployment, WriteContractAddress,
       WriteMockAddress, RecordTransaction, SkipCall, DeferCall, SendCall, Abort, Crash,
       FreshCheckout, environment
  <2>2. CASE ~DeploymentStep /\ ~DeploymentHalt
    BY <1>1, <2>2 DEF VerifyNext, StartVerify, TaskStep, TaskTrouble, Verified,
       AlreadyVerified, WriteBack, allVars, vars, environment
  <2>3. QED
    BY <2>1, <2>2
<1>5. QED
  BY <1>1, <1>2, <1>3, <1>4

\* A success adds its address to the flags and takes none away.
LEMMA FlagSet ==
  ASSUME NEW o, IsDocument(o), NEW k \in DOMAIN o.transactions
  PROVE  Flagged(o) \cup {o.transactions[k].contractAddress} \subseteq Flagged(SetVerified(o, k))
<1> DEFINE p == SetVerified(o, k)
<1>1. /\ DOMAIN p.transactions = DOMAIN o.transactions
      /\ p.transactions[k] = [o.transactions[k] EXCEPT !.verified = TRUE]
      /\ \A j \in DOMAIN o.transactions : j # k => p.transactions[j] = o.transactions[j]
  BY SetVerifiedKeeps
<1>2. /\ p.transactions[k].contractAddress = o.transactions[k].contractAddress
      /\ p.transactions[k].verified
  <2>1. o.transactions[k] \in Transaction
    BY LogParts
  <2>2. QED
    BY <1>1, <2>1 DEF Transaction
<1> HIDE DEF p
<1>3. \A j \in DOMAIN o.transactions :
        /\ j \in DOMAIN p.transactions
        /\ p.transactions[j].contractAddress = o.transactions[j].contractAddress
        /\ o.transactions[j].verified \/ j = k => p.transactions[j].verified
  BY <1>1, <1>2
<1>4. Flagged(o) \cup {o.transactions[k].contractAddress} \subseteq Flagged(p)
  BY <1>3 DEF Flagged
<1>5. QED
  BY <1>4 DEF p

LEMMA ForgottenStep ==
  ASSUME TaskTypeOK, TurnsKeepRunInvariant, NothingForgotten, [VerifyNext]_allVars
  PROVE  NothingForgotten'
<1> SUFFICES ASSUME Untroubled' PROVE published' \subseteq Flagged(Latest')
  BY DEF NothingForgotten, Flagged
<1>1. /\ Untroubled /\ ~Failed /\ ~KillTask /\ ~TearWriteBack /\ ~TearWrite
      /\ published \subseteq Flagged(Latest)
  BY TroubleStays DEF NothingForgotten
<1>2. CASE DeploymentStep \/ DeploymentHalt
  <2>1. published' = published /\ task' = task /\ snapshot' = snapshot
    BY <1>2 DEF DeploymentStep, DeploymentHalt, taskVars, taskState
  <2>2. RecordsKept
    <3>1. TypeOK /\ RunInvariant /\ [Next]_vars /\ tornWrites' = tornWrites
      BY <1>1, <1>2 DEF Untroubled, TurnsKeepRunInvariant, TaskTypeOK, DeploymentStep,
         DeploymentHalt, Next
    <3>2. QED
      BY <3>1, GrowthStep DEF Grows
  <2>3. Flagged(outputs) \subseteq Flagged(outputs')
    BY <2>2 DEF RecordsKept, Flagged
  <2>4. QED
    BY <1>1, <2>1, <2>3 DEF Latest
<1>3. CASE StartVerify
  BY <1>1, <1>3 DEF StartVerify, Latest
<1>4. CASE Verified
  <2> DEFINE k == Min(Ahead)
  <2>1. IsDocument(snapshot) /\ k \in DOMAIN snapshot.transactions
    BY <1>4, NextRecord DEF Verified, TaskTypeOK
  <2>2. /\ task = "busy" /\ task' = task /\ snapshot' = SetVerified(snapshot, k)
        /\ published' = published \cup {snapshot.transactions[k].contractAddress}
    BY <1>4 DEF Verified
  <2> HIDE DEF k
  <2>3. QED
    BY <1>1, <2>1, <2>2, FlagSet DEF Latest
<1>5. CASE AlreadyVerified \/ UNCHANGED allVars
  <2>1. /\ outputs' = outputs /\ snapshot' = snapshot /\ task' = task
        /\ published' = published
    BY <1>5 DEF AlreadyVerified, allVars, vars, taskVars, taskState
  <2>2. QED
    BY <1>1, <2>1 DEF Latest
<1>6. CASE WriteBack
  BY <1>1, <1>6 DEF WriteBack, Latest
<1>7. QED
  BY <1>1, <1>2, <1>3, <1>4, <1>5, <1>6 DEF VerifyNext, TaskStep, TaskTrouble

\* Without errors and kills, the file knows all that Etherscan shows: runs that come
\* between two tasks, and are cut short themselves, lose no flag.
THEOREM NoFlagIsLost == VerifySpec => []FlagsComplete
<1>1. VerifyInit => NothingForgotten
  BY DEF VerifyInit, NothingForgotten
<1>2. NothingForgotten => FlagsComplete
  BY DEF NothingForgotten, FlagsComplete, Untroubled, Latest
<1>3. QED
  BY <1>1, <1>2, ForgottenStep, TaskTypeCorrect, TurnsAreSafe, PTL DEF VerifySpec
=============================================================================
