-------------------------- MODULE AllocationProofs --------------------------
(***************************************************************************)
(* Stage 0 and the supply of INDEX, for any number of crashes, of torn     *)
(* writes of the ledger and of transfers by other holders.  As long as the *)
(* ledger loses no record, a recipient is sent more than its share only in *)
(* place of what it has sent on, and less only if others sent it tokens;   *)
(* the deployer holds what the rest of the script sends out; and when      *)
(* nobody else moves INDEX the stage cannot finish with the supply in any  *)
(* other place than the script's, whatever the ledger lost.                *)
(***************************************************************************)
EXTENDS Allocation, Sums

-----------------------------------------------------------------------------
(***************************************************************************)
(* The shares of the script.                                               *)
(***************************************************************************)
\* The contracts, and the amount each name is due.
Named == ({"methodology", "claims", "staking"} \X {0})
           \cup ({"treasury", "setLabs", "dfp"} \X (1..3))

AmountDue(owner, year) ==
  CASE owner = "multisig"    -> TREASURY_IMMEDIATE_OWNERSHIP_AMOUNT
    [] owner = "methodology" -> TREASURY_INDEX_METHODOLOGY_OWNERSHIP_AMOUNT
    [] owner = "claims"      -> MERKLE_DISTRIBUTOR_AMOUNT
    [] owner = "staking"     -> UNISWAP_LP_REWARD_AMOUNT
    [] owner = "treasury"    -> TREASURY_OWNERSHIP_AMOUNTS[year]
    [] owner = "setLabs"     -> SET_LABS_OWNERSHIP_AMOUNTS[year]
    [] owner = "dfp"         -> DFP_OWNERSHIP_AMOUNTS[year]

Worth(name) == AmountDue(name[1], name[2])

Due == {Share(n[1], n[2], AmountDue(n[1], n[2])) : n \in Named \cup {<<"multisig", 0>>}}

\* The elements of two sequences in a row.
LEMMA ElementsOfBoth ==
  ASSUME NEW S, NEW s \in Seq(S), NEW t \in Seq(S)
  PROVE  s \o t \in Seq(S) /\ Range(s \o t) = Range(s) \cup Range(t)
<1>1. s \o t \in Seq(S) /\ Len(s \o t) = Len(s) + Len(t)
      /\ Len(s) \in Nat /\ Len(t) \in Nat
  OBVIOUS
<1>2. /\ \A k \in 1..Len(s) : (s \o t)[k] = s[k]
      /\ \A k \in 1..Len(t) : (s \o t)[Len(s) + k] = t[k]
  OBVIOUS
<1>3. /\ DOMAIN (s \o t) = 1..(Len(s) + Len(t))
      /\ DOMAIN s = 1..Len(s) /\ DOMAIN t = 1..Len(t)
  BY <1>1
<1>4. ASSUME NEW k \in 1..(Len(s) + Len(t))
      PROVE  (s \o t)[k] \in Range(s) \cup Range(t)
  <2>1. CASE k <= Len(s)
    BY <1>1, <1>2, <1>3, <2>1 DEF Range
  <2>2. CASE k > Len(s)
    <3>1. k - Len(s) \in 1..Len(t) /\ k = Len(s) + (k - Len(s))
      BY <1>1, <2>2
    <3>2. (s \o t)[k] = t[k - Len(s)]
      BY <1>2, <3>1
    <3> QED BY <1>3, <3>1, <3>2 DEF Range
  <2> QED BY <1>1, <2>1, <2>2
<1>5. \A k \in 1..Len(s) : k \in 1..(Len(s) + Len(t))
  BY <1>1
<1>6. \A k \in 1..Len(t) : Len(s) + k \in 1..(Len(s) + Len(t))
  BY <1>1
<1>7. Range(s) \cup Range(t) \subseteq Range(s \o t)
  BY <1>2, <1>3, <1>5, <1>6 DEF Range
<1>8. Range(s \o t) \subseteq Range(s) \cup Range(t)
  BY <1>3, <1>4 DEF Range
<1> QED BY <1>1, <1>7, <1>8

\* A name with the amount it is due.
LEMMA DueIs ==
  ASSUME NEW owner, NEW year, <<owner, year>> \in Named \cup {<<"multisig", 0>>}
  PROVE  Share(owner, year, AmountDue(owner, year)) \in Due
<1>1. <<owner, year>>[1] = owner /\ <<owner, year>>[2] = year
  OBVIOUS
<1> QED BY <1>1 DEF Due

\* The three vestings of an owner.
LEMMA YearsAreDue ==
  ASSUME NEW owner \in {"treasury", "setLabs", "dfp"},
         NEW amounts, \A year \in 1..3 : amounts[year] = AmountDue(owner, year)
  PROVE  /\ ThreeYears(owner, amounts) \in Seq(Due)
         /\ {x.name : x \in Range(ThreeYears(owner, amounts))} = {owner} \X (1..3)
<1> DEFINE shares == [year \in 1..3 |-> Share(owner, year, amounts[year])]
<1>1. \A year \in 1..3 : <<owner, year>> \in Named
  BY DEF Named
<1>2. \A year \in 1..3 : shares[year] \in Due
  BY <1>1, DueIs
<1>3. shares \in Seq(Due) /\ DOMAIN shares = 1..3
  BY <1>2
<1>4. \A year \in 1..3 : shares[year].name = <<owner, year>>
  BY DEF Share
<1> HIDE DEF shares
<1>5. {x.name : x \in Range(shares)} = {<<owner, year>> : year \in 1..3}
  BY <1>3, <1>4 DEF Range
<1>6. {<<owner, year>> : year \in 1..3} = {owner} \X (1..3)
  OBVIOUS
<1> QED BY <1>3, <1>5, <1>6 DEF ThreeYears, shares

\* The three lists of yearly shares, treasury, Set Labs and DeFi Pulse.
LEMMA AllYears ==
  \A pair \in {<<"treasury", TREASURY_OWNERSHIP_AMOUNTS>>,
               <<"setLabs", SET_LABS_OWNERSHIP_AMOUNTS>>, <<"dfp", DFP_OWNERSHIP_AMOUNTS>>} :
    /\ ThreeYears(pair[1], pair[2]) \in Seq(Due)
    /\ {x.name : x \in Range(ThreeYears(pair[1], pair[2]))} = {pair[1]} \X (1..3)
<1>1. \A year \in 1..3 : TREASURY_OWNERSHIP_AMOUNTS[year] = AmountDue("treasury", year)
  BY DEF AmountDue
<1>2. \A year \in 1..3 : SET_LABS_OWNERSHIP_AMOUNTS[year] = AmountDue("setLabs", year)
  BY DEF AmountDue
<1>3. \A year \in 1..3 : DFP_OWNERSHIP_AMOUNTS[year] = AmountDue("dfp", year)
  BY DEF AmountDue
<1> QED BY <1>1, <1>2, <1>3, YearsAreDue

\* The shares that are sent at once.
LEMMA SingleSharesAreDue ==
  /\ Share("multisig", 0, TREASURY_IMMEDIATE_OWNERSHIP_AMOUNT) \in Due
  /\ Share("methodology", 0, TREASURY_INDEX_METHODOLOGY_OWNERSHIP_AMOUNT) \in Due
  /\ Share("claims", 0, MERKLE_DISTRIBUTOR_AMOUNT) \in Due
  /\ Share("staking", 0, UNISWAP_LP_REWARD_AMOUNT) \in Due
<1>1. \A owner \in {"multisig", "methodology", "claims", "staking"} :
        Share(owner, 0, AmountDue(owner, 0)) \in Due
  BY DueIs DEF Named
<1>2. /\ AmountDue("multisig", 0) = TREASURY_IMMEDIATE_OWNERSHIP_AMOUNT
      /\ AmountDue("methodology", 0) = TREASURY_INDEX_METHODOLOGY_OWNERSHIP_AMOUNT
      /\ AmountDue("claims", 0) = MERKLE_DISTRIBUTOR_AMOUNT
      /\ AmountDue("staking", 0) = UNISWAP_LP_REWARD_AMOUNT
  BY DEF AmountDue
<1> QED BY <1>1, <1>2

\* Every transfer sends what its name is due.
LEMMA TransfersAreDue == Transfers \in Seq(Due)
<1>1. <<Share("multisig", 0, TREASURY_IMMEDIATE_OWNERSHIP_AMOUNT),
        Share("methodology", 0, TREASURY_INDEX_METHODOLOGY_OWNERSHIP_AMOUNT),
        Share("claims", 0, MERKLE_DISTRIBUTOR_AMOUNT),
        Share("staking", 0, UNISWAP_LP_REWARD_AMOUNT)>> \in Seq(Due)
  <2>1. \A a, b, c, d \in Due : <<a, b, c, d>> \in Seq(Due)
    OBVIOUS
  <2> QED BY <2>1, SingleSharesAreDue
<1>2. /\ ThreeYears("treasury", TREASURY_OWNERSHIP_AMOUNTS) \in Seq(Due)
      /\ ThreeYears("setLabs", SET_LABS_OWNERSHIP_AMOUNTS) \in Seq(Due)
      /\ ThreeYears("dfp", DFP_OWNERSHIP_AMOUNTS) \in Seq(Due)
  BY AllYears
<1> QED BY <1>1, <1>2, ElementsOfBoth DEF Transfers

\* The contracts that are deployed are those that are due anything.
LEMMA DeploymentNames ==
  /\ Len(Deployments) \in Nat /\ DOMAIN Deployments = 1..Len(Deployments)
  /\ ContractNames = Named
<1> DEFINE All       == Due \cup {Share("claims", 0, 0), Share("staking", 0, 0)}
           NamesOf(seq) == {x.name : x \in Range(seq)}
           first     == <<Share("methodology", 0, TREASURY_INDEX_METHODOLOGY_OWNERSHIP_AMOUNT)>>
           treasury  == ThreeYears("treasury", TREASURY_OWNERSHIP_AMOUNTS)
           setLabs   == ThreeYears("setLabs", SET_LABS_OWNERSHIP_AMOUNTS)
           dfp       == ThreeYears("dfp", DFP_OWNERSHIP_AMOUNTS)
<1>1. /\ treasury \in Seq(Due) /\ NamesOf(treasury) = {"treasury"} \X (1..3)
      /\ setLabs \in Seq(Due) /\ NamesOf(setLabs) = {"setLabs"} \X (1..3)
      /\ dfp \in Seq(Due) /\ NamesOf(dfp) = {"dfp"} \X (1..3)
  BY AllYears
<1>2. first \in Seq(Due) /\ NamesOf(first) = {<<"methodology", 0>>}
  <2>1. Share("methodology", 0, AmountDue("methodology", 0)) \in Due
    BY DueIs DEF Named
  <2>2. AmountDue("methodology", 0) = TREASURY_INDEX_METHODOLOGY_OWNERSHIP_AMOUNT
    BY DEF AmountDue
  <2>3. \A x \in Due : <<x>> \in Seq(Due) /\ Range(<<x>>) = {x}
    BY DEF Range
  <2>4. Share("methodology", 0, TREASURY_INDEX_METHODOLOGY_OWNERSHIP_AMOUNT).name
          = <<"methodology", 0>>
    BY DEF Share
  <2> QED BY <2>1, <2>2, <2>3, <2>4
<1>3. Distributors \in Seq(All) /\ NamesOf(Distributors) = {<<"claims", 0>>, <<"staking", 0>>}
  <2>1. \A x, y \in All : <<x, y>> \in Seq(All) /\ Range(<<x, y>>) = {x, y}
    BY DEF Range
  <2>2. /\ Share("claims", 0, 0) \in All /\ Share("staking", 0, 0) \in All
        /\ Share("claims", 0, 0).name = <<"claims", 0>>
        /\ Share("staking", 0, 0).name = <<"staking", 0>>
    BY DEF Share
  <2> HIDE DEF All
  <2> QED BY <2>1, <2>2 DEF Distributors
<1>4. ASSUME NEW s \in Seq(All), NEW t \in Seq(All)
      PROVE  s \o t \in Seq(All) /\ NamesOf(s \o t) = NamesOf(s) \cup NamesOf(t)
  <2> HIDE DEF All
  <2>1. s \o t \in Seq(All) /\ Range(s \o t) = Range(s) \cup Range(t)
    BY ElementsOfBoth
  <2> QED BY <2>1
<1>5. Seq(Due) \subseteq Seq(All)
  OBVIOUS
<1>6. Deployments = Distributors \o (((first \o treasury) \o setLabs) \o dfp)
  BY DEF Deployments, Vestings
<1> HIDE DEF All, NamesOf, first, treasury, setLabs, dfp
<1>7. /\ first \o treasury \in Seq(All)
      /\ NamesOf(first \o treasury) = NamesOf(first) \cup NamesOf(treasury)
  BY <1>1, <1>2, <1>4, <1>5
<1>8. /\ (first \o treasury) \o setLabs \in Seq(All)
      /\ NamesOf((first \o treasury) \o setLabs) = NamesOf(first \o treasury) \cup NamesOf(setLabs)
  BY <1>1, <1>4, <1>5, <1>7
<1>9. /\ ((first \o treasury) \o setLabs) \o dfp \in Seq(All)
      /\ NamesOf(((first \o treasury) \o setLabs) \o dfp)
           = NamesOf((first \o treasury) \o setLabs) \cup NamesOf(dfp)
  BY <1>1, <1>4, <1>5, <1>8
<1>10. /\ Deployments \in Seq(All)
       /\ NamesOf(Deployments)
            = NamesOf(Distributors) \cup NamesOf(((first \o treasury) \o setLabs) \o dfp)
  BY <1>3, <1>4, <1>6, <1>9
<1>11. NamesOf(Deployments)
         = {<<"claims", 0>>, <<"staking", 0>>} \cup {<<"methodology", 0>>}
             \cup ({"treasury"} \X (1..3)) \cup ({"setLabs"} \X (1..3)) \cup ({"dfp"} \X (1..3))
  BY <1>1, <1>2, <1>3, <1>7, <1>8, <1>9, <1>10
<1>12. Named
         = {<<"claims", 0>>, <<"staking", 0>>} \cup {<<"methodology", 0>>}
             \cup ({"treasury"} \X (1..3)) \cup ({"setLabs"} \X (1..3)) \cup ({"dfp"} \X (1..3))
  BY DEF Named
<1>13. ContractNames = NamesOf(Deployments)
  BY DEF ContractNames, NamesOf, Range
<1> QED BY <1>10, <1>11, <1>12, <1>13

\* Every vesting is for what its name is due.
LEMMA VestingsAreDue == Vestings \in Seq(Due)
<1>1. <<Share("methodology", 0, TREASURY_INDEX_METHODOLOGY_OWNERSHIP_AMOUNT)>> \in Seq(Due)
  <2>1. \A x \in Due : <<x>> \in Seq(Due)
    OBVIOUS
  <2> QED BY <2>1, SingleSharesAreDue
<1>2. /\ ThreeYears("treasury", TREASURY_OWNERSHIP_AMOUNTS) \in Seq(Due)
      /\ ThreeYears("setLabs", SET_LABS_OWNERSHIP_AMOUNTS) \in Seq(Due)
      /\ ThreeYears("dfp", DFP_OWNERSHIP_AMOUNTS) \in Seq(Due)
  BY AllYears
<1> QED BY <1>1, <1>2, ElementsOfBoth DEF Vestings

\* Every share is of some tokens.
LEMMA WorthsArePositive == \A n \in Named \cup {<<"multisig", 0>>} : Worth(n) \in Nat \ {0}
<1>1. \A owner \in {"multisig", "methodology", "claims", "staking"} :
        AmountDue(owner, 0) \in Nat \ {0}
  BY DEF AmountDue, TREASURY_IMMEDIATE_OWNERSHIP_AMOUNT, MERKLE_DISTRIBUTOR_AMOUNT,
         TREASURY_INDEX_METHODOLOGY_OWNERSHIP_AMOUNT, UNISWAP_LP_REWARD_AMOUNT
<1>2. \A owner \in {"treasury", "setLabs", "dfp"}, year \in 1..3 :
        AmountDue(owner, year) \in Nat \ {0}
  <2>1. ASSUME NEW year \in 1..3 PROVE AmountDue("treasury", year) \in Nat \ {0}
    BY DEF AmountDue, TREASURY_OWNERSHIP_AMOUNTS
  <2>2. ASSUME NEW year \in 1..3 PROVE AmountDue("setLabs", year) \in Nat \ {0}
    BY DEF AmountDue, SET_LABS_OWNERSHIP_AMOUNTS
  <2>3. ASSUME NEW year \in 1..3 PROVE AmountDue("dfp", year) \in Nat \ {0}
    BY DEF AmountDue, DFP_OWNERSHIP_AMOUNTS
  <2> QED BY <2>1, <2>2, <2>3
<1> QED BY <1>1, <1>2 DEF Named, Worth

\* The treasury's immediate share is no vesting.
LEMMA VestingsAreNamed == \A k \in DOMAIN Vestings : Vestings[k].name \in Named
<1> DEFINE S         == {x \in Due : x.name \in Named}
           first     == <<Share("methodology", 0, TREASURY_INDEX_METHODOLOGY_OWNERSHIP_AMOUNT)>>
           treasury  == ThreeYears("treasury", TREASURY_OWNERSHIP_AMOUNTS)
           setLabs   == ThreeYears("setLabs", SET_LABS_OWNERSHIP_AMOUNTS)
           dfp       == ThreeYears("dfp", DFP_OWNERSHIP_AMOUNTS)
<1>1. treasury \in Seq(S) /\ setLabs \in Seq(S) /\ dfp \in Seq(S)
  <2>1. /\ treasury \in Seq(Due) /\ setLabs \in Seq(Due) /\ dfp \in Seq(Due)
        /\ \A x \in Range(treasury) \cup Range(setLabs) \cup Range(dfp) : x.name \in Named
    BY AllYears DEF Named
  <2>2. \A t \in Seq(Due) : (\A x \in Range(t) : x.name \in Named) => t \in Seq(S)
    BY DEF Range
  <2> HIDE DEF treasury, setLabs, dfp, S
  <2> QED BY <2>1, <2>2
<1>2. first \in Seq(S)
  <2>1. Share("methodology", 0, TREASURY_INDEX_METHODOLOGY_OWNERSHIP_AMOUNT) \in S
    BY SingleSharesAreDue DEF Share, Named
  <2>2. \A x \in S : <<x>> \in Seq(S)
    OBVIOUS
  <2> HIDE DEF S
  <2> QED BY <2>1, <2>2
<1> HIDE DEF S, first, treasury, setLabs, dfp
<1>3. ((first \o treasury) \o setLabs) \o dfp \in Seq(S)
  BY <1>1, <1>2
<1>4. Vestings \in Seq(S)
  BY <1>3 DEF Vestings, first, treasury, setLabs, dfp
<1>5. \A t \in Seq(S) : \A k \in DOMAIN t : t[k].name \in Named
  BY DEF S
<1> QED BY <1>4, <1>5

\* What the invariant needs to know of the amounts.
LEMMA DueNames ==
  /\ \A x \in Due : x.name \in Named \cup {<<"multisig", 0>>} /\ x.amount \in Nat \ {0}
  /\ \A x \in Due : x.amount = Worth(x.name)
  /\ <<"multisig", 0>> \notin Named
<1>1. \A n \in Named \cup {<<"multisig", 0>>} : n = <<n[1], n[2]>>
  BY DEF Named
<1>2. ASSUME NEW x \in Due
      PROVE  /\ x.name \in Named \cup {<<"multisig", 0>>}
             /\ x.amount = Worth(x.name)
  <2>1. PICK n \in Named \cup {<<"multisig", 0>>} : x = Share(n[1], n[2], AmountDue(n[1], n[2]))
    BY DEF Due
  <2>2. x.name = <<n[1], n[2]>> /\ x.amount = AmountDue(n[1], n[2])
    BY <2>1 DEF Share
  <2> QED BY <1>1, <2>2 DEF Worth
<1>4. <<"multisig", 0>> \notin Named
  BY DEF Named
<1> QED BY <1>2, <1>4, WorthsArePositive

-----------------------------------------------------------------------------
(***************************************************************************)
(* The inductive invariant.                                                *)
(***************************************************************************)
Accounts == {Deployer, Multisig, Others}

AllocationTypeOK ==
  /\ contracts \in Seq(Named)
  /\ latest \in [{TypeOf(n) : n \in Named} -> 0..Len(contracts)]
  /\ addresses \in [Named -> 0..Len(contracts)]
  /\ balance \in [Accounts \cup 1..Len(contracts) -> Nat]
  /\ spent \in [Accounts \cup 1..Len(contracts) -> Nat]
  /\ received \in [Accounts \cup 1..Len(contracts) -> Nat]
  /\ sent \in [Named \cup {<<"multisig", 0>>} -> Nat]
  /\ pc \in {"idle", "deploy", "save", "transfer", "record"}
  /\ step \in Nat \ {0} /\ {tornWrites, moves} \subseteq Nat
  /\ pc = "save" => step \in DOMAIN Deployments

\* The script transfers when every name has a contract.
InPlace ==
  /\ pc \in {"deploy", "save"} =>
       \A k \in 1..(step - 1) : k \in DOMAIN Deployments => addresses[Deployments[k].name] # 0
  /\ pc = "save" => addresses[Name] = 0 /\ latest[TypeOf(Name)] # 0
  /\ pc \in {"transfer", "record"} => \A n \in Named : addresses[n] # 0

AllocationInvariant == AllocationTypeOK /\ InPlace

-----------------------------------------------------------------------------
(***************************************************************************)
(* The steps.                                                              *)
(***************************************************************************)
LEMMA AllocationInit == Init => AllocationInvariant
<1> SUFFICES ASSUME Init PROVE AllocationInvariant
  OBVIOUS
<1> USE DueNames, DeploymentNames
<1>1. contracts \in Seq(Named) /\ Len(contracts) = 0
  BY DEF Init
<1>2. IndexSupply \in Nat
  BY DEF IndexSupply
<1>3. Accounts \cup 1..Len(contracts) = Accounts
  BY <1>1
<1>4. AllocationTypeOK
  BY <1>1, <1>2, <1>3 DEF Init, AllocationTypeOK, Accounts
<1>5. InPlace
  BY DEF Init, InPlace
<1> QED BY <1>4, <1>5 DEF AllocationInvariant

\* The transfer that the script has come to.
LEMMA TransferIs ==
  ASSUME AllocationTypeOK, Transferring
  PROVE  /\ Transfer \in Due
         /\ Transfer.name \in Named \/ Transfer.name = <<"multisig", 0>>
         /\ Transfer.amount \in Nat \ {0}
         /\ Recipient(Transfer.name) \in Accounts \cup 1..Len(contracts)
         /\ Transfer.name \in Named => Recipient(Transfer.name) = addresses[Transfer.name]
<1>1. Transfer \in Due
  BY TransfersAreDue DEF Transferring, Transfer
<1>2. /\ Transfer.name \in Named \/ Transfer.name = <<"multisig", 0>>
      /\ Transfer.amount \in Nat \ {0}
  BY <1>1, DueNames
<1>3. Transfer.name \in Named => Recipient(Transfer.name) = addresses[Transfer.name]
  BY DueNames DEF Recipient
<1>4. \A n \in Named : addresses[n] \in Accounts \cup 1..Len(contracts)
  BY DEF AllocationTypeOK, Accounts, Deployer
<1>5. Transfer.name = <<"multisig", 0>> => Recipient(Transfer.name) \in Accounts
  BY DEF Recipient, Accounts
<1> QED BY <1>1, <1>2, <1>3, <1>4, <1>5

\* Only the sender loses tokens.
LEMMA MoveKeeps ==
  ASSUME AllocationTypeOK, NEW from \in Accounts \cup 1..Len(contracts),
         NEW to \in Accounts \cup 1..Len(contracts), NEW amount \in Nat,
         balance[from] >= amount, Move(from, to, amount)
  PROVE  /\ balance' \in [Accounts \cup 1..Len(contracts) -> Nat]
         /\ from # to => /\ balance'[to] = balance[to] + amount
                         /\ balance'[from] = balance[from] - amount
         /\ \A a \in Accounts \cup 1..Len(contracts) :
              a # from /\ a # to => balance'[a] = balance[a]
<1> DEFINE All   == Accounts \cup 1..Len(contracts)
           less  == [balance EXCEPT ![from] = @ - amount]
<1>1. balance \in [All -> Nat] /\ from \in All /\ to \in All
  BY DEF AllocationTypeOK
<1> HIDE DEF All
<1>3. less \in [All -> Nat] /\ \A a \in All : a # from => less[a] = balance[a]
  BY <1>1
<1>4. /\ DOMAIN balance' = All /\ balance'[to] = less[to] + amount
      /\ \A a \in All : a # to => balance'[a] = less[a]
  BY <1>1 DEF Move
<1> HIDE DEF less
<1>5. balance' \in [All -> Nat]
  <2>1. balance' = [a \in All |-> balance'[a]]
    BY <1>1, <1>4 DEF Move
  <2>2. \A a \in All : balance'[a] \in Nat
    BY <1>1, <1>3, <1>4
  <2> QED BY <2>1, <2>2
<1>7. from # to => balance'[to] = balance[to] + amount /\ balance'[from] = balance[from] - amount
  <2>1. less[from] = balance[from] - amount
    BY <1>1 DEF less
  <2> QED BY <1>1, <1>3, <1>4, <2>1
<1>8. \A a \in All : a # from /\ a # to => balance'[a] = balance[a]
  BY <1>3, <1>4
<1> QED BY <1>5, <1>7, <1>8 DEF All

\* The steps that move no tokens and write no ledger.
LEMMA QuietSteps ==
  ASSUME AllocationInvariant,
         \/ StartRun \/ SkipRecordedName \/ ReuseContract \/ StartTransfers \/ SkipTransfer
         \/ RecordTransfer \/ RefuseTransfer \/ FinishStage \/ Crash \/ UNCHANGED vars
  PROVE  AllocationInvariant'
<1> USE DeploymentNames DEF world, ledger, tokens, environment, vars
<1>1. /\ UNCHANGED <<contracts, latest, addresses, tokens, tornWrites, moves>>
      /\ AllocationTypeOK
  BY DEF AllocationInvariant, StartRun, SkipRecordedName, ReuseContract, StartTransfers,
         SkipTransfer, RecordTransfer, RefuseTransfer, FinishStage, Crash
<1>2. step \in Nat \ {0}
  BY <1>1 DEF AllocationTypeOK
<1>3. AllocationTypeOK'
  <2>1. CASE ReuseContract \/ UNCHANGED vars
    BY <1>1, <2>1 DEF ReuseContract, Deploying, AllocationTypeOK
  <2>2. CASE StartRun \/ SkipRecordedName \/ StartTransfers \/ SkipTransfer \/ RecordTransfer
    <3>1. step' \in {1, step + 1} /\ pc' \in {"deploy", "transfer"}
      BY <2>2 DEF StartRun, SkipRecordedName, StartTransfers, SkipTransfer, RecordTransfer,
                  Deploying, Transferring
    <3> QED BY <1>1, <1>2, <3>1 DEF AllocationTypeOK
  <2>3. CASE RefuseTransfer \/ FinishStage \/ Crash
    BY <1>1, <2>3 DEF RefuseTransfer, FinishStage, Crash, AllocationTypeOK
  <2> QED BY <2>1, <2>2, <2>3
<1>5. InPlace'
  <2> USE DEF AllocationInvariant
  <2>1. CASE StartRun
    BY <1>1, <2>1 DEF StartRun, InPlace
  <2>2. CASE SkipRecordedName
    <3>1. pc = "deploy" /\ pc' = "deploy" /\ step' = step + 1 /\ addresses[Name] # 0
      BY <2>2 DEF SkipRecordedName, Deploying
    <3>2. \A k \in 1..(step' - 1) : k = step \/ k \in 1..(step - 1)
      BY <1>2, <3>1
    <3> QED BY <1>1, <3>1, <3>2 DEF InPlace, Name
  <2>3. CASE ReuseContract
    BY <1>1, <2>3 DEF ReuseContract, Deploying, Reusable, InPlace, Name
  <2>4. CASE StartTransfers
    <3>1. pc = "deploy" /\ pc' = "transfer" /\ step > Len(Deployments)
      BY <1>2, <2>4 DEF StartTransfers
    <3>2. \A k \in DOMAIN Deployments : addresses[Deployments[k].name] # 0
      BY <1>2, <3>1 DEF InPlace
    <3>3. \A n \in Named : addresses[n] # 0
      BY <3>2 DEF ContractNames
    <3> QED BY <1>1, <3>1, <3>3 DEF InPlace
  <2>5. CASE SkipTransfer \/ RecordTransfer
    BY <1>1, <2>5 DEF SkipTransfer, RecordTransfer, Transferring, InPlace
  <2>6. CASE RefuseTransfer \/ FinishStage \/ Crash
    BY <2>6 DEF RefuseTransfer, FinishStage, Crash, InPlace
  <2>7. CASE UNCHANGED vars
    BY <2>7 DEF InPlace, Name
  <2> QED BY <2>1, <2>2, <2>3, <2>4, <2>5, <2>6, <2>7
<1> QED BY <1>3, <1>5 DEF AllocationInvariant

\* A new contract has no tokens, and the ledger does not know it yet.
LEMMA CreateContractStep ==
  ASSUME AllocationInvariant, CreateContract
  PROVE  AllocationInvariant'
<1> USE DeploymentNames DEF world, ledger, tokens, environment
<1> DEFINE new == Len(contracts) + 1
<1>1. /\ pc = "deploy" /\ step \in DOMAIN Deployments /\ addresses[Name] = 0
      /\ contracts' = Append(contracts, Name)
      /\ latest' = [latest EXCEPT ![TypeOf(Name)] = new]
      /\ balance' = WithNew(balance) /\ spent' = WithNew(spent) /\ received' = WithNew(received)
      /\ pc' = "save"
      /\ UNCHANGED <<addresses, sent, step, tornWrites, moves>>
  BY DEF CreateContract, Deploying
<1>2. AllocationTypeOK /\ Name \in Named
  BY <1>1 DEF AllocationInvariant, Name, ContractNames
<1>3. /\ contracts' \in Seq(Named) /\ Len(contracts') = new
      /\ Len(contracts) \in Nat /\ new \in 0..new /\ new # 0
  BY <1>1, <1>2 DEF AllocationTypeOK
<1>4. 0..Len(contracts) \subseteq 0..new /\ 1..new = (1..Len(contracts)) \cup {new}
  BY <1>3
<1>5. \A account \in [Accounts \cup 1..Len(contracts) -> Nat] :
        WithNew(account) \in [Accounts \cup 1..new -> Nat]
  <2> TAKE account \in [Accounts \cup 1..Len(contracts) -> Nat]
  <2>1. Accounts \cup 1..new = DOMAIN account \cup {new}
    BY <1>4
  <2>2. \A a \in DOMAIN account : account[a] \in Nat
    OBVIOUS
  <2>3. WithNew(account)
          = [a \in DOMAIN account \cup {new} |-> IF a \in DOMAIN account THEN account[a] ELSE 0]
    BY DEF WithNew
  <2> HIDE DEF new
  <2> QED BY <2>1, <2>2, <2>3
<1>6. latest' \in [{TypeOf(n) : n \in Named} -> 0..new] /\ latest'[TypeOf(Name)] = new
  <2>1. latest \in [{TypeOf(n) : n \in Named} -> 0..new] /\ TypeOf(Name) \in DOMAIN latest
    BY <1>2, <1>4 DEF AllocationTypeOK
  <2> HIDE DEF new
  <2> QED BY <1>1, <1>3, <2>1
<1>7. addresses' \in [Named -> 0..new]
  BY <1>1, <1>2, <1>4 DEF AllocationTypeOK
<1> HIDE DEF new
<1>8. AllocationTypeOK'
  BY <1>1, <1>2, <1>3, <1>5, <1>6, <1>7 DEF AllocationTypeOK
<1>10. InPlace => InPlace'
  <2>1. Name' = Name
    BY <1>1 DEF Name
  <2> QED BY <1>1, <1>3, <1>6, <2>1 DEF InPlace
<1> QED BY <1>8, <1>10 DEF AllocationInvariant

\* The contract that was created or handed back is written for its name.
LEMMA SaveAddressStep ==
  ASSUME AllocationInvariant, SaveAddress
  PROVE  AllocationInvariant'
<1> USE DeploymentNames DEF world, ledger, tokens, environment
<1>1. /\ pc = "save" /\ pc' = "deploy" /\ step' = step + 1
      /\ addresses' = [addresses EXCEPT ![Name] = latest[TypeOf(Name)]]
      /\ UNCHANGED <<contracts, latest, tokens, tornWrites, moves>>
  BY DEF SaveAddress
<1>2. AllocationTypeOK /\ step \in DOMAIN Deployments /\ Name \in Named
  BY <1>1 DEF AllocationInvariant, AllocationTypeOK, Name, ContractNames
<1>3. latest[TypeOf(Name)] \in 0..Len(contracts) /\ addresses \in [Named -> 0..Len(contracts)]
  BY <1>2 DEF AllocationTypeOK
<1>4. AllocationTypeOK'
  <2>1. addresses' \in [Named -> 0..Len(contracts)]
    BY <1>1, <1>3
  <2>2. step' \in Nat \ {0}
    BY <1>1, <1>2 DEF AllocationTypeOK
  <2> QED BY <1>1, <1>2, <2>1, <2>2 DEF AllocationTypeOK
<1>5. /\ addresses'[Name] = latest[TypeOf(Name)]
      /\ \A n \in Named : n # Name => addresses'[n] = addresses[n]
  BY <1>1, <1>2, <1>3
<1>6. /\ addresses[Name] = 0 /\ addresses'[Name] # 0
      /\ \A n \in Named : addresses[n] # 0 => addresses'[n] = addresses[n]
  <2>1. addresses[Name] = 0 /\ addresses'[Name] # 0
    BY <1>1, <1>5 DEF InPlace, AllocationInvariant
  <2> QED BY <1>5, <2>1
<1>8. InPlace'
  <2>1. step \in Nat
    BY <1>2 DEF AllocationTypeOK
  <2>2. ASSUME NEW k \in 1..(step' - 1), k \in DOMAIN Deployments
        PROVE  addresses'[Deployments[k].name] # 0
    <3>1. CASE k = step
      BY <1>6, <3>1 DEF Name
    <3>2. CASE k # step
      <4>1. k \in 1..(step - 1)
        BY <1>1, <2>1, <3>2
      <4>2. addresses[Deployments[k].name] # 0 /\ Deployments[k].name \in Named
        BY <1>1, <2>2, <4>1 DEF InPlace, ContractNames, AllocationInvariant
      <4> QED BY <1>6, <4>2
    <3> QED BY <3>1, <3>2
  <2> QED BY <1>1, <2>2 DEF InPlace
<1> QED BY <1>4, <1>8 DEF AllocationInvariant

\* Sending a share leaves the ledger alone.
LEMMA SendTransferStep ==
  ASSUME AllocationInvariant, SendTransfer
  PROVE  AllocationInvariant'
<1> USE DEF world, ledger, tokens, environment
<1> DEFINE name   == Transfer.name
           to     == Recipient(name)
           amount == Transfer.amount
<1>1. /\ Transferring /\ pc = "transfer" /\ pc' = "record"
      /\ balance[Deployer] >= amount /\ Move(Deployer, to, amount)
      /\ sent' = [sent EXCEPT ![name] = @ + amount]
      /\ UNCHANGED <<contracts, latest, spent, received, addresses, step, tornWrites, moves>>
  BY DEF SendTransfer, Transferring
<1>2. AllocationTypeOK /\ Deployer \in Accounts \cup 1..Len(contracts)
  BY DEF AllocationInvariant, Accounts
<1>3. /\ name \in Named \cup {<<"multisig", 0>>} /\ amount \in Nat
      /\ to \in Accounts \cup 1..Len(contracts)
  BY <1>1, <1>2, TransferIs
<1> HIDE DEF to, name, amount
<1>4. balance' \in [Accounts \cup 1..Len(contracts) -> Nat]
  BY <1>1, <1>2, <1>3, MoveKeeps
<1>5. sent' \in [Named \cup {<<"multisig", 0>>} -> Nat]
  <2>1. sent \in [Named \cup {<<"multisig", 0>>} -> Nat]
    BY <1>2 DEF AllocationTypeOK
  <2>2. sent[name] + amount \in Nat
    BY <1>3, <2>1
  <2> QED BY <1>1, <1>3, <2>1, <2>2
<1>6. AllocationTypeOK'
  BY <1>1, <1>2, <1>4, <1>5 DEF AllocationTypeOK
<1>7. InPlace'
  BY <1>1 DEF InPlace, AllocationInvariant
<1> QED BY <1>6, <1>7 DEF AllocationInvariant

\* What a transfer by another holder does to an account: what it loses it has spent, and
\* what it gets it has received.
LEMMA MoveTokensIs ==
  ASSUME AllocationTypeOK, MoveTokens
  PROVE  /\ {balance', spent', received'} \subseteq [Accounts \cup 1..Len(contracts) -> Nat]
         /\ \A a \in Accounts \cup 1..Len(contracts) :
              /\ spent'[a] >= spent[a] /\ received'[a] >= received[a]
              /\ balance'[a] + spent'[a] - balance[a] - spent[a] = received'[a] - received[a]
<1> DEFINE All == Accounts \cup 1..Len(contracts)
<1>1. PICK from \in DOMAIN balance \ {Deployer}, to \in DOMAIN balance :
        \E amount \in {1, balance[from]} :
          /\ balance[from] >= amount /\ amount > 0 /\ to # from /\ Move(from, to, amount)
          /\ spent' = [spent EXCEPT ![from] = @ + amount]
          /\ received' = [received EXCEPT ![to] = @ + amount]
  BY DEF MoveTokens
<1>2. PICK amount \in {1, balance[from]} :
        /\ balance[from] >= amount /\ amount > 0 /\ to # from /\ Move(from, to, amount)
        /\ spent' = [spent EXCEPT ![from] = @ + amount]
        /\ received' = [received EXCEPT ![to] = @ + amount]
  BY <1>1
<1>3. /\ balance \in [All -> Nat] /\ spent \in [All -> Nat] /\ received \in [All -> Nat]
      /\ from \in All /\ to \in All
  BY DEF AllocationTypeOK
<1>4. amount \in Nat
  BY <1>3
<1>5. /\ balance' \in [All -> Nat]
      /\ balance'[to] = balance[to] + amount /\ balance'[from] = balance[from] - amount
      /\ \A a \in All : a # from /\ a # to => balance'[a] = balance[a]
  BY <1>2, <1>3, <1>4, MoveKeeps
<1> HIDE DEF All
<1>6. /\ spent' \in [All -> Nat] /\ spent'[from] = spent[from] + amount
      /\ \A a \in All : a # from => spent'[a] = spent[a]
  <2>1. spent[from] + amount \in Nat
    BY <1>3, <1>4
  <2> QED BY <1>2, <1>3, <2>1
<1>7. /\ received' \in [All -> Nat] /\ received'[to] = received[to] + amount
      /\ \A a \in All : a # to => received'[a] = received[a]
  <2>1. received[to] + amount \in Nat
    BY <1>3, <1>4
  <2> QED BY <1>2, <1>3, <2>1
<1>8. ASSUME NEW a \in All
      PROVE  /\ spent'[a] >= spent[a] /\ received'[a] >= received[a]
             /\ balance'[a] + spent'[a] - balance[a] - spent[a] = received'[a] - received[a]
  <2>1. /\ balance[a] \in Nat /\ spent[a] \in Nat /\ received[a] \in Nat
        /\ balance[from] \in Nat
    BY <1>3
  <2>2. CASE a = from
    BY <1>2, <1>4, <1>5, <1>6, <1>7, <2>1, <2>2
  <2>3. CASE a = to
    BY <1>2, <1>4, <1>5, <1>6, <1>7, <2>1, <2>3
  <2>4. CASE a # from /\ a # to
    BY <1>5, <1>6, <1>7, <2>1, <2>4
  <2> QED BY <2>2, <2>3, <2>4
<1> QED BY <1>5, <1>6, <1>7, <1>8 DEF All

\* Other holders touch neither the ledger nor the run.
LEMMA MoveTokensStep ==
  ASSUME AllocationInvariant, MoveTokens
  PROVE  AllocationInvariant'
<1> USE DEF ledger
<1>1. /\ UNCHANGED <<contracts, latest, sent, addresses, pc, step, tornWrites>>
      /\ moves' = moves + 1 /\ AllocationTypeOK /\ InPlace
  BY DEF MoveTokens, AllocationInvariant
<1>2. {balance', spent', received'} \subseteq [Accounts \cup 1..Len(contracts) -> Nat]
  BY <1>1, MoveTokensIs
<1>3. AllocationTypeOK'
  BY <1>1, <1>2 DEF AllocationTypeOK
<1>4. InPlace'
  BY <1>1 DEF InPlace, Name
<1> QED BY <1>3, <1>4 DEF AllocationInvariant

\* After a torn write the ledger is empty, and the run has ended.
LEMMA TearWriteStep ==
  ASSUME AllocationInvariant, TearWrite
  PROVE  AllocationInvariant'
<1> USE DEF world, ledger, tokens, environment
<1>1. /\ UNCHANGED <<contracts, latest, tokens, step, moves>> /\ AllocationTypeOK
      /\ tornWrites' = tornWrites + 1 /\ pc' = "idle"
      /\ addresses' = [n \in Named |-> 0]
  BY DeploymentNames DEF TearWrite, AllocationInvariant
<1>2. tornWrites' \in Nat
  BY <1>1 DEF AllocationTypeOK
<1>3. addresses' \in [Named -> 0..Len(contracts)]
  BY <1>1 DEF AllocationTypeOK
<1>4. AllocationTypeOK' /\ InPlace'
  BY <1>1, <1>2, <1>3 DEF AllocationTypeOK, InPlace
<1> QED BY <1>4 DEF AllocationInvariant

\* The invariant, for any number of interruptions and of transfers by others.
LEMMA AllocationInvariantHolds == Spec => []AllocationInvariant
<1>1. Init => AllocationInvariant
  BY AllocationInit
<1>2. AllocationInvariant /\ [Next]_vars => AllocationInvariant'
  BY QuietSteps, CreateContractStep, SaveAddressStep, SendTransferStep, MoveTokensStep,
     TearWriteStep DEF Next, Progress
<1> QED BY <1>1, <1>2, PTL DEF Spec

-----------------------------------------------------------------------------
(***************************************************************************)
(* Where the supply is, as long as the others keep still.                  *)
(***************************************************************************)
\* What the script has sent in all, whether the ledger still knows the recipient or not.
Singles(s) == s[<<"multisig", 0>>] + s[<<"methodology", 0>>] + s[<<"claims", 0>>]
              + s[<<"staking", 0>>]
YearsOf(s, owner) == s[<<owner, 1>>] + s[<<owner, 2>>] + s[<<owner, 3>>]
SentInAll(s) ==
  Singles(s) + YearsOf(s, "treasury") + YearsOf(s, "setLabs") + YearsOf(s, "dfp")

\* The ledger has a name's own contract for it.
LedgerTrue ==
  /\ \A n \in Named : addresses[n] # 0 => contracts[addresses[n]] = n
  /\ pc = "save" => contracts[latest[TypeOf(Name)]] = Name

\* What the contracts hold that were made for a name, the lost ones included.
MadeFor(n) == {i \in 1..Len(contracts) : contracts[i] = n}
HeldFor(n) == SumFunctionOnSet(balance, MadeFor(n))

\* A contract has its share or nothing, what was sent to a name is in its contracts, and
\* what the deployer no longer has was sent.
Balanced ==
  /\ \A i \in 1..Len(contracts) : balance[i] # 0 => balance[i] = Worth(contracts[i])
  /\ \A n \in Named : sent[n] = HeldFor(n)
  /\ balance[Multisig] = sent[<<"multisig", 0>>]
  /\ balance[Multisig] \in {0, TREASURY_IMMEDIATE_OWNERSHIP_AMOUNT}
  /\ ~Production => balance[Multisig] = 0
  /\ balance[Deployer] + SentInAll(sent) = IndexSupply

\* The transfers the run has passed have been made, all of them when it is finished.
\* Where the deployer stands in for the treasury, its share needs none.
Made(k) ==
  k \in DOMAIN Transfers /\ (Production \/ Transfers[k].name \in Named) =>
    balance[Recipient(Transfers[k].name)] # 0
AllMade ==
  /\ \A n \in Named : addresses[n] # 0 /\ balance[addresses[n]] # 0
  /\ Production => balance[Multisig] # 0
Paying ==
  /\ pc \in {"transfer", "record"} => \A k \in 1..(step - 1) : Made(k)
  /\ pc = "record" => step \in DOMAIN Transfers /\ Made(step)
  /\ finished => pc = "idle" /\ AllMade

ExactInvariant == LedgerTrue /\ (moves = 0 => Balanced /\ Paying)

-----------------------------------------------------------------------------
\* There is a transfer for every name.
LEMMA TransferNames ==
  /\ DOMAIN Transfers = 1..Len(Transfers) /\ Len(Transfers) \in Nat
  /\ \A n \in Named \cup {<<"multisig", 0>>} : \E k \in DOMAIN Transfers : Transfers[k].name = n
<1> DEFINE NamesOf(seq) == {x.name : x \in Range(seq)}
           first     == <<Share("multisig", 0, TREASURY_IMMEDIATE_OWNERSHIP_AMOUNT),
                          Share("methodology", 0, TREASURY_INDEX_METHODOLOGY_OWNERSHIP_AMOUNT),
                          Share("claims", 0, MERKLE_DISTRIBUTOR_AMOUNT),
                          Share("staking", 0, UNISWAP_LP_REWARD_AMOUNT)>>
           treasury  == ThreeYears("treasury", TREASURY_OWNERSHIP_AMOUNTS)
           setLabs   == ThreeYears("setLabs", SET_LABS_OWNERSHIP_AMOUNTS)
           dfp       == ThreeYears("dfp", DFP_OWNERSHIP_AMOUNTS)
<1>1. /\ treasury \in Seq(Due) /\ NamesOf(treasury) = {"treasury"} \X (1..3)
      /\ setLabs \in Seq(Due) /\ NamesOf(setLabs) = {"setLabs"} \X (1..3)
      /\ dfp \in Seq(Due) /\ NamesOf(dfp) = {"dfp"} \X (1..3)
  BY AllYears
<1>2. /\ first \in Seq(Due)
      /\ NamesOf(first) = {<<"multisig", 0>>, <<"methodology", 0>>, <<"claims", 0>>,
                           <<"staking", 0>>}
  <2>1. \A a, b, c, d \in Due :
          <<a, b, c, d>> \in Seq(Due) /\ Range(<<a, b, c, d>>) = {a, b, c, d}
    BY DEF Range
  <2>2. /\ Share("multisig", 0, TREASURY_IMMEDIATE_OWNERSHIP_AMOUNT) \in Due
        /\ Share("methodology", 0, TREASURY_INDEX_METHODOLOGY_OWNERSHIP_AMOUNT) \in Due
        /\ Share("claims", 0, MERKLE_DISTRIBUTOR_AMOUNT) \in Due
        /\ Share("staking", 0, UNISWAP_LP_REWARD_AMOUNT) \in Due
    BY SingleSharesAreDue
  <2>3. \A owner, amount : Share(owner, 0, amount).name = <<owner, 0>>
    BY DEF Share
  <2>4. first \in Seq(Due)
    BY <2>1, <2>2
  <2>5. Range(first)
          = {Share("multisig", 0, TREASURY_IMMEDIATE_OWNERSHIP_AMOUNT),
             Share("methodology", 0, TREASURY_INDEX_METHODOLOGY_OWNERSHIP_AMOUNT),
             Share("claims", 0, MERKLE_DISTRIBUTOR_AMOUNT),
             Share("staking", 0, UNISWAP_LP_REWARD_AMOUNT)}
    BY <2>1, <2>2
  <2> QED BY <2>3, <2>4, <2>5
<1>3. Transfers = ((first \o treasury) \o setLabs) \o dfp
  BY DEF Transfers
<1>4. ASSUME NEW s \in Seq(Due), NEW t \in Seq(Due)
      PROVE  s \o t \in Seq(Due) /\ NamesOf(s \o t) = NamesOf(s) \cup NamesOf(t)
  <2>1. s \o t \in Seq(Due) /\ Range(s \o t) = Range(s) \cup Range(t)
    BY ElementsOfBoth
  <2> QED BY <2>1
<1> HIDE DEF NamesOf, first, treasury, setLabs, dfp
<1>5. /\ first \o treasury \in Seq(Due)
      /\ NamesOf(first \o treasury) = NamesOf(first) \cup NamesOf(treasury)
  BY <1>1, <1>2, <1>4
<1>6. /\ (first \o treasury) \o setLabs \in Seq(Due)
      /\ NamesOf((first \o treasury) \o setLabs) = NamesOf(first \o treasury) \cup NamesOf(setLabs)
  BY <1>1, <1>4, <1>5
<1>7. /\ Transfers \in Seq(Due)
      /\ NamesOf(Transfers) = NamesOf((first \o treasury) \o setLabs) \cup NamesOf(dfp)
  BY <1>1, <1>3, <1>4, <1>6
<1>8. Named \cup {<<"multisig", 0>>} \subseteq NamesOf(Transfers)
  BY <1>1, <1>2, <1>5, <1>6, <1>7 DEF Named
<1> QED BY <1>7, <1>8 DEF NamesOf, Range

\* The sum is one over the names.
LEMMA SumOfSums ==
  ASSUME NEW f, NEW d, NEW g,
         \A n \in Named \cup {<<"multisig", 0>>} :
           f[n] \in Nat /\ d[n] \in Nat /\ g[n] = f[n] + d[n]
  PROVE  SentInAll(g) = SentInAll(f) + SentInAll(d)
<1>1. /\ \A owner \in {"multisig", "methodology", "claims", "staking"} :
           <<owner, 0>> \in Named \cup {<<"multisig", 0>>}
      /\ \A owner \in {"treasury", "setLabs", "dfp"}, year \in 1..3 : <<owner, year>> \in Named
  BY DEF Named
<1>2. Singles(f) \in Nat /\ Singles(d) \in Nat /\ Singles(g) = Singles(f) + Singles(d)
  BY <1>1 DEF Singles
<1>3. ASSUME NEW owner \in {"treasury", "setLabs", "dfp"}
      PROVE  /\ YearsOf(f, owner) \in Nat /\ YearsOf(d, owner) \in Nat
             /\ YearsOf(g, owner) = YearsOf(f, owner) + YearsOf(d, owner)
  BY <1>1 DEF YearsOf
<1> QED BY <1>2, <1>3 DEF SentInAll

\* Sending a share is the same in the sum.
LEMMA SumGrows ==
  ASSUME NEW f \in [Named \cup {<<"multisig", 0>>} -> Nat],
         NEW name \in Named \cup {<<"multisig", 0>>}, NEW amount \in Nat,
         NEW g, g = [f EXCEPT ![name] = @ + amount]
  PROVE  SentInAll(g) = SentInAll(f) + amount
<1> DEFINE All  == Named \cup {<<"multisig", 0>>}
           more == [n \in All |-> IF n = name THEN amount ELSE 0]
<1>1. \A n \in All : f[n] \in Nat /\ more[n] \in Nat /\ g[n] = f[n] + more[n]
  OBVIOUS
<1>2. /\ \A owner \in {"multisig", "methodology", "claims", "staking"} : <<owner, 0>> \in All
      /\ \A owner \in {"treasury", "setLabs", "dfp"}, year \in 1..3 : <<owner, year>> \in All
  BY DEF Named
<1>3. \A n \in All : more[n] = IF n = name THEN amount ELSE 0
  OBVIOUS
<1> HIDE DEF All, more
<1>4. SentInAll(more) = amount
  <2>1. CASE name \in {"multisig", "methodology", "claims", "staking"} \X {0}
    <3>1. Singles(more) = amount
      BY <1>2, <1>3, <2>1 DEF Singles
    <3>2. \A owner \in {"treasury", "setLabs", "dfp"} : YearsOf(more, owner) = 0
      BY <1>2, <1>3, <2>1 DEF YearsOf
    <3> QED BY <3>1, <3>2 DEF SentInAll
  <2>2. CASE name \in {"treasury", "setLabs", "dfp"} \X (1..3)
    <3>1. Singles(more) = 0
      BY <1>2, <1>3, <2>2 DEF Singles
    <3>2. \A owner \in {"treasury", "setLabs", "dfp"} :
            YearsOf(more, owner) = IF owner = name[1] THEN amount ELSE 0
      BY <1>2, <1>3, <2>2 DEF YearsOf
    <3> QED BY <2>2, <3>1, <3>2 DEF SentInAll
  <2> QED BY <2>1, <2>2 DEF Named
<1> QED BY <1>1, <1>4, SumOfSums DEF All

-----------------------------------------------------------------------------
\* In the beginning the deployer has the whole supply.
LEMMA ExactInit == Init => ExactInvariant
<1> SUFFICES ASSUME Init PROVE ExactInvariant
  OBVIOUS
<1>1. LedgerTrue
  BY DeploymentNames DEF Init, LedgerTrue
<1>2. Balanced
  <2>1. \A i \in 1..Len(contracts) : FALSE
    BY DEF Init
  <2>2. SentInAll(sent) = 0
    <3>1. /\ \A owner \in {"multisig", "methodology", "claims", "staking"} : sent[<<owner, 0>>] = 0
          /\ \A owner \in {"treasury", "setLabs", "dfp"}, year \in 1..3 :
               sent[<<owner, year>>] = 0
      BY DeploymentNames DEF Init, Named
    <3> QED BY <3>1 DEF SentInAll, Singles, YearsOf
  <2>3. /\ balance[Deployer] = IndexSupply /\ balance[Multisig] = 0
        /\ sent[<<"multisig", 0>>] = 0
    BY DEF Init, Deployer, Multisig, Others
  <2>4. ASSUME NEW n \in Named PROVE sent[n] = HeldFor(n)
    <3>1. MadeFor(n) = {} /\ sent[n] = 0
      BY <2>1, DeploymentNames DEF Init, MadeFor
    <3> QED BY <3>1, SumEmpty DEF HeldFor
  <2> QED BY <2>1, <2>2, <2>3, <2>4 DEF Balanced, IndexSupply
<1>3. Paying
  BY DEF Init, Paying
<1> QED BY <1>1, <1>2, <1>3 DEF ExactInvariant

\* The recipients stay the same while the ledger does.
LEMMA PayingKept ==
  ASSUME Paying, UNCHANGED <<addresses, balance, pc, step, finished>>
  PROVE  Paying'
BY DEF Paying, Made, AllMade, Recipient

\* What touches neither contracts nor balances may still pass a transfer or finish.
LEMMA ExactQuietSteps ==
  ASSUME AllocationInvariant, ExactInvariant,
         \/ StartRun \/ SkipRecordedName \/ ReuseContract \/ StartTransfers \/ SkipTransfer
         \/ RecordTransfer \/ RefuseTransfer \/ FinishStage \/ Crash \/ UNCHANGED vars
  PROVE  ExactInvariant'
<1> USE DEF world, ledger, tokens, environment, vars
<1>1. /\ UNCHANGED <<contracts, latest, addresses, balance, sent, moves>>
      /\ AllocationTypeOK /\ InPlace /\ LedgerTrue
  BY DEF AllocationInvariant, ExactInvariant, StartRun, SkipRecordedName, ReuseContract,
         StartTransfers, SkipTransfer, RecordTransfer, RefuseTransfer, FinishStage, Crash
<1>2. step \in Nat \ {0}
  BY <1>1 DEF AllocationTypeOK
<1>3. LedgerTrue'
  <2>1. CASE ReuseContract
    BY <1>1, <2>1 DEF ReuseContract, Reusable, LedgerTrue, Name
  <2>2. CASE \/ StartRun \/ SkipRecordedName \/ StartTransfers \/ SkipTransfer
             \/ RecordTransfer \/ RefuseTransfer \/ FinishStage \/ Crash
    <3>1. pc' # "save"
      BY <2>2 DEF StartRun, SkipRecordedName, StartTransfers, SkipTransfer, RecordTransfer,
                  RefuseTransfer, FinishStage, Crash, Deploying, Transferring
    <3> QED BY <1>1, <3>1 DEF LedgerTrue
  <2>3. CASE UNCHANGED vars
    BY <1>1, <2>3 DEF LedgerTrue, Name
  <2> QED BY <2>1, <2>2, <2>3
<1>4. Balanced => Balanced'
  BY <1>1 DEF Balanced, HeldFor, MadeFor, SentInAll, Singles, YearsOf
<1>5. ASSUME Paying PROVE Paying'
  <2>1. \A k : Made(k)' <=> Made(k)
    BY <1>1 DEF Made, Recipient
  <2>2. AllMade' <=> AllMade
    BY <1>1 DEF AllMade
  <2>3. CASE StartRun \/ SkipRecordedName \/ ReuseContract
    BY <1>5, <2>3 DEF StartRun, SkipRecordedName, ReuseContract, Deploying, Paying
  <2>4. CASE StartTransfers
    <3>1. pc' = "transfer" /\ \A k \in 1..(step' - 1) : FALSE
      BY <2>4 DEF StartTransfers
    <3>2. ~finished'
      BY <1>5, <2>4 DEF StartTransfers, Paying
    <3> QED BY <3>1, <3>2 DEF Paying
  <2>5. CASE SkipTransfer \/ RecordTransfer
    <3>1. /\ pc \in {"transfer", "record"} /\ pc' = "transfer" /\ step' = step + 1
          /\ finished' = finished /\ Made(step)
      BY <1>5, <2>5 DEF SkipTransfer, RecordTransfer, Transferring, Unpaid, Transfer, Made,
                        Paying
    <3>2. \A k \in 1..(step' - 1) : k = step \/ k \in 1..(step - 1)
      BY <1>2, <3>1
    <3>3. \A k \in 1..(step' - 1) : Made(k)
      BY <1>5, <3>1, <3>2 DEF Paying
    <3>4. ~finished'
      BY <1>5, <3>1 DEF Paying
    <3> QED BY <2>1, <3>1, <3>3, <3>4 DEF Paying
  <2>6. CASE RefuseTransfer \/ Crash
    BY <1>5, <2>2, <2>6 DEF RefuseTransfer, Crash, Transferring, Paying
  <2>7. CASE FinishStage
    <3>1. pc = "transfer" /\ pc' = "idle" /\ step \notin DOMAIN Transfers
      BY <2>7 DEF FinishStage
    <3>2. \A k \in DOMAIN Transfers : Made(k)
      <4>1. \A k \in DOMAIN Transfers : k \in 1..(step - 1)
        BY <1>2, <3>1, TransferNames
      <4> QED BY <1>5, <3>1, <4>1 DEF Paying
    <3>3. ASSUME NEW n \in Named \cup {<<"multisig", 0>>}, Production \/ n \in Named
          PROVE  balance[Recipient(n)] # 0
      <4>1. PICK k \in DOMAIN Transfers : Transfers[k].name = n
        BY TransferNames
      <4> QED BY <3>2, <3>3, <4>1 DEF Made
    <3>4. \A n \in Named : Recipient(n) = addresses[n]
      BY DueNames DEF Recipient
    <3>5. Recipient(<<"multisig", 0>>) = IF Production THEN Multisig ELSE Deployer
      BY DEF Recipient
    <3>6. AllMade
      BY <1>1, <3>1, <3>3, <3>4, <3>5 DEF AllMade, InPlace
    <3> QED BY <2>2, <3>1, <3>6 DEF Paying
  <2>8. CASE UNCHANGED vars
    BY <1>5, <2>8, PayingKept
  <2> QED BY <2>3, <2>4, <2>5, <2>6, <2>7, <2>8
<1> QED BY <1>1, <1>3, <1>4, <1>5 DEF ExactInvariant

\* A new contract has its name, and no tokens.
LEMMA ExactCreateStep ==
  ASSUME AllocationInvariant, ExactInvariant, CreateContract
  PROVE  ExactInvariant'
<1> USE DEF world, ledger, tokens, environment
<1> DEFINE new == Len(contracts) + 1
<1>1. /\ pc = "deploy" /\ step \in DOMAIN Deployments
      /\ contracts' = Append(contracts, Name)
      /\ latest' = [latest EXCEPT ![TypeOf(Name)] = new]
      /\ balance' = [a \in DOMAIN balance \cup {new} |->
                       IF a \in DOMAIN balance THEN balance[a] ELSE 0]
      /\ pc' = "save"
      /\ UNCHANGED <<addresses, sent, step, finished, moves>>
  BY DEF CreateContract, Deploying, WithNew
<1>2. AllocationTypeOK /\ LedgerTrue /\ Name \in Named /\ Name' = Name
  BY <1>1, DeploymentNames DEF AllocationInvariant, ExactInvariant, Name, ContractNames
<1>3. /\ Len(contracts) \in Nat /\ Len(contracts') = new
      /\ contracts'[new] = Name
      /\ \A i \in 1..Len(contracts) : contracts'[i] = contracts[i]
  BY <1>1, <1>2 DEF AllocationTypeOK
<1>4. latest'[TypeOf(Name)] = new
  <2>1. TypeOf(Name) \in DOMAIN latest
    BY <1>2 DEF AllocationTypeOK
  <2> HIDE DEF new
  <2> QED BY <1>1, <2>1
<1>5. /\ \A a \in Accounts \cup 1..Len(contracts) : balance'[a] = balance[a]
      /\ balance'[new] = 0
  <2>1. DOMAIN balance = Accounts \cup 1..Len(contracts)
    BY <1>2 DEF AllocationTypeOK
  <2>2. new \notin DOMAIN balance
    BY <1>3, <2>1 DEF Accounts, Deployer, Multisig, Others
  <2> HIDE DEF new
  <2> QED BY <1>1, <2>1, <2>2
<1>6. LedgerTrue'
  <2>1. \A n \in Named : addresses[n] # 0 => addresses[n] \in 1..Len(contracts)
    BY <1>2, <1>3 DEF AllocationTypeOK
  <2> QED BY <1>1, <1>2, <1>3, <1>4, <2>1 DEF LedgerTrue
<1>7. Balanced => Balanced'
  <2>1. Deployer \in Accounts /\ Multisig \in Accounts
    BY DEF Accounts
  <2>2. ASSUME Balanced, NEW i \in 1..Len(contracts'), balance'[i] # 0
        PROVE  balance'[i] = Worth(contracts'[i])
    <3>1. i \in 1..Len(contracts)
      BY <1>3, <1>5, <2>2
    <3> QED BY <1>1, <1>3, <1>5, <2>2, <3>1 DEF Balanced
  <2>3. SentInAll(sent)' = SentInAll(sent)
    BY <1>1 DEF SentInAll, Singles, YearsOf
  <2>4. ASSUME Balanced, NEW n \in Named PROVE sent'[n] = HeldFor(n)'
    <3> DEFINE old == MadeFor(n)
               now == {i \in 1..Len(contracts') : contracts'[i] = n}
    <3>1. /\ old \subseteq 1..Len(contracts) /\ IsFiniteSet(old) /\ new \notin old
          /\ now = IF n = Name THEN old \cup {new} ELSE old
      <4>1. IsFiniteSet(1..Len(contracts))
        BY <1>3, FS_Interval
      <4>2. old \subseteq 1..Len(contracts)
        BY DEF MadeFor
      <4>3. 1..Len(contracts') = (1..Len(contracts)) \cup {new} /\ new \notin 1..Len(contracts)
        BY <1>3
      <4>4. now = IF n = Name THEN old \cup {new} ELSE old
        BY <1>3, <4>3 DEF MadeFor
      <4> QED BY <4>1, <4>2, <4>3, <4>4, FS_Subset
    <3>2. \A i \in old : balance'[i] \in Int /\ balance[i] \in Int /\ balance'[i] = balance[i]
      BY <1>2, <1>5, <3>1 DEF AllocationTypeOK
    <3> HIDE DEF old, now, new
    <3>3. SumFunctionOnSet(balance', old) = SumFunctionOnSet(balance, old)
      BY <3>1, <3>2, SumSame
    <3>4. SumFunctionOnSet(balance', old) \in Int
      BY <3>1, <3>2, SumType
    <3>5. SumFunctionOnSet(balance', now) = SumFunctionOnSet(balance', old)
      <4>1. CASE n = Name
        <5>1. \A i \in old \cup {new} : balance'[i] \in Int
          BY <1>5, <3>2
        <5>2. SumFunctionOnSet(balance', old \cup {new})
                = balance'[new] + SumFunctionOnSet(balance', old)
          BY <3>1, <5>1, SumAdd
        <5> QED BY <1>5, <3>1, <3>4, <4>1, <5>2
      <4>2. CASE n # Name
        BY <3>1, <4>2
      <4> QED BY <4>1, <4>2
    <3> QED BY <1>1, <2>4, <3>3, <3>5 DEF Balanced, HeldFor, MadeFor, old, now
  <2> QED BY <1>1, <1>5, <2>1, <2>2, <2>3, <2>4 DEF Balanced
<1>8. Paying => Paying'
  BY <1>1 DEF Paying
<1> QED BY <1>1, <1>6, <1>7, <1>8 DEF ExactInvariant

\* The ledger gets the contract made for the name, or the one handed back for it.
LEMMA ExactSaveStep ==
  ASSUME AllocationInvariant, ExactInvariant, SaveAddress
  PROVE  ExactInvariant'
<1> USE DEF world, ledger, tokens, environment
<1>1. /\ pc = "save" /\ pc' = "deploy"
      /\ addresses' = [addresses EXCEPT ![Name] = latest[TypeOf(Name)]]
      /\ UNCHANGED <<contracts, latest, balance, sent, finished, moves>>
  BY DEF SaveAddress
<1>2. LedgerTrue /\ addresses \in [Named -> 0..Len(contracts)]
  BY DEF AllocationInvariant, AllocationTypeOK, ExactInvariant
<1>3. LedgerTrue'
  <2>1. contracts[latest[TypeOf(Name)]] = Name
    BY <1>1, <1>2 DEF LedgerTrue
  <2>2. \A n \in Named : addresses'[n] = IF n = Name THEN latest[TypeOf(Name)] ELSE addresses[n]
    BY <1>1, <1>2
  <2> QED BY <1>1, <1>2, <2>1, <2>2 DEF LedgerTrue
<1>4. Balanced => Balanced'
  BY <1>1 DEF Balanced, HeldFor, MadeFor, SentInAll, Singles, YearsOf
<1>5. Paying => Paying'
  BY <1>1 DEF Paying
<1> QED BY <1>1, <1>3, <1>4, <1>5 DEF ExactInvariant

\* The ledger is empty afterwards, so it says nothing wrong.
LEMMA ExactTearStep ==
  ASSUME AllocationInvariant, ExactInvariant, TearWrite
  PROVE  ExactInvariant'
<1> USE DEF world, ledger, tokens, environment
<1>1. /\ pc # "idle" /\ pc' = "idle" /\ addresses' = [n \in Named |-> 0]
      /\ UNCHANGED <<contracts, latest, balance, sent, finished, moves>>
  BY DeploymentNames DEF TearWrite
<1>2. LedgerTrue'
  BY <1>1 DEF LedgerTrue
<1>3. Balanced => Balanced'
  BY <1>1 DEF Balanced, HeldFor, MadeFor, SentInAll, Singles, YearsOf
<1>4. Paying => Paying'
  BY <1>1 DEF Paying
<1> QED BY <1>1, <1>2, <1>3, <1>4 DEF ExactInvariant

\* Once somebody else has moved tokens, the equation of the balances is given up.
LEMMA ExactMoveStep ==
  ASSUME AllocationInvariant, ExactInvariant, MoveTokens
  PROVE  ExactInvariant'
<1>1. UNCHANGED <<contracts, latest, addresses, pc, step>> /\ moves' = moves + 1 /\ moves \in Nat
  BY DEF MoveTokens, ledger, AllocationInvariant, AllocationTypeOK
<1>2. LedgerTrue' /\ moves' # 0
  BY <1>1 DEF ExactInvariant, LedgerTrue, Name
<1> QED BY <1>2 DEF ExactInvariant

\* What sending a share does: the recipient had nothing, and is no account but the treasury.
LEMMA SendIs ==
  ASSUME AllocationInvariant, ExactInvariant, SendTransfer
  PROVE  LET name   == Transfer.name
             amount == Transfer.amount
             to     == Recipient(name)
         IN  /\ pc = "transfer" /\ pc' = "record" /\ step \in DOMAIN Transfers
             /\ sent' = [sent EXCEPT ![name] = @ + amount]
             /\ UNCHANGED <<contracts, latest, addresses, step, finished, moves>>
             /\ Transfer \in Due /\ amount \in Nat \ {0} /\ amount = Worth(name)
             /\ name \in Named \cup {<<"multisig", 0>>}
             /\ to \in Accounts \cup 1..Len(contracts) /\ to # Deployer
             /\ name = <<"multisig", 0>> => to = Multisig /\ Production
             /\ name \in Named => /\ to \in 1..Len(contracts) /\ to = addresses[name]
                                  /\ contracts[to] = name
             /\ balance[to] = 0 /\ balance'[to] = amount
             /\ balance[Deployer] >= amount
             /\ balance'[Deployer] = balance[Deployer] - amount
             /\ \A a \in Accounts \cup 1..Len(contracts) :
                  a # Deployer /\ a # to => balance'[a] = balance[a]
<1> USE DEF world, ledger, tokens, environment
<1> DEFINE name   == Transfer.name
           amount == Transfer.amount
           to     == Recipient(name)
<1>1. /\ Transferring /\ pc = "transfer" /\ pc' = "record" /\ step \in DOMAIN Transfers
      /\ balance[to] = 0 /\ balance[Deployer] >= amount
      /\ Move(Deployer, to, amount)
      /\ sent' = [sent EXCEPT ![name] = @ + amount]
      /\ UNCHANGED <<contracts, latest, addresses, step, finished, moves>>
  BY DEF SendTransfer, Transferring, Unpaid
<1>2. AllocationTypeOK /\ InPlace /\ LedgerTrue
  BY DEF AllocationInvariant, ExactInvariant
<1>3. /\ Transfer \in Due /\ amount \in Nat \ {0} /\ amount = Worth(name)
      /\ name \in Named \cup {<<"multisig", 0>>}
      /\ to \in Accounts \cup 1..Len(contracts)
      /\ name \in Named => to = addresses[name]
  BY <1>1, <1>2, TransferIs, DueNames
<1>4. name = <<"multisig", 0>> => to = Multisig /\ Production
  <2>1. name = <<"multisig", 0>> => to = IF Production THEN Multisig ELSE Deployer
    BY DEF Recipient
  <2>2. to # Deployer
    BY <1>1, <1>3
  <2> QED BY <2>1, <2>2
<1>6. /\ Multisig # Deployer /\ Deployer \in Accounts /\ Multisig \in Accounts
      /\ Deployer \notin 1..Len(contracts) /\ Multisig \notin 1..Len(contracts)
      /\ Multisig # 0
  BY DEF Accounts, Deployer, Multisig
<1>7. /\ to # Deployer
      /\ name \in Named => to \in 1..Len(contracts) /\ contracts[to] = name
  <2>1. name \in Named => addresses[name] # 0
    BY <1>1, <1>2 DEF InPlace
  <2>2. name \in Named => addresses[name] \in 1..Len(contracts)
    BY <1>2, <2>1 DEF AllocationTypeOK
  <2> QED BY <1>2, <1>3, <1>4, <1>6, <2>1, <2>2 DEF LedgerTrue
<1> HIDE DEF name, amount, to
<1>8. /\ balance'[to] = amount
      /\ balance'[Deployer] = balance[Deployer] - amount
      /\ \A a \in Accounts \cup 1..Len(contracts) :
           a # Deployer /\ a # to => balance'[a] = balance[a]
  <2>1. amount \in Nat
    BY <1>3
  <2>2. /\ balance'[to] = balance[to] + amount
        /\ balance'[Deployer] = balance[Deployer] - amount
        /\ \A a \in Accounts \cup 1..Len(contracts) :
             a # Deployer /\ a # to => balance'[a] = balance[a]
    BY <1>1, <1>2, <1>3, <1>6, <1>7, <2>1, MoveKeeps
  <2> QED BY <1>1, <2>1, <2>2
<1> QED BY <1>1, <1>3, <1>4, <1>7, <1>8 DEF name, amount, to

\* What the deployer loses is added to what has been sent, and the recipient, which had
\* nothing, gets what its name is due.
LEMMA ExactSendStep ==
  ASSUME AllocationInvariant, ExactInvariant, SendTransfer
  PROVE  ExactInvariant'
<1> DEFINE name   == Transfer.name
           amount == Transfer.amount
           to     == Recipient(name)
<1>1. /\ pc = "transfer" /\ pc' = "record" /\ step \in DOMAIN Transfers
      /\ balance[to] = 0 /\ balance[Deployer] >= amount
      /\ sent' = [sent EXCEPT ![name] = @ + amount]
      /\ UNCHANGED <<contracts, latest, addresses, step, finished, moves>>
  BY SendIs
<1>2. AllocationTypeOK /\ InPlace /\ LedgerTrue
  BY DEF AllocationInvariant, ExactInvariant
<1>3. /\ Transfer \in Due /\ amount \in Nat \ {0} /\ amount = Worth(name)
      /\ name \in Named \cup {<<"multisig", 0>>}
      /\ to \in Accounts \cup 1..Len(contracts)
      /\ name \in Named => to = addresses[name]
  BY SendIs
<1>4. name = <<"multisig", 0>> => to = Multisig /\ Production
  BY SendIs
<1>5. LedgerTrue'
  BY <1>1, <1>2 DEF LedgerTrue
<1>6. /\ Multisig # Deployer /\ Deployer \in Accounts /\ Multisig \in Accounts
      /\ Deployer \notin 1..Len(contracts) /\ Multisig \notin 1..Len(contracts)
      /\ Multisig # 0
  BY DEF Accounts, Deployer, Multisig
<1>7. /\ to # Deployer
      /\ name \in Named => to \in 1..Len(contracts) /\ contracts[to] = name
  BY SendIs
<1>8. /\ balance'[to] = amount
      /\ balance'[Deployer] = balance[Deployer] - amount
      /\ \A a \in Accounts \cup 1..Len(contracts) :
           a # Deployer /\ a # to => balance'[a] = balance[a]
  BY SendIs
<1> HIDE DEF name, amount, to
<1>9. /\ sent \in [Named \cup {<<"multisig", 0>>} -> Nat]
      /\ sent'[name] = sent[name] + amount
      /\ \A n \in Named \cup {<<"multisig", 0>>} : n # name => sent'[n] = sent[n]
  <2>1. sent \in [Named \cup {<<"multisig", 0>>} -> Nat]
    BY <1>2 DEF AllocationTypeOK
  <2> QED BY <1>1, <1>3, <2>1
<1>10. ASSUME Balanced PROVE Balanced'
  <2>1. SentInAll(sent') = SentInAll(sent) + amount
    <3>1. /\ name \in Named \cup {<<"multisig", 0>>} /\ amount \in Nat
          /\ sent \in [Named \cup {<<"multisig", 0>>} -> Nat]
          /\ sent' = [sent EXCEPT ![name] = @ + amount]
      BY <1>1, <1>3, <1>9
    <3>2. \A g : g = [sent EXCEPT ![name] = @ + amount] =>
                SentInAll(g) = SentInAll(sent) + amount
      BY <3>1, SumGrows
    <3> QED BY <3>1, <3>2
  <2>2. SentInAll(sent) \in Nat /\ balance[Deployer] \in Nat
    <3>1. balance[Deployer] \in Nat /\ IndexSupply \in Nat
      BY <1>2, <1>6 DEF AllocationTypeOK, IndexSupply
    <3>2. /\ \A owner \in {"multisig", "methodology", "claims", "staking"} :
               sent[<<owner, 0>>] \in Nat
          /\ \A owner \in {"treasury", "setLabs", "dfp"}, year \in 1..3 :
               sent[<<owner, year>>] \in Nat
      BY <1>9 DEF Named
    <3>3. SentInAll(sent) \in Nat
      BY <3>2 DEF SentInAll, Singles, YearsOf
    <3> QED BY <3>1, <3>3
  <2>3. balance'[Deployer] + SentInAll(sent') = IndexSupply
    BY <1>3, <1>8, <1>10, <2>1, <2>2 DEF Balanced
  <2>4. ASSUME NEW i \in 1..Len(contracts), balance'[i] # 0
        PROVE  balance'[i] = Worth(contracts[i])
    <3>1. i # Deployer
      BY <1>6
    <3>2. CASE i = to
      <4>1. name \in Named /\ contracts[i] = name
        BY <1>3, <1>4, <1>6, <1>7, <3>2
      <4> QED BY <1>3, <1>8, <3>2, <4>1
    <3>3. CASE i # to
      <4>1. balance'[i] = balance[i]
        BY <1>8, <3>1, <3>3
      <4> QED BY <1>10, <2>4, <4>1 DEF Balanced
    <3> QED BY <3>2, <3>3
  <2>6. ASSUME NEW n \in Named PROVE sent'[n] = HeldFor(n)'
    <3> DEFINE made == MadeFor(n)
    <3>1. /\ IsFiniteSet(made) /\ made \subseteq 1..Len(contracts)
          /\ \A i \in made : contracts[i] = n
          /\ HeldFor(n) = SumFunctionOnSet(balance, made)
          /\ HeldFor(n)' = SumFunctionOnSet(balance', made)
      <4>1. Len(contracts) \in Nat
        BY <1>2 DEF AllocationTypeOK
      <4>2. IsFiniteSet(1..Len(contracts))
        BY <4>1, FS_Interval
      <4>3. made \subseteq 1..Len(contracts) /\ \A i \in made : contracts[i] = n
        BY DEF MadeFor
      <4> QED BY <1>1, <4>2, <4>3, FS_Subset DEF HeldFor, MadeFor
    <3>2. \A i \in made : balance[i] \in Int
      BY <1>2, <3>1 DEF AllocationTypeOK
    <3>3. \A i \in made : i # to => balance'[i] = balance[i]
      BY <1>6, <1>8, <3>1
    <3>4. n = name => to \in made
      BY <1>7 DEF MadeFor
    <3>5. sent[n] = SumFunctionOnSet(balance, made)
      BY <1>10, <3>1 DEF Balanced
    <3> HIDE DEF made
    <3>6. CASE n = name
      <4>1. \A i \in made : balance'[i] \in Int
        BY <1>3, <1>8, <3>2, <3>3
      <4>2. \A i \in made \ {to} : balance'[i] = balance[i]
        BY <3>3
      <4>3. \A i \in made : balance[i] \in Int /\ balance'[i] \in Int
        BY <3>2, <4>1
      <4>4. to \in made
        BY <3>4, <3>6
      <4>5. SumFunctionOnSet(balance', made)
              = SumFunctionOnSet(balance, made) - balance[to] + balance'[to]
        BY <3>1, <4>2, <4>3, <4>4, SumChange
      <4>6. sent[n] \in Nat
        BY <1>9
      <4> QED BY <1>1, <1>3, <1>8, <1>9, <3>1, <3>5, <3>6, <4>5, <4>6
    <3>7. CASE n # name
      <4>1. to \notin made
        BY <1>3, <1>4, <1>6, <1>7, <3>1, <3>7
      <4>2. \A i \in made : balance[i] \in Int /\ balance'[i] = balance[i]
        BY <3>2, <3>3, <4>1
      <4>3. SumFunctionOnSet(balance', made) = SumFunctionOnSet(balance, made)
        BY <3>1, <4>2, SumSame
      <4> QED BY <1>9, <3>1, <3>5, <3>7, <4>3
    <3> QED BY <3>6, <3>7
  <2>5. /\ balance'[Multisig] = sent'[<<"multisig", 0>>]
        /\ balance'[Multisig] \in {0, TREASURY_IMMEDIATE_OWNERSHIP_AMOUNT}
        /\ ~Production => balance'[Multisig] = 0
    <3>1. CASE name = <<"multisig", 0>>
      <4>1. balance[Multisig] = 0 /\ sent[name] = 0
        BY <1>1, <1>4, <1>10, <3>1 DEF Balanced
      <4>2. Worth(name) = TREASURY_IMMEDIATE_OWNERSHIP_AMOUNT
        BY <3>1 DEF Worth, AmountDue
      <4> QED BY <1>3, <1>4, <1>8, <1>9, <3>1, <4>1, <4>2
    <3>2. CASE name # <<"multisig", 0>>
      <4>1. Multisig # to
        BY <1>3, <1>6, <1>7, <3>2
      <4> QED BY <1>6, <1>8, <1>9, <1>10, <3>2, <4>1 DEF Balanced
    <3> QED BY <3>1, <3>2
  <2> QED BY <1>1, <2>3, <2>4, <2>5, <2>6 DEF Balanced
<1>11. ASSUME Paying PROVE Paying'
  <2>1. \A n : Recipient(n)' = Recipient(n)
    BY <1>1 DEF Recipient
  <2>2. Made(step)'
    BY <1>1, <1>3, <1>8, <2>1 DEF Made, Transfer, to, name
  <2>3. ASSUME NEW k \in 1..(step - 1), k \in DOMAIN Transfers,
               Production \/ Transfers[k].name \in Named
        PROVE  Made(k)'
    <3>1. balance[Recipient(Transfers[k].name)] # 0
      BY <1>1, <1>11, <2>3 DEF Paying, Made
    <3>2. Transfers[k] \in Due
      BY <2>3, TransfersAreDue
    <3>3. \/ Transfers[k].name = <<"multisig", 0>>
          \/ Transfers[k].name \in Named
      BY <3>2, DueNames
    <3>4. /\ Recipient(Transfers[k].name) \in Accounts \cup 1..Len(contracts)
          /\ Recipient(Transfers[k].name) # Deployer
      <4>1. CASE Transfers[k].name = <<"multisig", 0>>
        BY <1>6, <2>3, <4>1, DueNames DEF Recipient
      <4>2. CASE Transfers[k].name \in Named
        <5>1. /\ Recipient(Transfers[k].name) = addresses[Transfers[k].name]
              /\ addresses[Transfers[k].name] # 0
          BY <1>1, <1>2, <4>2, DueNames DEF Recipient, InPlace
        <5>2. addresses[Transfers[k].name] \in 1..Len(contracts)
          BY <1>2, <4>2, <5>1 DEF AllocationTypeOK
        <5> QED BY <1>6, <5>1, <5>2
      <4> QED BY <3>3, <4>1, <4>2
    <3>5. balance'[Recipient(Transfers[k].name)] # 0
      BY <1>1, <1>8, <3>1, <3>4, <1>3
    <3> QED BY <2>1, <3>5 DEF Made
  <2>4. ~finished'
    BY <1>1, <1>11 DEF Paying
  <2>5. \A k \in 1..(step - 1) : Made(k)'
    BY <2>3 DEF Made
  <2> QED BY <1>1, <2>2, <2>4, <2>5 DEF Paying
<1> QED BY <1>1, <1>5, <1>10, <1>11 DEF ExactInvariant

\* A contract holds no more than was sent to its name.
LEMMA HeldWasSent ==
  ASSUME AllocationTypeOK, Balanced, NEW i \in 1..Len(contracts)
  PROVE  sent[contracts[i]] >= balance[i]
<1> DEFINE made == MadeFor(contracts[i])
<1>1. IsFiniteSet(made) /\ i \in made /\ \A j \in made : balance[j] \in Nat
  <2>1. made \subseteq 1..Len(contracts) /\ i \in made /\ Len(contracts) \in Nat
    BY DEF AllocationTypeOK, MadeFor
  <2>2. IsFiniteSet(1..Len(contracts))
    BY <2>1, FS_Interval
  <2> QED BY <2>1, <2>2, FS_Subset DEF AllocationTypeOK
<1>2. sent[contracts[i]] = SumFunctionOnSet(balance, made)
  <2>1. contracts[i] \in Named
    BY DEF AllocationTypeOK
  <2> QED BY <2>1 DEF Balanced, HeldFor
<1> HIDE DEF made
<1>3. /\ IsFiniteSet(made \ {i})
      /\ \A j \in made : balance[j] \in Int
      /\ \A j \in made \ {i} : balance[j] \in Nat
  BY <1>1, FS_Subset
<1>4. /\ SumFunctionOnSet(balance, made) = balance[i] + SumFunctionOnSet(balance, made \ {i})
      /\ SumFunctionOnSet(balance, made \ {i}) \in Nat
  BY <1>1, <1>3, SumRemove, SumNat
<1> QED BY <1>1, <1>2, <1>4

\* The balances and the place of the run, for any number of interruptions.
LEMMA ExactInvariantHolds == Spec => []ExactInvariant
<1>1. Init => ExactInvariant
  BY ExactInit
<1>2. AllocationInvariant /\ ExactInvariant /\ [Next]_vars => ExactInvariant'
  BY ExactQuietSteps, ExactCreateStep, ExactSaveStep, ExactTearStep, ExactMoveStep,
     ExactSendStep DEF Next, Progress
<1> QED BY <1>1, <1>2, AllocationInvariantHolds, PTL DEF Spec

-----------------------------------------------------------------------------
(***************************************************************************)
(* What the other holders can make the script do.                          *)
(***************************************************************************)
Treasury == <<"multisig", 0>>

\* What a name was sent is in the account of its recipient or was sent on from there, and
\* what it was sent beyond its share only made up for that.  Now, and after a step:
KeptBy(n, a)      == sent[n] <= balance[a] + spent[a] /\ sent[n] <= Worth(n) + spent[a]
StillKeptBy(n, a) == sent'[n] <= balance'[a] + spent'[a] /\ sent'[n] <= Worth(n) + spent'[a]

\* The recipient has no tokens but from the script and from other holders.
CameFrom(n, a)      == balance[a] + spent[a] <= sent[n] + received[a]
StillCameFrom(n, a) == balance'[a] + spent'[a] <= sent'[n] + received'[a]

\* The accounts of all contracts, lost ones included, and of the treasury's multisig.
NoneFromNowhere ==
  CameFrom(Treasury, Multisig) /\ \A i \in 1..Len(contracts) : CameFrom(contracts[i], i)

TreasuryKept == KeptBy(Treasury, Multisig)

\* A name with a contract was sent what the contract kept or spent, one without nothing.
PaidIsKept ==
  \A n \in Named : IF addresses[n] = 0 THEN sent[n] = 0 ELSE KeptBy(n, addresses[n])

\* A share is sent whole.
SentWhole == \A n \in Named \cup {Treasury} : sent[n] = 0 \/ sent[n] >= Worth(n)

\* A transfer the run has passed was made, or the recipient had tokens from other holders.
Settled(k) ==
  k \in DOMAIN Transfers /\ (Production \/ Transfers[k].name \in Named) =>
    \/ sent[Transfers[k].name] >= Worth(Transfers[k].name)
    \/ received[Recipient(Transfers[k].name)] > 0
Settling ==
  /\ pc \in {"transfer", "record"} => \A k \in 1..(step - 1) : Settled(k)
  /\ pc = "record" => Settled(step)
  /\ finished => pc = "idle" /\ \A k \in DOMAIN Transfers : Settled(k)

MovesInvariant ==
  /\ NoneFromNowhere /\ SentWhole /\ Settling /\ TreasuryKept
  /\ tornWrites = 0 => PaidIsKept

\* The types that the accounting needs.
LEMMA AccountTypes ==
  ASSUME AllocationTypeOK
  PROVE  /\ \A a \in Accounts \cup 1..Len(contracts) :
              balance[a] \in Nat /\ spent[a] \in Nat /\ received[a] \in Nat
         /\ \A n \in Named \cup {Treasury} : sent[n] \in Nat /\ Worth(n) \in Nat \ {0}
         /\ \A i \in 1..Len(contracts) : contracts[i] \in Named /\ i # Multisig /\ i # Deployer
         /\ \A n \in Named : addresses[n] # 0 => addresses[n] \in 1..Len(contracts)
         /\ \A n \in Named \cup {Treasury} : Recipient(n) \in Accounts \cup 1..Len(contracts)
         /\ Multisig \in Accounts /\ Deployer \in Accounts /\ Multisig # Deployer
<1>1. \A a \in Accounts \cup 1..Len(contracts) :
        balance[a] \in Nat /\ spent[a] \in Nat /\ received[a] \in Nat
  BY DEF AllocationTypeOK
<1>2. \A n \in Named \cup {Treasury} : sent[n] \in Nat /\ Worth(n) \in Nat \ {0}
  BY WorthsArePositive DEF AllocationTypeOK, Treasury
<1>3. \A i \in 1..Len(contracts) : contracts[i] \in Named /\ i # Multisig /\ i # Deployer
  BY DEF AllocationTypeOK, Multisig, Deployer
<1>4. \A n \in Named : addresses[n] # 0 => addresses[n] \in 1..Len(contracts)
  BY DEF AllocationTypeOK
<1>5. Multisig \in Accounts /\ Deployer \in Accounts /\ Multisig # Deployer
  BY DEF Accounts, Multisig, Deployer
<1>6. \A n \in Named : addresses[n] \in Accounts \cup 1..Len(contracts)
  BY <1>4 DEF Accounts, Deployer
<1>7. \A n \in Named \cup {Treasury} : Recipient(n) \in Accounts \cup 1..Len(contracts)
  BY <1>5, <1>6, DueNames DEF Recipient, Treasury
<1> QED BY <1>1, <1>2, <1>3, <1>4, <1>5, <1>7

\* The parts of the invariant after a step.
LEMMA AfterStep ==
  /\ StillKeptBy(Treasury, Multisig) => TreasuryKept'
  /\ StillCameFrom(Treasury, Multisig)
       /\ (\A i \in 1..Len(contracts') : StillCameFrom(contracts'[i], i)) => NoneFromNowhere'
  /\ (\A n \in Named : IF addresses'[n] = 0 THEN sent'[n] = 0
                                            ELSE StillKeptBy(n, addresses'[n])) => PaidIsKept'
<1>1. StillKeptBy(Treasury, Multisig) => TreasuryKept'
  BY DEF TreasuryKept, KeptBy, StillKeptBy
<1>2. StillCameFrom(Treasury, Multisig)
        /\ (\A i \in 1..Len(contracts') : StillCameFrom(contracts'[i], i)) => NoneFromNowhere'
  BY DEF NoneFromNowhere, CameFrom, StillCameFrom
<1>3. (\A n \in Named : IF addresses'[n] = 0 THEN sent'[n] = 0
                                            ELSE StillKeptBy(n, addresses'[n])) => PaidIsKept'
  BY DEF PaidIsKept, KeptBy, StillKeptBy
<1> QED BY <1>1, <1>2, <1>3

LEMMA MovesInit == Init => MovesInvariant
<1> SUFFICES ASSUME Init PROVE MovesInvariant
  OBVIOUS
<1>1. /\ contracts = <<>> /\ pc = "idle" /\ finished = FALSE
      /\ balance[Multisig] = 0 /\ spent[Multisig] = 0 /\ received[Multisig] = 0
      /\ \A n \in Named : addresses[n] = 0
      /\ \A n \in Named \cup {Treasury} : sent[n] = 0
  BY DeploymentNames DEF Init, Deployer, Multisig, Others, Treasury
<1>2. Worth(Treasury) \in Nat
  BY WorthsArePositive DEF Treasury
<1>3. NoneFromNowhere
  <2>1. \A i \in 1..Len(contracts) : FALSE
    BY <1>1
  <2> QED BY <1>1, <2>1 DEF NoneFromNowhere, CameFrom
<1>4. SentWhole /\ PaidIsKept /\ Settling
  BY <1>1 DEF SentWhole, PaidIsKept, Settling
<1>5. TreasuryKept
  BY <1>1, <1>2 DEF TreasuryKept, KeptBy
<1> QED BY <1>3, <1>4, <1>5 DEF MovesInvariant

\* A recipient with tokens was paid by the script, or by somebody else.
LEMMA BalanceSettles ==
  ASSUME AllocationTypeOK, LedgerTrue, NoneFromNowhere, SentWhole,
         NEW k \in DOMAIN Transfers, balance[Recipient(Transfers[k].name)] # 0,
         \A n \in Named : addresses[n] # 0
  PROVE  Settled(k)
<1> DEFINE n == Transfers[k].name
           a == Recipient(n)
<1>1. Transfers[k] \in Due
  BY TransfersAreDue
<1>2. n \in Named \/ n = Treasury
  BY <1>1, DueNames DEF Treasury
<1>3. SUFFICES ASSUME Production \/ n \in Named PROVE sent[n] >= Worth(n) \/ received[a] > 0
  BY DEF Settled
<1>4. a \in Accounts \cup 1..Len(contracts) /\ CameFrom(n, a)
  <2>1. CASE n \in Named
    <3>1. a = addresses[n] /\ addresses[n] # 0 /\ contracts[addresses[n]] = n
      BY <2>1, DueNames DEF Recipient, LedgerTrue
    <3>2. a \in 1..Len(contracts)
      BY <2>1, <3>1, AccountTypes
    <3> QED BY <3>1, <3>2 DEF NoneFromNowhere
  <2>2. CASE n \notin Named
    <3>1. n = Treasury /\ a = Multisig
      BY <1>2, <1>3, <2>2 DEF Recipient, Treasury
    <3> QED BY <3>1, AccountTypes DEF NoneFromNowhere
  <2> QED BY <2>1, <2>2
<1>5. sent[n] \in Nat /\ (sent[n] = 0 \/ sent[n] >= Worth(n))
  BY <1>2, AccountTypes DEF SentWhole
<1> HIDE DEF n
<1>6. balance[a] \in Nat /\ spent[a] \in Nat /\ received[a] \in Nat /\ balance[a] # 0
  BY <1>4, AccountTypes DEF n
<1> QED BY <1>4, <1>5, <1>6 DEF CameFrom

LEMMA MovesQuietSteps ==
  ASSUME AllocationInvariant, ExactInvariant, MovesInvariant,
         \/ StartRun \/ SkipRecordedName \/ ReuseContract \/ StartTransfers \/ SkipTransfer
         \/ RecordTransfer \/ RefuseTransfer \/ FinishStage \/ Crash \/ UNCHANGED vars
  PROVE  MovesInvariant'
<1> USE DEF world, ledger, tokens, environment, vars
<1>1. /\ UNCHANGED <<contracts, addresses, balance, sent, spent, received, tornWrites>>
      /\ AllocationTypeOK /\ InPlace /\ LedgerTrue /\ NoneFromNowhere /\ SentWhole /\ Settling
  BY DEF AllocationInvariant, ExactInvariant, MovesInvariant, StartRun, SkipRecordedName,
         ReuseContract, StartTransfers, SkipTransfer, RecordTransfer, RefuseTransfer,
         FinishStage, Crash
<1>2. step \in Nat \ {0}
  BY <1>1 DEF AllocationTypeOK
<1>3. /\ NoneFromNowhere' /\ SentWhole' /\ TreasuryKept'
      /\ tornWrites' = 0 => PaidIsKept'
  BY <1>1 DEF MovesInvariant, NoneFromNowhere, SentWhole, PaidIsKept, TreasuryKept, KeptBy,
              CameFrom
<1>4. Settling'
  <2>1. \A k : Settled(k)' <=> Settled(k)
    BY <1>1 DEF Settled, Recipient
  <2>2. CASE StartRun \/ SkipRecordedName \/ ReuseContract
    BY <1>1, <2>2 DEF StartRun, SkipRecordedName, ReuseContract, Deploying, Settling
  <2>3. CASE StartTransfers
    <3>1. pc' = "transfer" /\ \A k \in 1..(step' - 1) : FALSE
      BY <2>3 DEF StartTransfers
    <3>2. ~finished'
      BY <1>1, <2>3 DEF StartTransfers, Settling
    <3> QED BY <3>1, <3>2 DEF Settling
  <2>4. CASE SkipTransfer \/ RecordTransfer
    <3>1. /\ pc \in {"transfer", "record"} /\ pc' = "transfer" /\ step' = step + 1
          /\ finished' = finished
      BY <2>4 DEF SkipTransfer, RecordTransfer, Transferring
    <3>2. Settled(step)
      <4>1. CASE SkipTransfer
        <5>1. /\ step \in DOMAIN Transfers /\ balance[Recipient(Transfers[step].name)] # 0
              /\ \A n \in Named : addresses[n] # 0
          BY <1>1, <4>1 DEF SkipTransfer, Transferring, Unpaid, Transfer, InPlace
        <5> QED BY <1>1, <5>1, BalanceSettles
      <4>2. CASE RecordTransfer
        BY <1>1, <4>2 DEF RecordTransfer, Settling
      <4> QED BY <2>4, <4>1, <4>2
    <3>3. \A k \in 1..(step' - 1) : k = step \/ k \in 1..(step - 1)
      BY <1>2, <3>1
    <3>4. \A k \in 1..(step' - 1) : Settled(k)
      BY <1>1, <3>1, <3>2, <3>3 DEF Settling
    <3>5. ~finished'
      BY <1>1, <3>1 DEF Settling
    <3> QED BY <2>1, <3>1, <3>4, <3>5 DEF Settling
  <2>5. CASE RefuseTransfer \/ Crash
    <3>1. pc # "idle" /\ pc' = "idle" /\ finished' = finished
      BY <2>5 DEF RefuseTransfer, Crash, Transferring
    <3> QED BY <1>1, <3>1 DEF Settling
  <2>6. CASE FinishStage
    <3>1. pc = "transfer" /\ pc' = "idle" /\ step \notin DOMAIN Transfers
      BY <2>6 DEF FinishStage
    <3>2. \A k \in DOMAIN Transfers : k \in 1..(step - 1)
      BY <1>2, <3>1, TransferNames
    <3> QED BY <1>1, <2>1, <3>1, <3>2 DEF Settling
  <2>7. CASE UNCHANGED vars
    BY <1>1, <2>1, <2>7 DEF Settling
  <2> QED BY <2>2, <2>3, <2>4, <2>5, <2>6, <2>7
<1> QED BY <1>3, <1>4 DEF MovesInvariant

\* A new contract has nothing and has spent nothing.
LEMMA MovesCreateStep ==
  ASSUME AllocationInvariant, ExactInvariant, MovesInvariant, CreateContract
  PROVE  MovesInvariant'
<1> USE DEF world, ledger, tokens, environment
<1> DEFINE new == Len(contracts) + 1
<1>1. /\ pc = "deploy" /\ step \in DOMAIN Deployments /\ pc' = "save"
      /\ contracts' = Append(contracts, Name)
      /\ balance' = WithNew(balance) /\ spent' = WithNew(spent) /\ received' = WithNew(received)
      /\ UNCHANGED <<addresses, sent, finished, tornWrites>>
  BY DEF CreateContract, Deploying
<1>2. AllocationTypeOK /\ NoneFromNowhere /\ Settling /\ Name \in Named
  BY <1>1, DeploymentNames DEF AllocationInvariant, MovesInvariant, Name, ContractNames
<1>3. /\ Len(contracts) \in Nat /\ Len(contracts') = new /\ contracts'[new] = Name
      /\ 1..new = (1..Len(contracts)) \cup {new}
      /\ \A i \in 1..Len(contracts) : contracts'[i] = contracts[i]
  BY <1>1, <1>2 DEF AllocationTypeOK
<1>4. \A account \in [Accounts \cup 1..Len(contracts) -> Nat] :
        /\ WithNew(account)[new] = 0
        /\ \A a \in Accounts \cup 1..Len(contracts) : WithNew(account)[a] = account[a]
  <2> TAKE account \in [Accounts \cup 1..Len(contracts) -> Nat]
  <2>1. new \notin DOMAIN account
    BY <1>3 DEF Accounts, Deployer, Multisig, Others
  <2>2. WithNew(account)
          = [a \in DOMAIN account \cup {new} |-> IF a \in DOMAIN account THEN account[a] ELSE 0]
    BY DEF WithNew
  <2> HIDE DEF new
  <2> QED BY <2>1, <2>2
<1>5. /\ balance'[new] = 0 /\ spent'[new] = 0 /\ received'[new] = 0
      /\ \A a \in Accounts \cup 1..Len(contracts) :
           balance'[a] = balance[a] /\ spent'[a] = spent[a] /\ received'[a] = received[a]
  <2>1. {balance, spent, received} \subseteq [Accounts \cup 1..Len(contracts) -> Nat]
    BY <1>2 DEF AllocationTypeOK
  <2> HIDE DEF new
  <2> QED BY <1>1, <1>4, <2>1
<1> HIDE DEF new
<1>6. NoneFromNowhere'
  <2>1. StillCameFrom(Treasury, Multisig)
    BY <1>1, <1>2, <1>5, AccountTypes DEF NoneFromNowhere, CameFrom, StillCameFrom
  <2>2. ASSUME NEW i \in 1..Len(contracts) PROVE StillCameFrom(contracts[i], i)
    BY <1>1, <1>2, <1>3, <1>5, <2>2 DEF NoneFromNowhere, CameFrom, StillCameFrom
  <2>3. sent[Name] \in Nat
    BY <1>2, AccountTypes
  <2>4. StillCameFrom(Name, new)
    BY <1>1, <1>5, <2>3 DEF StillCameFrom
  <2>5. \A i \in 1..Len(contracts') : StillCameFrom(contracts'[i], i)
    BY <1>3, <2>2, <2>4
  <2> QED BY <2>1, <2>5, AfterStep
<1>7. SentWhole' /\ TreasuryKept'
  <2>1. SentWhole'
    BY <1>1 DEF MovesInvariant, SentWhole
  <2>2. StillKeptBy(Treasury, Multisig)
    BY <1>1, <1>2, <1>5, AccountTypes DEF MovesInvariant, TreasuryKept, KeptBy, StillKeptBy
  <2> QED BY <2>1, <2>2, AfterStep
<1>8. ASSUME tornWrites' = 0 PROVE PaidIsKept'
  <2>1. \A n \in Named : IF addresses'[n] = 0 THEN sent'[n] = 0
                                               ELSE StillKeptBy(n, addresses'[n])
    BY <1>1, <1>2, <1>5, <1>8, AccountTypes
       DEF MovesInvariant, PaidIsKept, KeptBy, StillKeptBy
  <2> QED BY <2>1, AfterStep
<1>9. Settling'
  BY <1>1, <1>2 DEF Settling
<1> QED BY <1>6, <1>7, <1>8, <1>9 DEF MovesInvariant

\* The name had no contract and was sent nothing.
LEMMA MovesSaveStep ==
  ASSUME AllocationInvariant, ExactInvariant, MovesInvariant, SaveAddress
  PROVE  MovesInvariant'
<1> USE DEF world, ledger, tokens, environment
<1>1. /\ pc = "save" /\ pc' = "deploy"
      /\ addresses' = [addresses EXCEPT ![Name] = latest[TypeOf(Name)]]
      /\ UNCHANGED <<contracts, balance, spent, received, sent, finished, tornWrites>>
  BY DEF SaveAddress
<1>2. AllocationTypeOK /\ addresses[Name] = 0 /\ Settling
  BY <1>1 DEF AllocationInvariant, InPlace, MovesInvariant
<1>3. /\ addresses \in [Named -> 0..Len(contracts)] /\ Name \in Named
      /\ latest[TypeOf(Name)] \in 0..Len(contracts)
  BY <1>1, <1>2, DeploymentNames DEF AllocationTypeOK, Name, ContractNames
<1>4. NoneFromNowhere' /\ SentWhole' /\ TreasuryKept'
  BY <1>1 DEF MovesInvariant, NoneFromNowhere, CameFrom, SentWhole, TreasuryKept, KeptBy
<1>5. ASSUME tornWrites = 0, NEW n \in Named
      PROVE  IF addresses'[n] = 0 THEN sent'[n] = 0 ELSE StillKeptBy(n, addresses'[n])
  <2>1. CASE n = Name
    <3> DEFINE a == latest[TypeOf(Name)]
    <3>1. sent[n] = 0
      BY <1>2, <1>5, <2>1 DEF MovesInvariant, PaidIsKept
    <3>2. addresses'[n] = a
      BY <1>1, <1>3, <2>1
    <3>3. a # 0 => balance[a] \in Nat /\ spent[a] \in Nat
      BY <1>2, <1>3, AccountTypes
    <3>4. Worth(n) \in Nat
      BY <1>2, AccountTypes
    <3> HIDE DEF a
    <3> QED BY <1>1, <3>1, <3>2, <3>3, <3>4 DEF StillKeptBy
  <2>2. CASE n # Name
    <3>1. addresses'[n] = addresses[n]
      BY <1>1, <1>3, <2>2
    <3> QED BY <1>1, <1>5, <3>1 DEF MovesInvariant, PaidIsKept, KeptBy, StillKeptBy
  <2> QED BY <2>1, <2>2
<1>6. tornWrites' = 0 => PaidIsKept'
  BY <1>1, <1>5, AfterStep
<1>7. Settling'
  BY <1>1, <1>2 DEF Settling
<1> QED BY <1>4, <1>6, <1>7 DEF MovesInvariant

\* A torn write empties the ledger, not the accounts.
LEMMA MovesTearStep ==
  ASSUME AllocationInvariant, ExactInvariant, MovesInvariant, TearWrite
  PROVE  MovesInvariant'
<1> USE DEF world, ledger, tokens, environment
<1>1. /\ pc # "idle" /\ pc' = "idle" /\ tornWrites' = tornWrites + 1 /\ tornWrites \in Nat
      /\ UNCHANGED <<contracts, balance, spent, received, sent, finished>>
  BY DEF TearWrite, AllocationInvariant, AllocationTypeOK
<1>2. NoneFromNowhere' /\ SentWhole' /\ TreasuryKept' /\ tornWrites' # 0
  BY <1>1 DEF MovesInvariant, NoneFromNowhere, CameFrom, SentWhole, TreasuryKept, KeptBy
<1>3. Settling'
  BY <1>1 DEF MovesInvariant, Settling
<1> QED BY <1>2, <1>3 DEF MovesInvariant

\* What another holder moves is entered as spent and as received.
LEMMA MovesMoveStep ==
  ASSUME AllocationInvariant, ExactInvariant, MovesInvariant, MoveTokens
  PROVE  MovesInvariant'
<1>1. UNCHANGED <<contracts, addresses, sent, pc, step, finished, tornWrites>>
  BY DEF MoveTokens, ledger
<1>2. AllocationTypeOK /\ InPlace /\ LedgerTrue /\ Settling
  BY DEF AllocationInvariant, ExactInvariant, MovesInvariant
<1>3. ASSUME NEW a \in Accounts \cup 1..Len(contracts)
      PROVE  /\ balance'[a] \in Nat /\ spent'[a] \in Nat /\ received'[a] \in Nat
             /\ spent'[a] >= spent[a] /\ received'[a] >= received[a]
             /\ balance'[a] + spent'[a] - balance[a] - spent[a] = received'[a] - received[a]
  BY <1>2, MoveTokensIs
<1>4. ASSUME NEW n \in Named \cup {Treasury}, NEW a \in Accounts \cup 1..Len(contracts)
      PROVE  (KeptBy(n, a) => StillKeptBy(n, a)) /\ (CameFrom(n, a) => StillCameFrom(n, a))
  <2>1. /\ sent[n] \in Nat /\ Worth(n) \in Nat /\ sent'[n] = sent[n]
        /\ balance[a] \in Nat /\ spent[a] \in Nat /\ received[a] \in Nat
    BY <1>1, <1>2, AccountTypes
  <2>2. /\ balance'[a] + spent'[a] >= balance[a] + spent[a]
        /\ balance'[a] + spent'[a] + received[a] = balance[a] + spent[a] + received'[a]
        /\ balance'[a] \in Nat /\ spent'[a] \in Nat /\ received'[a] \in Nat
        /\ spent'[a] >= spent[a]
    <3>1. /\ balance'[a] \in Nat /\ spent'[a] \in Nat /\ received'[a] \in Nat
          /\ spent'[a] >= spent[a] /\ received'[a] >= received[a]
          /\ balance'[a] + spent'[a] - balance[a] - spent[a] = received'[a] - received[a]
      BY <1>3
    <3> DEFINE b2 == balance'[a]
               s2 == spent'[a]
               r2 == received'[a]
               b  == balance[a]
               s  == spent[a]
               r  == received[a]
    <3>2. /\ {b, s, r, b2, s2, r2} \subseteq Nat /\ r2 >= r
          /\ b2 + s2 - b - s = r2 - r
      BY <2>1, <3>1
    <3> HIDE DEF b, s, r, b2, s2, r2
    <3>3. b2 + s2 >= b + s /\ b2 + s2 + r = b + s + r2
      BY <3>2
    <3> QED BY <3>1, <3>3 DEF b, s, r, b2, s2, r2
  <2>3. KeptBy(n, a) => StillKeptBy(n, a)
    BY <2>1, <2>2 DEF KeptBy, StillKeptBy
  <2>4. CameFrom(n, a) => StillCameFrom(n, a)
    BY <2>1, <2>2 DEF CameFrom, StillCameFrom
  <2> QED BY <2>3, <2>4
<1>5. NoneFromNowhere' /\ TreasuryKept'
  <2>1. StillCameFrom(Treasury, Multisig) /\ StillKeptBy(Treasury, Multisig)
    BY <1>2, <1>4, AccountTypes DEF MovesInvariant, NoneFromNowhere, TreasuryKept
  <2>2. ASSUME NEW i \in 1..Len(contracts) PROVE StillCameFrom(contracts[i], i)
    BY <1>2, <1>4, AccountTypes DEF MovesInvariant, NoneFromNowhere
  <2> QED BY <1>1, <2>1, <2>2, AfterStep
<1>6. SentWhole'
  BY <1>1 DEF MovesInvariant, SentWhole
<1>7. ASSUME tornWrites' = 0 PROVE PaidIsKept'
  <2>1. ASSUME NEW n \in Named, addresses[n] # 0 PROVE StillKeptBy(n, addresses[n])
    BY <1>1, <1>2, <1>4, <1>7, <2>1, AccountTypes DEF MovesInvariant, PaidIsKept
  <2>2. \A n \in Named : addresses[n] = 0 => sent'[n] = 0
    BY <1>1, <1>7 DEF MovesInvariant, PaidIsKept
  <2> QED BY <1>1, <2>1, <2>2, AfterStep
<1>8. \A k : Settled(k) => Settled(k)'
  <2> TAKE k
  <2> DEFINE n == Transfers[k].name
             a == Recipient(n)
  <2> SUFFICES ASSUME Settled(k), k \in DOMAIN Transfers, Production \/ n \in Named
               PROVE  sent'[n] >= Worth(n) \/ received'[a'] > 0
    BY DEF Settled
  <2>1. n \in Named \cup {Treasury}
    BY TransfersAreDue, DueNames DEF Treasury
  <2>2. a' = a /\ a \in Accounts \cup 1..Len(contracts)
    BY <1>1, <1>2, <2>1, AccountTypes DEF Recipient
  <2>3. received'[a] >= received[a] /\ received[a] \in Nat /\ received'[a] \in Nat
    BY <1>2, <1>3, <2>2, AccountTypes
  <2>4. sent[n] >= Worth(n) \/ received[a] > 0
    BY DEF Settled
  <2> QED BY <1>1, <2>2, <2>3, <2>4
<1>9. Settling'
  BY <1>1, <1>2, <1>8 DEF Settling
<1> QED BY <1>1, <1>5, <1>6, <1>7, <1>9 DEF MovesInvariant

\* A share is sent to a recipient with nothing, which has spent all it was sent before.
LEMMA MovesSendStep ==
  ASSUME AllocationInvariant, ExactInvariant, MovesInvariant, SendTransfer
  PROVE  MovesInvariant'
<1> DEFINE name   == Transfer.name
           amount == Transfer.amount
           to     == Recipient(name)
           All    == Accounts \cup 1..Len(contracts)
<1>1. /\ pc = "transfer" /\ pc' = "record" /\ step \in DOMAIN Transfers
      /\ sent' = [sent EXCEPT ![name] = @ + amount]
      /\ UNCHANGED <<contracts, addresses, spent, received, step, finished, tornWrites>>
      /\ amount \in Nat \ {0} /\ amount = Worth(name)
      /\ name \in Named \cup {Treasury} /\ to \in All /\ to # Deployer
      /\ name = Treasury => to = Multisig /\ Production
      /\ name \in Named => /\ to \in 1..Len(contracts) /\ to = addresses[name]
                           /\ contracts[to] = name
      /\ balance[to] = 0 /\ balance'[to] = amount
      /\ \A a \in All : a # Deployer /\ a # to => balance'[a] = balance[a]
  BY SendIs DEF SendTransfer, ledger, environment, Treasury
<1>2. /\ AllocationTypeOK /\ LedgerTrue /\ Settling /\ NoneFromNowhere /\ SentWhole
      /\ TreasuryKept /\ \A n \in Named : addresses[n] # 0
  BY <1>1 DEF AllocationInvariant, InPlace, ExactInvariant, MovesInvariant
<1>3. Treasury \notin Named
  BY DueNames DEF Treasury
<1> HIDE DEF name, amount, to, All
<1>4. /\ \A a \in All : balance[a] \in Nat /\ spent[a] \in Nat /\ received[a] \in Nat
      /\ \A n \in Named \cup {Treasury} : sent[n] \in Nat /\ Worth(n) \in Nat \ {0}
      /\ \A i \in 1..Len(contracts) : /\ contracts[i] \in Named /\ i \in All
                                     /\ i # Multisig /\ i # Deployer
      /\ \A n \in Named : addresses[n] \in 1..Len(contracts)
      /\ Multisig \in All /\ Multisig # Deployer
  BY <1>2, AccountTypes DEF All
<1>5. /\ sent'[name] = sent[name] + amount
      /\ \A n \in Named \cup {Treasury} : n # name => sent'[n] = sent[n]
  <2>1. sent \in [Named \cup {Treasury} -> Nat]
    BY <1>2 DEF AllocationTypeOK, Treasury
  <2> QED BY <1>1, <2>1
<1>6. \A n \in Named \cup {Treasury} : sent'[n] >= sent[n] /\ sent'[n] \in Nat
  <2>1. amount \in Nat /\ sent[name] \in Nat
    BY <1>1, <1>4
  <2>2. \A n \in Named \cup {Treasury} : n = name \/ sent'[n] = sent[n]
    BY <1>5
  <2> QED BY <1>4, <1>5, <2>1, <2>2
\* The recipient.
<1>7. KeptBy(name, to) => StillKeptBy(name, to)
  BY <1>1, <1>4, <1>5 DEF KeptBy, StillKeptBy
<1>8. CameFrom(name, to) => StillCameFrom(name, to)
  BY <1>1, <1>4, <1>5 DEF CameFrom, StillCameFrom
\* The others.
<1>9. ASSUME NEW n \in Named \cup {Treasury}, NEW a \in All, a # Deployer, a # to
      PROVE  /\ CameFrom(n, a) => StillCameFrom(n, a)
             /\ n # name /\ KeptBy(n, a) => StillKeptBy(n, a)
  <2>1. balance'[a] = balance[a] /\ spent'[a] = spent[a] /\ received'[a] = received[a]
    BY <1>1, <1>9
  <2> QED BY <1>4, <1>5, <1>6, <2>1 DEF CameFrom, StillCameFrom, KeptBy, StillKeptBy
<1>10. NoneFromNowhere'
  <2>1. StillCameFrom(Treasury, Multisig)
    <3>1. CASE to = Multisig
      BY <1>1, <1>2, <1>4, <1>8, <3>1 DEF NoneFromNowhere
    <3>2. CASE to # Multisig
      BY <1>2, <1>4, <1>9, <3>2 DEF NoneFromNowhere
    <3> QED BY <3>1, <3>2
  <2>2. ASSUME NEW i \in 1..Len(contracts) PROVE StillCameFrom(contracts[i], i)
    <3>1. CASE i = to
      <4>1. contracts[i] = name
        BY <1>1, <1>4, <3>1
      <4> QED BY <1>2, <1>8, <3>1, <4>1 DEF NoneFromNowhere
    <3>2. CASE i # to
      BY <1>2, <1>4, <1>9, <3>2 DEF NoneFromNowhere
    <3> QED BY <3>1, <3>2
  <2> QED BY <1>1, <2>1, <2>2, AfterStep
<1>11. SentWhole'
  <2>1. sent'[name] >= Worth(name)
    BY <1>1, <1>4, <1>5
  <2> QED BY <1>2, <1>5, <2>1 DEF SentWhole
<1>12. TreasuryKept'
  <2>1. KeptBy(Treasury, Multisig)
    BY <1>2 DEF TreasuryKept
  <2>2. CASE name = Treasury
    <3>1. StillKeptBy(Treasury, Multisig)
      BY <1>1, <1>7, <2>1, <2>2
    <3> QED BY <3>1, AfterStep
  <2>3. CASE name # Treasury
    <3>1. to # Multisig
      BY <1>1, <1>4, <2>3
    <3>2. StillKeptBy(Treasury, Multisig)
      BY <1>4, <1>9, <2>1, <2>3, <3>1
    <3> QED BY <3>2, AfterStep
  <2> QED BY <2>2, <2>3
<1>13. ASSUME tornWrites = 0, NEW n \in Named PROVE StillKeptBy(n, addresses[n])
  <2>1. KeptBy(n, addresses[n])
    BY <1>2, <1>13 DEF MovesInvariant, PaidIsKept
  <2>2. CASE n = name
    BY <1>1, <1>7, <2>1, <2>2
  <2>3. CASE n # name
    <3>1. addresses[n] # to
      <4>1. contracts[addresses[n]] = n
        BY <1>2 DEF LedgerTrue
      <4> QED BY <1>1, <1>3, <1>4, <2>3, <4>1
    <3>2. addresses[n] \in All /\ addresses[n] # Deployer
      BY <1>4 DEF All, Deployer
    <3> QED BY <1>9, <2>1, <2>3, <3>1, <3>2
  <2> QED BY <2>2, <2>3
<1>14. tornWrites' = 0 => PaidIsKept'
  <2>1. tornWrites' = tornWrites /\ addresses' = addresses
    BY <1>1
  <2> QED BY <1>2, <1>13, <2>1, AfterStep
<1>15. Settling'
  <2>1. \A n : Recipient(n)' = Recipient(n)
    BY <1>1 DEF Recipient
  <2>2. ASSUME NEW k \in DOMAIN Transfers, Settled(k) PROVE Settled(k)'
    <3> DEFINE n == Transfers[k].name
    <3>1. n \in Named \cup {Treasury}
      BY TransfersAreDue, DueNames DEF Treasury
    <3>2. sent'[n] >= sent[n] /\ sent[n] \in Nat /\ sent'[n] \in Nat /\ Worth(n) \in Nat
      BY <1>4, <1>6, <3>1
    <3> HIDE DEF n
    <3>3. sent[n] >= Worth(n) => sent'[n] >= Worth(n)
      BY <3>2
    <3> QED BY <1>1, <2>1, <2>2, <3>3 DEF Settled, n
  <2>3. Settled(step)'
    <3>1. sent'[name] >= Worth(name)
      BY <1>11, <1>1, <1>4, <1>5
    <3>2. Transfers[step].name = name /\ step' = step
      BY <1>1 DEF name, Transfer
    <3> QED BY <3>1, <3>2 DEF Settled
  <2>4. \A k : Settled(k) => Settled(k)'
    BY <2>2 DEF Settled
  <2>5. ~finished'
    BY <1>1, <1>2 DEF Settling
  <2> QED BY <1>1, <1>2, <2>3, <2>4, <2>5 DEF Settling
<1> QED BY <1>10, <1>11, <1>12, <1>14, <1>15 DEF MovesInvariant

LEMMA MovesInvariantHolds == Spec => []MovesInvariant
<1>1. Init => MovesInvariant
  BY MovesInit
<1>2. AllocationInvariant /\ ExactInvariant /\ MovesInvariant /\ [Next]_vars => MovesInvariant'
  BY MovesQuietSteps, MovesCreateStep, MovesSaveStep, MovesTearStep, MovesMoveStep,
     MovesSendStep DEF Next, Progress
<1> QED BY <1>1, <1>2, AllocationInvariantHolds, ExactInvariantHolds, PTL DEF Spec

\* Whatever is interrupted, and however often the treasury, the distributors, the vestings
\* and anybody else move tokens: with the ledger whole, a recipient of stage 0 is sent more
\* than its share only in place of what it has sent on, and its share is left out only if
\* somebody else sent it tokens.
THEOREM SharesArePaidOnce == Spec => []PaidOnceUnlessMoved
<1>1. AllocationInvariant /\ MovesInvariant => PaidOnceUnlessMoved
  <2> SUFFICES ASSUME AllocationInvariant, MovesInvariant, NEW share \in SharesToSend
               PROVE  /\ tornWrites = 0 =>
                           sent[share.name] <= share.amount + spent[Recipient(share.name)]
                      /\ finished => \/ sent[share.name] >= share.amount
                                     \/ received[Recipient(share.name)] > 0
    BY DEF PaidOnceUnlessMoved
  <2> DEFINE n == share.name
             a == Recipient(n)
  <2>1. PICK k \in DOMAIN Transfers : share = Transfers[k]
    BY DEF SharesToSend, Range
  <2>2. /\ n \in Named \/ n = Treasury
        /\ share.amount = Worth(n)
        /\ Production \/ n \in Named
    BY <2>1, TransfersAreDue, DueNames, DeploymentNames DEF SharesToSend, Treasury
  <2>3. AllocationTypeOK /\ TreasuryKept /\ Settling
    BY DEF AllocationInvariant, MovesInvariant
  <2>4. ASSUME tornWrites = 0 PROVE sent[n] <= Worth(n) + spent[a]
    <3>1. CASE n \in Named /\ addresses[n] # 0
      BY <2>4, <3>1, DueNames DEF MovesInvariant, PaidIsKept, KeptBy, Recipient
    <3>2. CASE n \in Named /\ addresses[n] = 0
      <4>1. sent[n] = 0
        BY <2>4, <3>2 DEF MovesInvariant, PaidIsKept
      <4>2. Worth(n) \in Nat /\ spent[a] \in Nat
        BY <2>3, <3>2, AccountTypes
      <4> QED BY <4>1, <4>2
    <3>3. CASE n \notin Named
      <4>1. n = Treasury /\ a = Multisig
        BY <2>2, <3>3 DEF Recipient, Treasury
      <4> QED BY <2>3, <4>1 DEF TreasuryKept, KeptBy
    <3> QED BY <3>1, <3>2, <3>3
  <2>5. finished => sent[n] >= Worth(n) \/ received[a] > 0
    BY <2>1, <2>2, <2>3 DEF Settling, Settled
  <2> QED BY <2>2, <2>4, <2>5
<1> QED BY <1>1, AllocationInvariantHolds, MovesInvariantHolds, PTL

-----------------------------------------------------------------------------
(***************************************************************************)
(* The transfers that remain.                                              *)
(***************************************************************************)
\* Where the elements of two sequences go.
LEMMA PlacesOfBoth ==
  ASSUME NEW S, NEW s \in Seq(S), NEW t \in Seq(S)
  PROVE  \A n, m \in Nat :
           Len(s) = n /\ Len(t) = m =>
             /\ s \o t \in Seq(S) /\ Len(s \o t) = n + m
             /\ \A k \in 1..n : (s \o t)[k] = s[k]
             /\ \A k \in 1..m : (s \o t)[n + k] = t[k]
<1>1. /\ s \o t \in Seq(S) /\ Len(s \o t) = Len(s) + Len(t)
      /\ Len(s) \in Nat /\ Len(t) \in Nat
  OBVIOUS
<1>2. /\ \A k \in 1..Len(s) : (s \o t)[k] = s[k]
      /\ \A k \in 1..Len(t) : (s \o t)[Len(s) + k] = t[k]
  OBVIOUS
<1> QED BY <1>1, <1>2

\* The three years of an owner.
LEMMA ThreeShares ==
  ASSUME NEW owner, NEW amounts
  PROVE  /\ DOMAIN ThreeYears(owner, amounts) = 1..3
         /\ \A year \in 1..3 : ThreeYears(owner, amounts)[year].name = <<owner, year>>
BY DEF ThreeYears, Share

\* The names of the transfers, in their order.
LEMMA TransferList ==
  /\ DOMAIN Transfers = 1..13
  /\ Transfers[1].name = <<"multisig", 0>> /\ Transfers[2].name = <<"methodology", 0>>
  /\ Transfers[3].name = <<"claims", 0>>   /\ Transfers[4].name = <<"staking", 0>>
  /\ \A year \in 1..3 : /\ Transfers[4 + year].name = <<"treasury", year>>
                        /\ Transfers[7 + year].name = <<"setLabs", year>>
                        /\ Transfers[10 + year].name = <<"dfp", year>>
<1> DEFINE first     == <<Share("multisig", 0, TREASURY_IMMEDIATE_OWNERSHIP_AMOUNT),
                          Share("methodology", 0, TREASURY_INDEX_METHODOLOGY_OWNERSHIP_AMOUNT),
                          Share("claims", 0, MERKLE_DISTRIBUTOR_AMOUNT),
                          Share("staking", 0, UNISWAP_LP_REWARD_AMOUNT)>>
           treasury  == ThreeYears("treasury", TREASURY_OWNERSHIP_AMOUNTS)
           setLabs   == ThreeYears("setLabs", SET_LABS_OWNERSHIP_AMOUNTS)
           dfp       == ThreeYears("dfp", DFP_OWNERSHIP_AMOUNTS)
<1>1. Transfers = ((first \o treasury) \o setLabs) \o dfp
  BY DEF Transfers
<1>3. /\ treasury \in Seq(Due) /\ setLabs \in Seq(Due) /\ dfp \in Seq(Due)
      /\ Len(treasury) = 3 /\ Len(setLabs) = 3 /\ Len(dfp) = 3
  <2>1. \A t \in Seq(Due) : DOMAIN t = 1..3 => Len(t) = 3
    OBVIOUS
  <2> QED BY <2>1, AllYears, ThreeShares
<1>4. /\ first \in Seq(Due) /\ Len(first) = 4
      /\ first[1].name = <<"multisig", 0>> /\ first[2].name = <<"methodology", 0>>
      /\ first[3].name = <<"claims", 0>>   /\ first[4].name = <<"staking", 0>>
  <2>1. \A a, b, c, d \in Due :
          /\ <<a, b, c, d>> \in Seq(Due) /\ Len(<<a, b, c, d>>) = 4
          /\ <<a, b, c, d>>[1] = a /\ <<a, b, c, d>>[2] = b
          /\ <<a, b, c, d>>[3] = c /\ <<a, b, c, d>>[4] = d
    OBVIOUS
  <2> QED BY <2>1, SingleSharesAreDue DEF Share
<1>5. \A year \in 1..3 : /\ treasury[year].name = <<"treasury", year>>
                         /\ setLabs[year].name = <<"setLabs", year>>
                         /\ dfp[year].name = <<"dfp", year>>
  BY ThreeShares
<1> HIDE DEF first, treasury, setLabs, dfp
<1>6. ASSUME NEW x \in Seq(Due), NEW y \in Seq(Due), NEW n \in Nat, NEW m \in Nat,
             Len(x) = n, Len(y) = m
      PROVE  /\ x \o y \in Seq(Due) /\ Len(x \o y) = n + m
             /\ \A k \in 1..n : (x \o y)[k] = x[k]
             /\ \A k \in 1..m : (x \o y)[n + k] = y[k]
  BY <1>6, PlacesOfBoth
<1> DEFINE a == first \o treasury
           b == a \o setLabs
           c == b \o dfp
<1>7. /\ a \in Seq(Due) /\ Len(a) = 7
      /\ \A k \in 1..4 : a[k] = first[k]
      /\ \A k \in 1..3 : a[4 + k] = treasury[k]
  <2>1. Len(first) = 4 /\ 4 \in Nat /\ Len(treasury) = 3 /\ 3 \in Nat
    BY <1>3, <1>4
  <2>2. first \in Seq(Due) /\ treasury \in Seq(Due)
    BY <1>3, <1>4
  <2>3. /\ a \in Seq(Due) /\ Len(a) = 4 + 3
        /\ \A k \in 1..4 : a[k] = first[k]
        /\ \A k \in 1..3 : a[4 + k] = treasury[k]
    BY <2>1, <2>2, <1>6, ZenonT(60)
  <2>4. 4 + 3 = 7
    OBVIOUS
  <2> QED BY <2>3, <2>4, Zenon
<1> HIDE DEF a
<1>8. /\ b \in Seq(Due) /\ Len(b) = 10
      /\ \A k \in 1..7 : b[k] = a[k]
      /\ \A k \in 1..3 : b[7 + k] = setLabs[k]
  <2>1. Len(a) = 7 /\ 7 \in Nat /\ Len(setLabs) = 3 /\ 3 \in Nat
    BY <1>3, <1>7
  <2>2. a \in Seq(Due) /\ setLabs \in Seq(Due)
    BY <1>3, <1>7
  <2>3. /\ b \in Seq(Due) /\ Len(b) = 7 + 3
        /\ \A k \in 1..7 : b[k] = a[k]
        /\ \A k \in 1..3 : b[7 + k] = setLabs[k]
    BY <2>1, <2>2, <1>6, ZenonT(60)
  <2>4. 7 + 3 = 10
    OBVIOUS
  <2> QED BY <2>3, <2>4, Zenon
<1> HIDE DEF b
<1>9. /\ c \in Seq(Due) /\ Len(c) = 13
      /\ \A k \in 1..10 : c[k] = b[k]
      /\ \A k \in 1..3 : c[10 + k] = dfp[k]
  <2>1. Len(b) = 10 /\ 10 \in Nat /\ Len(dfp) = 3 /\ 3 \in Nat
    BY <1>3, <1>8
  <2>2. b \in Seq(Due) /\ dfp \in Seq(Due)
    BY <1>3, <1>8
  <2>3. /\ c \in Seq(Due) /\ Len(c) = 10 + 3
        /\ \A k \in 1..10 : c[k] = b[k]
        /\ \A k \in 1..3 : c[10 + k] = dfp[k]
    BY <2>1, <2>2, <1>6, ZenonT(60)
  <2>4. 10 + 3 = 13
    OBVIOUS
  <2> QED BY <2>3, <2>4, Zenon
<1>10. Transfers = c
  BY <1>1 DEF a, b
<1> HIDE DEF c
<1>11. DOMAIN c = 1..13
  BY <1>9
<1>12. \A k \in 1..4 : c[k] = first[k]
  BY <1>7, <1>8, <1>9
<1>13. \A k \in 1..3 : c[4 + k] = treasury[k] /\ c[7 + k] = setLabs[k] /\ c[10 + k] = dfp[k]
  <2> TAKE k \in 1..3
  <2>1. 4 + k \in 1..7 /\ 4 + k \in 1..10 /\ 7 + k \in 1..10
    OBVIOUS
  <2> QED BY <1>7, <1>8, <1>9, <2>1
<1> QED BY <1>4, <1>5, <1>10, <1>11, <1>12, <1>13

\* The sum over the transfers is the sum over their names.
LEMMA SumOverTransfers ==
  ASSUME NEW d, \A n \in Named \cup {<<"multisig", 0>>} : d[n] \in Nat
  PROVE  SumFunctionOnSet([k \in 1..13 |-> d[Transfers[k].name]], 1..13) = SentInAll(d)
<1> DEFINE f == [k \in 1..13 |-> d[Transfers[k].name]]
<1>1. /\ f[1] = d[<<"multisig", 0>>] /\ f[2] = d[<<"methodology", 0>>]
      /\ f[3] = d[<<"claims", 0>>]   /\ f[4] = d[<<"staking", 0>>]
      /\ f[5] = d[<<"treasury", 1>>] /\ f[6] = d[<<"treasury", 2>>] /\ f[7] = d[<<"treasury", 3>>]
      /\ f[8] = d[<<"setLabs", 1>>]  /\ f[9] = d[<<"setLabs", 2>>]  /\ f[10] = d[<<"setLabs", 3>>]
      /\ f[11] = d[<<"dfp", 1>>]     /\ f[12] = d[<<"dfp", 2>>]     /\ f[13] = d[<<"dfp", 3>>]
  <2>1. \A k \in 1..13 : f[k] = d[Transfers[k].name]
    OBVIOUS
  <2>2. /\ 1 \in 1..3 /\ 2 \in 1..3 /\ 3 \in 1..3
        /\ 4 + 1 = 5 /\ 4 + 2 = 6 /\ 4 + 3 = 7 /\ 7 + 1 = 8 /\ 7 + 2 = 9 /\ 7 + 3 = 10
        /\ 10 + 1 = 11 /\ 10 + 2 = 12 /\ 10 + 3 = 13
    OBVIOUS
  <2>3. {1, 2, 3, 4, 5, 6, 7, 8, 9, 10, 11, 12, 13} \subseteq 1..13
    OBVIOUS
  <2> HIDE DEF f
  <2>4. \A year \in 1..3 : /\ Transfers[4 + year].name = <<"treasury", year>>
                           /\ Transfers[7 + year].name = <<"setLabs", year>>
                           /\ Transfers[10 + year].name = <<"dfp", year>>
    BY TransferList, Zenon
  <2>5. /\ Transfers[5].name = <<"treasury", 1>> /\ Transfers[6].name = <<"treasury", 2>>
        /\ Transfers[7].name = <<"treasury", 3>>
    BY <2>2, <2>4, Zenon
  <2>6. /\ Transfers[8].name = <<"setLabs", 1>> /\ Transfers[9].name = <<"setLabs", 2>>
        /\ Transfers[10].name = <<"setLabs", 3>>
    BY <2>2, <2>4, Zenon
  <2>7. /\ Transfers[11].name = <<"dfp", 1>> /\ Transfers[12].name = <<"dfp", 2>>
        /\ Transfers[13].name = <<"dfp", 3>>
    BY <2>2, <2>4, Zenon
  <2>8. \A k \in {1, 2, 3, 4, 5, 6, 7, 8, 9, 10, 11, 12, 13} : f[k] = d[Transfers[k].name]
    BY <2>1, <2>3, Zenon
  <2>9. /\ f[1] = d[<<"multisig", 0>>] /\ f[2] = d[<<"methodology", 0>>]
        /\ f[3] = d[<<"claims", 0>>]   /\ f[4] = d[<<"staking", 0>>]
    BY <2>8, TransferList, Zenon
  <2>10. /\ f[5] = d[<<"treasury", 1>>] /\ f[6] = d[<<"treasury", 2>>]
         /\ f[7] = d[<<"treasury", 3>>]
    BY <2>5, <2>8, Zenon
  <2>11. /\ f[8] = d[<<"setLabs", 1>>] /\ f[9] = d[<<"setLabs", 2>>]
         /\ f[10] = d[<<"setLabs", 3>>]
    BY <2>6, <2>8, Zenon
  <2>12. /\ f[11] = d[<<"dfp", 1>>] /\ f[12] = d[<<"dfp", 2>>] /\ f[13] = d[<<"dfp", 3>>]
    BY <2>7, <2>8, Zenon
  <2> QED BY <2>9, <2>10, <2>11, <2>12
<1>2. /\ \A owner \in {"multisig", "methodology", "claims", "staking"} :
           <<owner, 0>> \in Named \cup {<<"multisig", 0>>}
      /\ \A owner \in {"treasury", "setLabs", "dfp"}, year \in 1..3 :
           <<owner, year>> \in Named \cup {<<"multisig", 0>>}
  BY DEF Named
<1>3. \A k \in 1..13 : f[k] \in Nat
  <2>1. \A k \in 1..13 : Transfers[k] \in Due
    <3>1. \A t \in Seq(Due) : \A k \in DOMAIN t : t[k] \in Due
      OBVIOUS
    <3> QED BY <3>1, TransfersAreDue, TransferList
  <2> QED BY <2>1, DueNames
<1> HIDE DEF f
<1>4. ASSUME NEW n \in 0..12
      PROVE  SumFunctionOnSet(f, 1..(n + 1)) = f[n + 1] + SumFunctionOnSet(f, 1..n)
  <2>1. n \in Nat /\ \A k \in 1..(n + 1) : f[k] \in Int
    BY <1>3
  <2> QED BY <2>1, SumUpTo
<1>5. SumFunctionOnSet(f, 1..0) = 0
  <2>1. 1..0 = {}
    OBVIOUS
  <2> QED BY <2>1, SumEmpty
<1>6. SumFunctionOnSet(f, 1..4) = Singles(d) /\ Singles(d) \in Nat
  <2>1. /\ SumFunctionOnSet(f, 1..1) = f[1] + SumFunctionOnSet(f, 1..0)
        /\ SumFunctionOnSet(f, 1..2) = f[2] + SumFunctionOnSet(f, 1..1)
        /\ SumFunctionOnSet(f, 1..3) = f[3] + SumFunctionOnSet(f, 1..2)
        /\ SumFunctionOnSet(f, 1..4) = f[4] + SumFunctionOnSet(f, 1..3)
    <3>1. 0 + 1 = 1 /\ 1 + 1 = 2 /\ 2 + 1 = 3 /\ 3 + 1 = 4 /\ {0, 1, 2, 3} \subseteq 0..12
      OBVIOUS
    <3> QED BY <1>4, <3>1, Zenon
  <2>2. /\ f[1] \in Nat /\ f[2] \in Nat /\ f[3] \in Nat /\ f[4] \in Nat
    BY <1>3
  <2> QED BY <1>1, <1>5, <2>1, <2>2 DEF Singles
<1>7. /\ SumFunctionOnSet(f, 1..7) = Singles(d) + YearsOf(d, "treasury")
      /\ YearsOf(d, "treasury") \in Nat
  <2>1. /\ SumFunctionOnSet(f, 1..5) = f[5] + SumFunctionOnSet(f, 1..4)
        /\ SumFunctionOnSet(f, 1..6) = f[6] + SumFunctionOnSet(f, 1..5)
        /\ SumFunctionOnSet(f, 1..7) = f[7] + SumFunctionOnSet(f, 1..6)
    <3>1. 4 + 1 = 5 /\ 5 + 1 = 6 /\ 6 + 1 = 7 /\ {4, 5, 6} \subseteq 0..12
      OBVIOUS
    <3> QED BY <1>4, <3>1, Zenon
  <2>2. f[5] \in Nat /\ f[6] \in Nat /\ f[7] \in Nat
    BY <1>3
  <2> QED BY <1>1, <1>6, <2>1, <2>2 DEF YearsOf
<1>8. /\ SumFunctionOnSet(f, 1..10)
           = Singles(d) + YearsOf(d, "treasury") + YearsOf(d, "setLabs")
      /\ YearsOf(d, "setLabs") \in Nat
  <2>1. /\ SumFunctionOnSet(f, 1..8) = f[8] + SumFunctionOnSet(f, 1..7)
        /\ SumFunctionOnSet(f, 1..9) = f[9] + SumFunctionOnSet(f, 1..8)
        /\ SumFunctionOnSet(f, 1..10) = f[10] + SumFunctionOnSet(f, 1..9)
    <3>1. 7 + 1 = 8 /\ 8 + 1 = 9 /\ 9 + 1 = 10 /\ {7, 8, 9} \subseteq 0..12
      OBVIOUS
    <3> QED BY <1>4, <3>1, Zenon
  <2>2. f[8] \in Nat /\ f[9] \in Nat /\ f[10] \in Nat
    BY <1>3
  <2> QED BY <1>1, <1>6, <1>7, <2>1, <2>2 DEF YearsOf
<1>9. SumFunctionOnSet(f, 1..13) = SentInAll(d)
  <2>1. /\ SumFunctionOnSet(f, 1..11) = f[11] + SumFunctionOnSet(f, 1..10)
        /\ SumFunctionOnSet(f, 1..12) = f[12] + SumFunctionOnSet(f, 1..11)
        /\ SumFunctionOnSet(f, 1..13) = f[13] + SumFunctionOnSet(f, 1..12)
    <3>1. 10 + 1 = 11 /\ 11 + 1 = 12 /\ 12 + 1 = 13 /\ {10, 11, 12} \subseteq 0..12
      OBVIOUS
    <3> QED BY <1>4, <3>1, Zenon
  <2>2. f[11] \in Nat /\ f[12] \in Nat /\ f[13] \in Nat
    BY <1>3
  <2>3. YearsOf(d, "dfp") = f[11] + f[12] + f[13]
    BY <1>1, <2>2 DEF YearsOf
  <2> QED BY <1>6, <1>7, <1>8, <2>1, <2>2, <2>3 DEF SentInAll
<1> QED BY <1>9 DEF f

\* The shares, summed.
LEMMA SumOfWorths ==
  ASSUME NEW f, \A n \in Named : f[n] = Worth(n), f[<<"multisig", 0>>] \in Nat
  PROVE  SentInAll(f) = 9500000 + f[<<"multisig", 0>>]
<1>1. /\ Worth(<<"methodology", 0>>) = 750000
      /\ Worth(<<"claims", 0>>) = 100000 /\ Worth(<<"staking", 0>>) = 900000
  BY DEF Worth, AmountDue, MERKLE_DISTRIBUTOR_AMOUNT,
         TREASURY_INDEX_METHODOLOGY_OWNERSHIP_AMOUNT, UNISWAP_LP_REWARD_AMOUNT
<1>2. /\ Worth(<<"treasury", 1>>) = 2375000 /\ Worth(<<"treasury", 2>>) = 1425000
      /\ Worth(<<"treasury", 3>>) = 950000
  BY DEF Worth, AmountDue, TREASURY_OWNERSHIP_AMOUNTS
<1>3. /\ Worth(<<"setLabs", 1>>) = 1400000 /\ Worth(<<"setLabs", 2>>) = 840000
      /\ Worth(<<"setLabs", 3>>) = 560000
  BY DEF Worth, AmountDue, SET_LABS_OWNERSHIP_AMOUNTS
<1>4. /\ Worth(<<"dfp", 1>>) = 100000 /\ Worth(<<"dfp", 2>>) = 60000
      /\ Worth(<<"dfp", 3>>) = 40000
  BY DEF Worth, AmountDue, DFP_OWNERSHIP_AMOUNTS
<1>5. /\ \A owner \in {"methodology", "claims", "staking"} : <<owner, 0>> \in Named
      /\ \A owner \in {"treasury", "setLabs", "dfp"}, year \in 1..3 : <<owner, year>> \in Named
  BY DEF Named
<1>6. Singles(f) = 1750000 + f[<<"multisig", 0>>]
  BY <1>1, <1>5 DEF Singles
<1>7. YearsOf(f, "treasury") = 4750000 /\ YearsOf(f, "setLabs") = 2800000
      /\ YearsOf(f, "dfp") = 200000
  BY <1>2, <1>3, <1>4, <1>5 DEF YearsOf
<1> QED BY <1>6, <1>7 DEF SentInAll

\* The sum of natural numbers is one, and the treasury's part of it.
LEMMA SentInAllType ==
  ASSUME NEW f, \A n \in Named \cup {<<"multisig", 0>>} : f[n] \in Nat
  PROVE  /\ SentInAll(f) \in Nat
         /\ SentInAll(f) >= f[<<"multisig", 0>>] /\ SentInAll(f) >= f[<<"methodology", 0>>]
<1>1. /\ \A owner \in {"multisig", "methodology", "claims", "staking"} : f[<<owner, 0>>] \in Nat
      /\ \A owner \in {"treasury", "setLabs", "dfp"}, year \in 1..3 : f[<<owner, year>>] \in Nat
  BY DEF Named
<1> QED BY <1>1 DEF SentInAll, Singles, YearsOf

\* The sum when nobody but the treasury has anything.
LEMMA SentInAllOfTreasury ==
  ASSUME NEW f, \A n \in Named : f[n] = 0, f[<<"multisig", 0>>] \in Nat
  PROVE  SentInAll(f) = f[<<"multisig", 0>>]
<1>1. /\ \A owner \in {"methodology", "claims", "staking"} : f[<<owner, 0>>] = 0
      /\ \A owner \in {"treasury", "setLabs", "dfp"}, year \in 1..3 : f[<<owner, year>>] = 0
  BY DEF Named
<1> QED BY <1>1 DEF SentInAll, Singles, YearsOf

\* With no tokens in lost contracts, what was sent to a name is where the ledger says.
LEMMA SentIsThere ==
  ASSUME AllocationInvariant, ExactInvariant, moves = 0, Lost = {},
         NEW n \in Named, addresses[n] # 0
  PROVE  sent[n] = balance[addresses[n]] /\ sent[n] \in {0, Worth(n)}
<1>1. AllocationTypeOK /\ LedgerTrue /\ Balanced
  BY DEF AllocationInvariant, ExactInvariant
<1> DEFINE made == MadeFor(n)
           its  == addresses[n]
<1>2. its \in 1..Len(contracts) /\ contracts[its] = n /\ its \in made
  BY <1>1 DEF AllocationTypeOK, LedgerTrue, MadeFor
<1>3. /\ IsFiniteSet(made) /\ made \subseteq 1..Len(contracts)
      /\ \A i \in made : contracts[i] = n
  <2>1. Len(contracts) \in Nat /\ made \subseteq 1..Len(contracts)
        /\ \A i \in made : contracts[i] = n
    BY <1>1 DEF AllocationTypeOK, MadeFor
  <2>2. IsFiniteSet(1..Len(contracts))
    BY <2>1, FS_Interval
  <2> QED BY <2>1, <2>2, FS_Subset
<1>4. \A i \in made : balance[i] \in Nat
  BY <1>1, <1>3 DEF AllocationTypeOK
<1>5. ASSUME NEW i \in made \ {its} PROVE balance[i] = 0
  <2>1. i \in DOMAIN contracts /\ addresses[contracts[i]] # i
    BY <1>1, <1>3, <1>5 DEF AllocationTypeOK
  <2>2. ~(balance[i] > 0)
    BY <2>1 DEF Lost
  <2> QED BY <1>4, <2>2
<1>6. sent[n] = SumFunctionOnSet(balance, made)
  BY <1>1 DEF Balanced, HeldFor
<1>7. balance[its] \in {0, Worth(n)}
  BY <1>1, <1>2 DEF Balanced
<1> HIDE DEF made, its
<1>8. SumFunctionOnSet(balance, made) = balance[its]
  <2>1. balance[its] \in Int
    BY <1>2, <1>4
  <2> QED BY <1>2, <1>3, <1>5, <2>1, SumOfOne
<1> QED BY <1>6, <1>7, <1>8 DEF its

\* What has not been sent is what the transfers that remain will send.
LEMMA RestIsCovered ==
  ASSUME AllocationInvariant, ExactInvariant
  PROVE  DeployerCoversRest
<1> SUFFICES ASSUME moves = 0, Lost = {}, \A n \in ContractNames : addresses[n] # 0
             PROVE  balance[Deployer] =
                      SumFunctionOnSet([k \in DOMAIN Transfers |-> Transfers[k].amount],
                                       {k \in DOMAIN Transfers : Unpaid(Transfers[k].name)})
                      + (IF Production THEN 0 ELSE TREASURY_IMMEDIATE_OWNERSHIP_AMOUNT)
  BY DEF DeployerCoversRest
<1> DEFINE All     == Named \cup {<<"multisig", 0>>}
           missing == [n \in All |-> Worth(n) - sent[n]]
           due     == [n \in All |-> IF Unpaid(n) THEN Worth(n) ELSE 0]
           total   == [n \in All |-> sent[n] + missing[n]]
           gap     == IF Production THEN 0 ELSE TREASURY_IMMEDIATE_OWNERSHIP_AMOUNT
           rest    == [n \in All |-> IF n = <<"multisig", 0>> THEN gap ELSE 0]
<1>1. AllocationTypeOK /\ LedgerTrue /\ Balanced
  BY DEF AllocationInvariant, ExactInvariant
<1>2. \A n \in Named : /\ sent[n] = balance[addresses[n]] /\ sent[n] \in {0, Worth(n)}
                       /\ Recipient(n) = addresses[n]
  BY SentIsThere, DeploymentNames, DueNames DEF Recipient
<1>3. /\ Worth(<<"multisig", 0>>) = 500000 /\ <<"multisig", 0>> \notin Named
      /\ TREASURY_IMMEDIATE_OWNERSHIP_AMOUNT = 500000
      /\ \A n \in All : Worth(n) \in Nat \ {0}
  <2>1. Worth(<<"multisig", 0>>) = 500000 /\ TREASURY_IMMEDIATE_OWNERSHIP_AMOUNT = 500000
    BY DEF Worth, AmountDue, TREASURY_IMMEDIATE_OWNERSHIP_AMOUNT
  <2> QED BY <2>1, WorthsArePositive, DueNames
<1>4. /\ sent[<<"multisig", 0>>] \in {0, 500000}
      /\ ~Production => sent[<<"multisig", 0>>] = 0
      /\ sent[<<"multisig", 0>>] = balance[Multisig]
      /\ balance[Deployer] + SentInAll(sent) = IndexSupply
  BY <1>1, <1>3 DEF Balanced
<1>5. \A n \in All : sent[n] \in Nat /\ missing[n] \in Nat /\ total[n] = sent[n] + missing[n]
  BY <1>2, <1>3, <1>4
<1>6. /\ \A n \in Named : total[n] = Worth(n)
      /\ total[<<"multisig", 0>>] = 500000
  BY <1>2, <1>3, <1>4
<1> HIDE DEF All, total
<1>7. SentInAll(sent) + SentInAll(missing) = IndexSupply
  <2>1. SentInAll(total) = 10000000
    BY <1>6, SumOfWorths
  <2>2. SentInAll(total) = SentInAll(sent) + SentInAll(missing)
    <3> HIDE DEF missing
    <3> QED BY <1>5, SumOfSums DEF All
  <2> QED BY <2>1, <2>2 DEF IndexSupply
<1>8. balance[Deployer] = SentInAll(missing)
  <2>1. balance[Deployer] \in Nat /\ IndexSupply \in Nat
    BY <1>1 DEF AllocationTypeOK, Accounts, IndexSupply
  <2> HIDE DEF missing
  <2>2. SentInAll(missing) \in Nat /\ SentInAll(sent) \in Nat
    BY <1>5, SentInAllType DEF All
  <2> QED BY <1>4, <1>7, <2>1, <2>2
\* Off production the deployer keeps the treasury's share at least.
<1>9. ~Production => balance[Deployer] # 0
  <2>1. ASSUME ~Production PROVE SentInAll(missing) >= 500000
    <3>1. missing[<<"multisig", 0>>] = 500000
      BY <1>3, <1>4, <2>1 DEF All
    <3> HIDE DEF missing
    <3> QED BY <1>5, <3>1, SentInAllType DEF All
  <2> QED BY <1>8, <2>1
<1>10. \A n \in All : /\ due[n] \in Nat /\ rest[n] \in Nat
                      /\ missing[n] = due[n] + rest[n]
  <2>1. ASSUME NEW n \in Named PROVE missing[n] = due[n] /\ due[n] \in Nat /\ rest[n] = 0
    <3>1. n \in All /\ n # <<"multisig", 0>> /\ Worth(n) \in Nat \ {0}
      BY <1>3 DEF All
    <3>2. Unpaid(n) <=> sent[n] = 0
      BY <1>2 DEF Unpaid
    <3> QED BY <1>2, <3>1, <3>2
  <2>2. /\ missing[<<"multisig", 0>>] = due[<<"multisig", 0>>] + rest[<<"multisig", 0>>]
        /\ due[<<"multisig", 0>>] \in Nat /\ rest[<<"multisig", 0>>] \in Nat
    <3>1. Recipient(<<"multisig", 0>>) = IF Production THEN Multisig ELSE Deployer
      BY DEF Recipient
    <3>2. <<"multisig", 0>> \in All
      BY DEF All
    <3>3. CASE Production
      <4>1. Unpaid(<<"multisig", 0>>) <=> sent[<<"multisig", 0>>] = 0
        BY <1>4, <3>1, <3>3 DEF Unpaid
      <4> QED BY <1>3, <1>4, <3>2, <3>3, <4>1
    <3>4. CASE ~Production
      <4>1. ~Unpaid(<<"multisig", 0>>)
        BY <1>9, <3>1, <3>4 DEF Unpaid
      <4> QED BY <1>3, <1>4, <3>2, <3>4, <4>1
    <3> QED BY <3>3, <3>4
  <2>3. \A n \in Named : missing[n] \in Nat
    BY <1>5 DEF All
  <2> HIDE DEF missing, due, rest
  <2> QED BY <2>1, <2>2, <2>3 DEF All
<1>11. SentInAll(missing) = SentInAll(due) + gap
  <2>1. SentInAll(rest) = gap
    <3>1. /\ rest[<<"multisig", 0>>] = gap /\ gap \in Nat
          /\ \A n \in Named : rest[n] = 0
      BY <1>3 DEF All
    <3> HIDE DEF rest, gap
    <3> QED BY <3>1, SentInAllOfTreasury
  <2> HIDE DEF missing, due, rest, gap
  <2>2. SentInAll(missing) = SentInAll(due) + SentInAll(rest)
    BY <1>10, SumOfSums DEF All
  <2> QED BY <2>1, <2>2
<1>12. SumFunctionOnSet([k \in DOMAIN Transfers |-> Transfers[k].amount],
                        {k \in DOMAIN Transfers : Unpaid(Transfers[k].name)})
         = SentInAll(due)
  <2> DEFINE f == [k \in 1..13 |-> Transfers[k].amount]
             g == [k \in 1..13 |-> due[Transfers[k].name]]
             U == {k \in 1..13 : Unpaid(Transfers[k].name)}
  <2>1. \A k \in 1..13 : /\ f[k] = Worth(Transfers[k].name) /\ f[k] \in Int
                         /\ g[k] = IF k \in U THEN f[k] ELSE 0
    <3>1. \A k \in 1..13 : /\ Transfers[k].name \in All
                           /\ Transfers[k].amount = Worth(Transfers[k].name)
                           /\ Transfers[k].amount \in Nat
      <4>1. \A t \in Seq(Due) : \A k \in DOMAIN t : t[k] \in Due
        OBVIOUS
      <4>2. \A k \in 1..13 : Transfers[k] \in Due
        BY <4>1, TransfersAreDue, TransferList
      <4> QED BY <4>2, DueNames DEF All
    <3> QED BY <3>1
  <2>2. U \subseteq 1..13
    OBVIOUS
  <2>3. SumFunctionOnSet(g, 1..13) = SentInAll(due)
    <3>1. \A n \in Named \cup {<<"multisig", 0>>} : due[n] \in Nat
      BY <1>10 DEF All
    <3> HIDE DEF due
    <3> QED BY <3>1, SumOverTransfers
  <2> HIDE DEF f, g, U
  <2>4. SumFunctionOnSet(f, U) = SumFunctionOnSet(g, 1..13)
    <3> DEFINE D == 1..13
    <3>1. IsFiniteSet(D)
      <4>1. 1 \in Int /\ 13 \in Int
        OBVIOUS
      <4> QED BY <4>1, FS_Interval
    <3>2. \A k \in D : f[k] \in Int /\ g[k] = IF k \in U THEN f[k] ELSE 0
      BY <2>1
    <3>3. U \in SUBSET D
      BY <2>2
    <3> HIDE DEF D
    <3>4. SumFunctionOnSet(f, U) = SumFunctionOnSet(g, D)
      BY <3>1, <3>2, <3>3, SumWhere
    <3> QED BY <3>4 DEF D
  <2> QED BY <2>3, <2>4, TransferList DEF f, U
<1> QED BY <1>8, <1>11, <1>12

\* As long as no contract with tokens is forgotten, the deployer has what it needs for the
\* transfers that remain, and no more, whatever was interrupted before.
THEOREM DeployerHoldsTheRest == Spec => []DeployerCoversRest
<1>1. AllocationInvariant /\ ExactInvariant => DeployerCoversRest
  BY RestIsCovered
<1> QED BY <1>1, AllocationInvariantHolds, ExactInvariantHolds, PTL

-----------------------------------------------------------------------------
(***************************************************************************)
(* What is forgotten.  The vestings are of one type, so a torn write makes *)
(* the next run create all ten of them again, and then it cannot pay: the  *)
(* shares come in one order, the methodologist's first, and the deployer   *)
(* does not have that one twice.                                           *)
(***************************************************************************)
Methodology  == <<"methodology", 0>>
LastName     == <<"dfp", 3>>
VestingNames == Named \ {<<"claims", 0>>, <<"staking", 0>>}

\* A contract that the ledger has for its name, and the vestings with tokens.
Kept(i)      == addresses[contracts[i]] = i
PaidVestings == {i \in 1..Len(contracts) : contracts[i] \in VestingNames /\ balance[i] # 0}

\* hardhat-deploy has the only contract of each distributor, and the last vesting once the
\* ledger has it.
LatestKnown ==
  /\ \A n \in Named : latest[TypeOf(n)] # 0 => TypeOf(contracts[latest[TypeOf(n)]]) = TypeOf(n)
  /\ \A i \in 1..Len(contracts) :
       contracts[i] \notin VestingNames => latest[TypeOf(contracts[i])] = i
  /\ addresses[LastName] # 0 =>
       /\ \A n \in Named : addresses[n] # 0
       /\ latest["Vesting"] = addresses[LastName]

\* The methodologist is paid before the other vestings, and what is forgotten once is not
\* found again.
PaidTogether ==
  /\ latest["Vesting"] \in PaidVestings =>
       /\ contracts[latest["Vesting"]] = LastName
       /\ addresses[LastName] # 0 \/ \A n \in VestingNames : addresses[n] = 0
  /\ (\E i \in PaidVestings : Kept(i)) => addresses[Methodology] \in PaidVestings
  /\ (\E i \in PaidVestings : ~Kept(i)) =>
       \E j \in PaidVestings : contracts[j] = Methodology /\ ~Kept(j)

ForgottenInvariant == LatestKnown /\ (moves = 0 => PaidTogether)

\* The types of the names.
LEMMA Types ==
  /\ \A n \in VestingNames : n \in Named /\ TypeOf(n) = "Vesting"
  /\ \A n \in Named \ VestingNames : TypeOf(n) \in {"claims", "staking"}
  /\ \A m \in Named, n \in Named \ VestingNames : TypeOf(m) = TypeOf(n) => m = n
  /\ Methodology \in VestingNames /\ LastName \in VestingNames /\ Methodology # LastName
  /\ \A n \in Named : TypeOf(n) \in {TypeOf(m) : m \in Named}
<1>1. <<"claims", 0>>[1] = "claims" /\ <<"staking", 0>>[1] = "staking"
  OBVIOUS
<1>2. TypeOf(<<"claims", 0>>) = "claims" /\ TypeOf(<<"staking", 0>>) = "staking"
  BY <1>1 DEF TypeOf
<1>3. \A n \in VestingNames : n \in Named /\ TypeOf(n) = "Vesting"
  BY DEF VestingNames, TypeOf
<1>4. \A n \in Named \ VestingNames : n = <<"claims", 0>> \/ n = <<"staking", 0>>
  BY DEF VestingNames
<1>5. /\ Methodology \in VestingNames /\ LastName \in VestingNames /\ Methodology # LastName
  BY DEF Methodology, LastName, VestingNames, Named
<1>6. \A n \in Named \ VestingNames : TypeOf(n) \in {"claims", "staking"}
  BY <1>2, <1>4
<1>7. ASSUME NEW m \in Named, NEW n \in Named \ VestingNames, TypeOf(m) = TypeOf(n)
      PROVE  m = n
  <2>1. m \notin VestingNames
    BY <1>3, <1>6, <1>7
  <2> QED BY <1>2, <1>4, <1>7, <2>1
<1> QED BY <1>3, <1>5, <1>6, <1>7

\* The order of the deployments.
LEMMA DeploymentList ==
  /\ DOMAIN Deployments = 1..12
  /\ Deployments[1].name \notin VestingNames /\ Deployments[2].name \notin VestingNames
  /\ Deployments[3].name = Methodology
  /\ \A k \in 1..11 : Deployments[k].name # LastName
<1> DEFINE All       == Due \cup {Share("claims", 0, 0), Share("staking", 0, 0)}
           first     == <<Share("methodology", 0, TREASURY_INDEX_METHODOLOGY_OWNERSHIP_AMOUNT)>>
           treasury  == ThreeYears("treasury", TREASURY_OWNERSHIP_AMOUNTS)
           setLabs   == ThreeYears("setLabs", SET_LABS_OWNERSHIP_AMOUNTS)
           dfp       == ThreeYears("dfp", DFP_OWNERSHIP_AMOUNTS)
<1>1. Deployments = Distributors \o (((first \o treasury) \o setLabs) \o dfp)
  BY DEF Deployments, Vestings
<1>2. /\ treasury \in Seq(All) /\ setLabs \in Seq(All) /\ dfp \in Seq(All)
      /\ Len(treasury) = 3 /\ Len(setLabs) = 3 /\ Len(dfp) = 3
  <2>1. treasury \in Seq(Due) /\ setLabs \in Seq(Due) /\ dfp \in Seq(Due)
    BY AllYears
  <2>2. Seq(Due) \subseteq Seq(All) /\ \A t \in Seq(Due) : DOMAIN t = 1..3 => Len(t) = 3
    OBVIOUS
  <2> HIDE DEF All
  <2> QED BY <2>1, <2>2, ThreeShares
<1>3. first \in Seq(All) /\ Len(first) = 1 /\ first[1].name = Methodology
  <2>1. \A x \in All : <<x>> \in Seq(All) /\ Len(<<x>>) = 1 /\ <<x>>[1] = x
    OBVIOUS
  <2>2. Share("methodology", 0, TREASURY_INDEX_METHODOLOGY_OWNERSHIP_AMOUNT) \in All
    BY SingleSharesAreDue
  <2>3. Share("methodology", 0, TREASURY_INDEX_METHODOLOGY_OWNERSHIP_AMOUNT).name = Methodology
    BY DEF Share, Methodology
  <2> HIDE DEF All
  <2> QED BY <2>1, <2>2, <2>3
<1>4. /\ Distributors \in Seq(All) /\ Len(Distributors) = 2
      /\ Distributors[1].name = <<"claims", 0>> /\ Distributors[2].name = <<"staking", 0>>
  <2>1. \A x, y \in All : <<x, y>> \in Seq(All) /\ Len(<<x, y>>) = 2
                          /\ <<x, y>>[1] = x /\ <<x, y>>[2] = y
    OBVIOUS
  <2>2. Share("claims", 0, 0) \in All /\ Share("staking", 0, 0) \in All
    OBVIOUS
  <2>3. Share("claims", 0, 0).name = <<"claims", 0>> /\ Share("staking", 0, 0).name = <<"staking", 0>>
    BY DEF Share
  <2> HIDE DEF All
  <2> QED BY <2>1, <2>2, <2>3 DEF Distributors
<1>5. \A year \in 1..3 : /\ treasury[year].name = <<"treasury", year>>
                         /\ setLabs[year].name = <<"setLabs", year>>
                         /\ dfp[year].name = <<"dfp", year>>
  BY ThreeShares
<1> HIDE DEF All, first, treasury, setLabs, dfp
<1>6. ASSUME NEW x \in Seq(All), NEW y \in Seq(All), NEW n \in Nat, NEW m \in Nat,
             Len(x) = n, Len(y) = m
      PROVE  /\ x \o y \in Seq(All) /\ Len(x \o y) = n + m
             /\ \A k \in 1..n : (x \o y)[k] = x[k]
             /\ \A k \in 1..m : (x \o y)[n + k] = y[k]
  BY <1>6, PlacesOfBoth
<1> DEFINE a == first \o treasury
           b == a \o setLabs
           c == b \o dfp
<1>7. /\ a \in Seq(All) /\ Len(a) = 4
      /\ \A k \in 1..1 : a[k] = first[k]
      /\ \A k \in 1..3 : a[1 + k] = treasury[k]
  <2>1. Len(first) = 1 /\ 1 \in Nat /\ Len(treasury) = 3 /\ 3 \in Nat
    BY <1>2, <1>3
  <2>2. first \in Seq(All) /\ treasury \in Seq(All)
    BY <1>2, <1>3
  <2>3. /\ a \in Seq(All) /\ Len(a) = 1 + 3
        /\ \A k \in 1..1 : a[k] = first[k]
        /\ \A k \in 1..3 : a[1 + k] = treasury[k]
    BY <2>1, <2>2, <1>6, ZenonT(60)
  <2>4. 1 + 3 = 4
    OBVIOUS
  <2> QED BY <2>3, <2>4, Zenon
<1> HIDE DEF a
<1>8. /\ b \in Seq(All) /\ Len(b) = 7
      /\ \A k \in 1..4 : b[k] = a[k]
      /\ \A k \in 1..3 : b[4 + k] = setLabs[k]
  <2>1. Len(a) = 4 /\ 4 \in Nat /\ Len(setLabs) = 3 /\ 3 \in Nat
    BY <1>2, <1>7
  <2>2. a \in Seq(All) /\ setLabs \in Seq(All)
    BY <1>2, <1>7
  <2>3. /\ b \in Seq(All) /\ Len(b) = 4 + 3
        /\ \A k \in 1..4 : b[k] = a[k]
        /\ \A k \in 1..3 : b[4 + k] = setLabs[k]
    BY <2>1, <2>2, <1>6, ZenonT(60)
  <2>4. 4 + 3 = 7
    OBVIOUS
  <2> QED BY <2>3, <2>4, Zenon
<1> HIDE DEF b
<1>9. /\ c \in Seq(All) /\ Len(c) = 10
      /\ \A k \in 1..7 : c[k] = b[k]
      /\ \A k \in 1..3 : c[7 + k] = dfp[k]
  <2>1. Len(b) = 7 /\ 7 \in Nat /\ Len(dfp) = 3 /\ 3 \in Nat
    BY <1>2, <1>8
  <2>2. b \in Seq(All) /\ dfp \in Seq(All)
    BY <1>2, <1>8
  <2>3. /\ c \in Seq(All) /\ Len(c) = 7 + 3
        /\ \A k \in 1..7 : c[k] = b[k]
        /\ \A k \in 1..3 : c[7 + k] = dfp[k]
    BY <2>1, <2>2, <1>6, ZenonT(60)
  <2>4. 7 + 3 = 10
    OBVIOUS
  <2> QED BY <2>3, <2>4, Zenon
<1>10. Deployments = Distributors \o c
  BY <1>1 DEF a, b
<1> HIDE DEF c
<1>11. /\ DOMAIN Deployments = 1..12
       /\ \A k \in 1..2 : Deployments[k] = Distributors[k]
       /\ \A k \in 1..10 : Deployments[2 + k] = c[k]
  <2>1. Len(Distributors) = 2 /\ 2 \in Nat /\ Len(c) = 10 /\ 10 \in Nat
    BY <1>4, <1>9
  <2>2. Distributors \in Seq(All) /\ c \in Seq(All)
    BY <1>4, <1>9
  <2>3. /\ Distributors \o c \in Seq(All) /\ Len(Distributors \o c) = 2 + 10
        /\ \A k \in 1..2 : (Distributors \o c)[k] = Distributors[k]
        /\ \A k \in 1..10 : (Distributors \o c)[2 + k] = c[k]
    BY <2>1, <2>2, <1>6, ZenonT(60)
  <2>4. Deployments \in Seq(All) /\ Len(Deployments) = 12
    <3>1. Len(Deployments) = 2 + 10
      BY <1>10, <2>3, Zenon
    <3> QED BY <1>10, <2>3, <3>1
  <2>5. DOMAIN Deployments = 1..12
    BY <2>4
  <2> QED BY <1>10, <2>3, <2>5, Zenon
<1>12. /\ c[1].name = Methodology
       /\ \A k \in 1..3 : /\ c[1 + k].name = <<"treasury", k>>
                          /\ c[4 + k].name = <<"setLabs", k>>
                          /\ c[7 + k].name = <<"dfp", k>>
  <2>1. 1 \in 1..1 /\ 1 \in 1..4 /\ 1 \in 1..7
    OBVIOUS
  <2>2. c[1] = first[1]
    BY <1>7, <1>8, <1>9, <2>1
  <2>3. ASSUME NEW k \in 1..3
        PROVE  c[1 + k] = treasury[k] /\ c[4 + k] = setLabs[k] /\ c[7 + k] = dfp[k]
    <3>1. 1 + k \in 1..4 /\ 1 + k \in 1..7 /\ 4 + k \in 1..7
      OBVIOUS
    <3> QED BY <1>7, <1>8, <1>9, <3>1
  <2> QED BY <1>3, <1>5, <2>2, <2>3
<1>13. \A k \in 1..9 : c[k].name # LastName
  <2> TAKE k \in 1..9
  <2>1. \/ k = 1
        \/ \E year \in 1..3 : k = 1 + year \/ k = 4 + year
        \/ \E year \in 1..2 : k = 7 + year
    <3>1. k \in {1, 2, 3, 4, 5, 6, 7, 8, 9}
      OBVIOUS
    <3>2. /\ 2 = 1 + 1 /\ 3 = 1 + 2 /\ 4 = 1 + 3 /\ 5 = 4 + 1 /\ 6 = 4 + 2 /\ 7 = 4 + 3
          /\ 8 = 7 + 1 /\ 9 = 7 + 2
          /\ 1 \in 1..3 /\ 2 \in 1..3 /\ 3 \in 1..3 /\ 1 \in 1..2 /\ 2 \in 1..2
      OBVIOUS
    <3> QED BY <3>1, <3>2
  <2> QED BY <1>12, <2>1 DEF LastName, Methodology
<1> QED
  <2>1. 1 \in 1..2 /\ 2 \in 1..2 /\ 1 \in 1..10 /\ 2 + 1 = 3
    OBVIOUS
  <2>2. /\ Deployments[1].name = <<"claims", 0>> /\ Deployments[2].name = <<"staking", 0>>
        /\ Deployments[3].name = Methodology
    BY <1>4, <1>11, <1>12, <2>1, Zenon
  <2>3. ASSUME NEW k \in 1..11 PROVE Deployments[k].name # LastName
    <3>1. CASE k \in 1..2
      BY <2>2, <3>1 DEF LastName
    <3>2. CASE k \notin 1..2
      <4>1. k - 2 \in 1..9 /\ k - 2 \in 1..10 /\ 2 + (k - 2) = k
        BY <3>2
      <4> QED BY <1>11, <1>13, <4>1
    <3> QED BY <3>1, <3>2
  <2> QED BY <1>11, <2>2, <2>3 DEF VestingNames

\* Nothing is paid, so nothing is forgotten.
LEMMA ForgottenInit == Init => ForgottenInvariant
<1> SUFFICES ASSUME Init PROVE ForgottenInvariant
  OBVIOUS
<1>1. Len(contracts) = 0 /\ 1..Len(contracts) = {} /\ PaidVestings = {}
  <2>1. contracts = <<>>
    BY DEF Init
  <2>2. Len(contracts) = 0 /\ 1..Len(contracts) = {}
    BY <2>1
  <2> QED BY <2>2 DEF PaidVestings
<1>2. \A n \in Named : latest[TypeOf(n)] = 0 /\ addresses[n] = 0
  BY DeploymentNames DEF Init
<1>3. addresses[LastName] = 0
  BY <1>2, Types
<1>4. LatestKnown
  BY <1>1, <1>2, <1>3 DEF LatestKnown
<1>5. PaidTogether
  BY <1>1 DEF PaidTogether
<1> QED BY <1>4, <1>5 DEF ForgottenInvariant

\* What touches neither contracts nor balances forgets nothing.
LEMMA ForgottenQuietSteps ==
  ASSUME ForgottenInvariant,
         \/ StartRun \/ SkipRecordedName \/ ReuseContract \/ StartTransfers \/ SkipTransfer
         \/ RecordTransfer \/ RefuseTransfer \/ FinishStage \/ Crash \/ UNCHANGED vars
  PROVE  ForgottenInvariant'
<1>1. UNCHANGED <<contracts, latest, addresses, balance, moves>>
  BY DEF StartRun, SkipRecordedName, ReuseContract, StartTransfers, SkipTransfer,
         RecordTransfer, RefuseTransfer, FinishStage, Crash, world, ledger, tokens,
         environment, vars
<1>2. LatestKnown'
  BY <1>1 DEF ForgottenInvariant, LatestKnown
<1>3. PaidVestings' = PaidVestings /\ \A i : Kept(i)' <=> Kept(i)
  BY <1>1 DEF PaidVestings, Kept
<1>4. PaidTogether => PaidTogether'
  BY <1>1, <1>3 DEF PaidTogether
<1> QED BY <1>1, <1>2, <1>4 DEF ForgottenInvariant

\* A distributor is created once, and a new vesting has no tokens.
LEMMA ForgottenCreateStep ==
  ASSUME AllocationInvariant, ForgottenInvariant, CreateContract
  PROVE  ForgottenInvariant'
<1> DEFINE new == Len(contracts) + 1
<1>1. /\ pc = "deploy" /\ step \in DOMAIN Deployments /\ addresses[Name] = 0 /\ ~Reusable(Name)
      /\ contracts' = Append(contracts, Name)
      /\ latest' = [latest EXCEPT ![TypeOf(Name)] = new]
      /\ balance' = [a \in DOMAIN balance \cup {new} |->
                       IF a \in DOMAIN balance THEN balance[a] ELSE 0]
      /\ UNCHANGED <<addresses, moves>>
  BY DEF CreateContract, Deploying, WithNew, ledger, environment
<1>2. AllocationTypeOK /\ LatestKnown /\ Name \in Named
  BY <1>1, DeploymentNames
     DEF AllocationInvariant, ForgottenInvariant, Name, ContractNames
<1>3. /\ Len(contracts) \in Nat /\ Len(contracts') = new /\ new \notin 1..Len(contracts)
      /\ 1..new = (1..Len(contracts)) \cup {new} /\ new # 0
      /\ contracts'[new] = Name
      /\ \A i \in 1..Len(contracts) : contracts'[i] = contracts[i] /\ contracts[i] \in Named
  BY <1>1, <1>2 DEF AllocationTypeOK
<1>4. /\ latest'[TypeOf(Name)] = new
      /\ \A n \in Named : TypeOf(n) # TypeOf(Name) => latest'[TypeOf(n)] = latest[TypeOf(n)]
      /\ \A n \in Named : latest[TypeOf(n)] \in 0..Len(contracts)
  <2>1. /\ latest \in [{TypeOf(n) : n \in Named} -> 0..Len(contracts)]
        /\ \A n \in Named : TypeOf(n) \in {TypeOf(m) : m \in Named}
    BY <1>2, Types DEF AllocationTypeOK
  <2> HIDE DEF new
  <2> QED BY <1>1, <1>2, <2>1
<1>5. /\ \A i \in 1..Len(contracts) : balance'[i] = balance[i]
      /\ balance'[new] = 0
  <2>1. DOMAIN balance = Accounts \cup 1..Len(contracts)
    BY <1>2 DEF AllocationTypeOK
  <2>2. new \notin DOMAIN balance
    BY <1>3, <2>1 DEF Accounts, Deployer, Multisig, Others
  <2> HIDE DEF new
  <2> QED BY <1>1, <2>1, <2>2
<1> HIDE DEF new
<1>6. ASSUME NEW n \in Named, latest'[TypeOf(n)] # 0
      PROVE  TypeOf(contracts'[latest'[TypeOf(n)]]) = TypeOf(n)
  <2>1. CASE TypeOf(n) = TypeOf(Name)
    BY <1>3, <1>4, <2>1
  <2>2. CASE TypeOf(n) # TypeOf(Name)
    <3>1. latest[TypeOf(n)] # 0 /\ latest'[TypeOf(n)] = latest[TypeOf(n)]
      BY <1>4, <1>6, <2>2
    <3>2. latest[TypeOf(n)] \in 1..Len(contracts)
      BY <1>3, <1>4, <3>1
    <3>3. TypeOf(contracts[latest[TypeOf(n)]]) = TypeOf(n)
      BY <1>2, <3>1 DEF LatestKnown
    <3> QED BY <1>3, <3>1, <3>2, <3>3
  <2> QED BY <2>1, <2>2
<1>7. ASSUME NEW i \in 1..new, contracts'[i] \notin VestingNames
      PROVE  latest'[TypeOf(contracts'[i])] = i
  <2>1. CASE i = new
    BY <1>3, <1>4, <2>1
  <2>2. CASE i \in 1..Len(contracts)
    <3>1. /\ contracts'[i] = contracts[i] /\ contracts[i] \in Named \ VestingNames
          /\ latest[TypeOf(contracts[i])] = i /\ i # 0
      BY <1>2, <1>3, <1>7, <2>2 DEF LatestKnown
    <3>2. TypeOf(contracts[i]) # TypeOf(Name)
      <4> SUFFICES ASSUME TypeOf(contracts[i]) = TypeOf(Name) PROVE FALSE
        OBVIOUS
      <4>1. contracts[i] = Name
        BY <1>2, <3>1, Types
      <4> QED BY <1>1, <3>1, <4>1 DEF Reusable
    <3> QED BY <1>4, <3>1, <3>2
  <2> QED BY <1>3, <1>7, <2>1, <2>2
<1>8. addresses'[LastName] = 0
  BY <1>1, <1>2 DEF LatestKnown
<1>9. LatestKnown'
  <2>1. \A n \in Named : latest'[TypeOf(n)] # 0 => TypeOf(contracts'[latest'[TypeOf(n)]]) = TypeOf(n)
    BY <1>6
  <2>2. \A i \in 1..Len(contracts') :
          contracts'[i] \notin VestingNames => latest'[TypeOf(contracts'[i])] = i
    BY <1>3, <1>7
  <2> QED BY <1>8, <2>1, <2>2 DEF LatestKnown
<1>10. ASSUME PaidTogether PROVE PaidTogether'
  <2>1. PaidVestings' = PaidVestings
    <3>1. PaidVestings' = {i \in 1..Len(contracts') :
                             contracts'[i] \in VestingNames /\ balance'[i] # 0}
      BY DEF PaidVestings
    <3> QED BY <1>3, <1>5, <3>1 DEF PaidVestings
  <2>2. \A i \in PaidVestings : i \in 1..Len(contracts) /\ contracts'[i] = contracts[i]
    BY <1>3 DEF PaidVestings
  <2>3. \A i \in PaidVestings : Kept(i)' <=> Kept(i)
    BY <1>1, <2>2 DEF Kept
  <2>4. /\ latest'["Vesting"] \in PaidVestings => latest'["Vesting"] = latest["Vesting"]
        /\ new \notin PaidVestings
    <3>1. new \notin PaidVestings
      BY <1>3 DEF PaidVestings
    <3>2. "Vesting" = TypeOf(LastName) /\ LastName \in Named
      BY Types
    <3>3. "Vesting" = TypeOf(Name) \/ latest'["Vesting"] = latest["Vesting"]
      BY <1>4, <3>2
    <3> QED BY <1>4, <3>1, <3>3
  <2>5. latest'["Vesting"] \in PaidVestings' =>
          /\ contracts'[latest'["Vesting"]] = LastName
          /\ addresses'[LastName] # 0 \/ \A n \in VestingNames : addresses'[n] = 0
    BY <1>1, <1>10, <2>1, <2>2, <2>4 DEF PaidTogether
  <2>6. (\E i \in PaidVestings' : Kept(i)') => addresses'[Methodology] \in PaidVestings'
    BY <1>1, <1>10, <2>1, <2>3 DEF PaidTogether
  <2>7. (\E i \in PaidVestings' : ~Kept(i)') =>
          \E j \in PaidVestings' : contracts'[j] = Methodology /\ ~Kept(j)'
    BY <1>10, <2>1, <2>2, <2>3 DEF PaidTogether
  <2> QED BY <2>5, <2>6, <2>7 DEF PaidTogether
<1> QED BY <1>1, <1>9, <1>10 DEF ForgottenInvariant

\* A vesting that the ledger gets has no tokens: what is forgotten is not found again.
LEMMA ForgottenSaveStep ==
  ASSUME AllocationInvariant, ExactInvariant, ForgottenInvariant, SaveAddress
  PROVE  ForgottenInvariant'
<1> DEFINE new == latest[TypeOf(Name)]
<1>1. /\ pc = "save" /\ addresses' = [addresses EXCEPT ![Name] = new]
      /\ UNCHANGED <<contracts, latest, balance, moves>>
  BY DEF SaveAddress, world, tokens, environment
<1>2. /\ AllocationTypeOK /\ LedgerTrue /\ LatestKnown
      /\ step \in DOMAIN Deployments /\ step \in Nat \ {0} /\ Name \in Named
      /\ addresses[Name] = 0 /\ new # 0 /\ contracts[new] = Name
      /\ \A k \in 1..(step - 1) : k \in DOMAIN Deployments => addresses[Deployments[k].name] # 0
  BY <1>1, DeploymentNames
     DEF AllocationInvariant, AllocationTypeOK, InPlace, ExactInvariant, LedgerTrue,
         ForgottenInvariant, Name, ContractNames
<1> HIDE DEF new
<1>3. /\ addresses'[Name] = new
      /\ \A n \in Named : n # Name => addresses'[n] = addresses[n]
  BY <1>1, <1>2 DEF AllocationTypeOK
<1>4. addresses[LastName] = 0
  BY <1>2 DEF LatestKnown
<1>5. Name = LastName => step = 12
  BY <1>2, DeploymentList DEF Name
<1>6. LatestKnown'
  <2>1. CASE Name = LastName
    <3>1. ASSUME NEW n \in Named PROVE addresses'[n] # 0
      <4>1. PICK k \in DOMAIN Deployments : Deployments[k].name = n
        BY DeploymentNames DEF ContractNames
      <4>2. CASE k = 12
        BY <1>2, <1>3, <1>5, <2>1, <4>1, <4>2 DEF Name
      <4>3. CASE k # 12
        <5>1. k \in 1..(step - 1)
          BY <1>5, <2>1, <4>3, DeploymentList
        <5>2. addresses[n] # 0
          BY <1>2, <4>1, <5>1
        <5> QED BY <1>2, <1>3, <5>2
      <4> QED BY <4>2, <4>3
    <3>2. addresses'[LastName] = latest'["Vesting"]
      <4>1. TypeOf(LastName) = "Vesting"
        BY Types
      <4> QED BY <1>1, <1>3, <2>1, <4>1 DEF new
    <3> QED BY <1>1, <1>2, <3>1, <3>2 DEF LatestKnown
  <2>2. CASE Name # LastName
    <3>1. addresses'[LastName] = 0
      BY <1>3, <1>4, <2>2, Types
    <3> QED BY <1>1, <1>2, <3>1 DEF LatestKnown
  <2> QED BY <2>1, <2>2
<1>7. ASSUME PaidTogether PROVE PaidTogether'
  <2>1. PaidVestings' = PaidVestings /\ \A i \in PaidVestings : i # 0 /\ contracts[i] \in VestingNames
    BY <1>1, <1>2 DEF PaidVestings, AllocationTypeOK
  <2>2. new \notin PaidVestings
    <3> SUFFICES ASSUME new \in PaidVestings PROVE FALSE
      OBVIOUS
    <3>1. Name \in VestingNames /\ new = latest["Vesting"]
      BY <1>2, <2>1, Types DEF new
    <3>2. Name = LastName /\ \A n \in VestingNames : addresses[n] = 0
      BY <1>2, <1>4, <1>7, <3>1 DEF PaidTogether
    <3>3. addresses[Methodology] # 0
      <4>1. 3 \in 1..(step - 1) /\ 3 \in DOMAIN Deployments
        BY <1>5, <3>2, DeploymentList
      <4> QED BY <1>2, <4>1, DeploymentList
    <3> QED BY <3>2, <3>3, Types
  <2>3. ASSUME NEW i \in PaidVestings PROVE Kept(i)' <=> Kept(i)
    <3>1. contracts[i] \in Named /\ contracts'[i] = contracts[i] /\ i # 0
      BY <1>1, <2>1, Types
    <3>2. CASE contracts[i] = Name
      <4>1. ~Kept(i)
        BY <1>2, <3>1, <3>2 DEF Kept
      <4>2. ~Kept(i)'
        BY <1>3, <2>2, <3>1, <3>2 DEF Kept
      <4> QED BY <4>1, <4>2
    <3>3. CASE contracts[i] # Name
      BY <1>3, <3>1, <3>3 DEF Kept
    <3> QED BY <3>2, <3>3
  <2>4. latest'["Vesting"] \in PaidVestings' =>
          /\ contracts'[latest'["Vesting"]] = LastName
          /\ addresses'[LastName] # 0 \/ \A n \in VestingNames : addresses'[n] = 0
    <3> SUFFICES ASSUME latest["Vesting"] \in PaidVestings
                 PROVE  /\ contracts[latest["Vesting"]] = LastName
                        /\ \A n \in VestingNames : addresses'[n] = 0
      BY <1>1, <2>1
    <3>1. /\ contracts[latest["Vesting"]] = LastName
          /\ \A n \in VestingNames : addresses[n] = 0
      BY <1>4, <1>7 DEF PaidTogether
    <3>2. Name \notin VestingNames
      BY <2>2, Types DEF new
    <3>3. \A n \in VestingNames : n \in Named /\ n # Name
      BY <3>2, Types
    <3> QED BY <1>3, <3>1, <3>3
  <2>5. (\E i \in PaidVestings' : Kept(i)') => addresses'[Methodology] \in PaidVestings'
    <3> SUFFICES ASSUME \E i \in PaidVestings : Kept(i)
                 PROVE  addresses'[Methodology] \in PaidVestings
      BY <2>1, <2>3
    <3>1. addresses[Methodology] \in PaidVestings
      BY <1>7 DEF PaidTogether
    <3>2. Methodology # Name
      BY <1>2, <2>1, <3>1
    <3> QED BY <1>3, <3>1, <3>2, Types
  <2>6. (\E i \in PaidVestings' : ~Kept(i)') =>
          \E j \in PaidVestings' : contracts'[j] = Methodology /\ ~Kept(j)'
    BY <1>1, <1>7, <2>1, <2>3 DEF PaidTogether
  <2> QED BY <2>4, <2>5, <2>6 DEF PaidTogether
<1> QED BY <1>1, <1>6, <1>7 DEF ForgottenInvariant

\* All contracts are forgotten, the methodologist's with the others.
LEMMA ForgottenTearStep ==
  ASSUME AllocationInvariant, ExactInvariant, ForgottenInvariant, TearWrite
  PROVE  ForgottenInvariant'
<1>1. /\ addresses' = [n \in Named |-> 0]
      /\ UNCHANGED <<contracts, latest, balance, moves>>
  BY DeploymentNames DEF TearWrite, world, tokens
<1>2. LedgerTrue /\ LatestKnown /\ AllocationTypeOK
  BY DEF AllocationInvariant, ExactInvariant, ForgottenInvariant
<1>3. \A n \in VestingNames : n \in Named /\ addresses'[n] = 0
  BY <1>1, Types
<1>4. LatestKnown'
  <2>1. addresses'[LastName] = 0
    BY <1>3, Types
  <2> QED BY <1>1, <1>2, <2>1 DEF LatestKnown
<1>5. ASSUME PaidTogether PROVE PaidTogether'
  <2>1. PaidVestings' = PaidVestings /\ \A i \in PaidVestings : i # 0 /\ contracts[i] \in VestingNames
    BY <1>1, <1>2 DEF PaidVestings, AllocationTypeOK
  <2>2. \A i \in PaidVestings : ~Kept(i)'
    BY <1>1, <1>3, <2>1 DEF Kept
  <2>3. ASSUME NEW i \in PaidVestings
        PROVE  \E j \in PaidVestings : contracts[j] = Methodology
    <3>1. CASE Kept(i)
      <4>1. addresses[Methodology] \in PaidVestings
        BY <1>5, <3>1 DEF PaidTogether
      <4>2. contracts[addresses[Methodology]] = Methodology
        BY <1>2, <2>1, <4>1, Types DEF LedgerTrue
      <4> QED BY <4>1, <4>2
    <3>2. CASE ~Kept(i)
      BY <1>5, <3>2 DEF PaidTogether
    <3> QED BY <3>1, <3>2
  <2>4. latest'["Vesting"] \in PaidVestings' =>
          /\ contracts'[latest'["Vesting"]] = LastName
          /\ addresses'[LastName] # 0 \/ \A n \in VestingNames : addresses'[n] = 0
    BY <1>1, <1>3, <1>5, <2>1 DEF PaidTogether
  <2>5. (\E i \in PaidVestings' : Kept(i)') => addresses'[Methodology] \in PaidVestings'
    BY <2>1, <2>2
  <2>6. (\E i \in PaidVestings' : ~Kept(i)') =>
          \E j \in PaidVestings' : contracts'[j] = Methodology /\ ~Kept(j)'
    BY <1>1, <2>1, <2>2, <2>3
  <2> QED BY <2>4, <2>5, <2>6 DEF PaidTogether
<1> QED BY <1>1, <1>4, <1>5 DEF ForgottenInvariant

\* Once somebody else has moved tokens, the order of the payments is given up.
LEMMA ForgottenMoveStep ==
  ASSUME AllocationInvariant, ForgottenInvariant, MoveTokens
  PROVE  ForgottenInvariant'
<1>1. UNCHANGED <<contracts, latest, addresses>> /\ moves' = moves + 1 /\ moves \in Nat
  BY DEF MoveTokens, ledger, AllocationInvariant, AllocationTypeOK
<1>2. LatestKnown' /\ moves' # 0
  BY <1>1 DEF ForgottenInvariant, LatestKnown
<1> QED BY <1>2 DEF ForgottenInvariant

\* The transfers are made with every name in the ledger, and the methodologist's is made
\* before those of the other vestings.
LEMMA ForgottenSendStep ==
  ASSUME AllocationInvariant, ExactInvariant, ForgottenInvariant, SendTransfer
  PROVE  ForgottenInvariant'
<1> DEFINE name == Transfer.name
           to   == Recipient(name)
<1>1. /\ pc = "transfer" /\ step \in DOMAIN Transfers
      /\ UNCHANGED <<contracts, latest, addresses, moves>>
      /\ name \in Named \cup {<<"multisig", 0>>}
      /\ to \in Accounts \cup 1..Len(contracts) /\ to # Deployer
      /\ name = <<"multisig", 0>> => to = Multisig
      /\ name \in Named => /\ to \in 1..Len(contracts) /\ to = addresses[name]
                           /\ contracts[to] = name
      /\ balance'[to] # 0
      /\ \A a \in Accounts \cup 1..Len(contracts) :
           a # Deployer /\ a # to => balance'[a] = balance[a]
  BY SendIs
<1>2. AllocationTypeOK /\ LedgerTrue /\ LatestKnown /\ \A n \in Named : addresses[n] # 0
  BY <1>1 DEF AllocationInvariant, InPlace, ExactInvariant, ForgottenInvariant
<1>3. LatestKnown'
  BY <1>1, <1>2 DEF LatestKnown
<1>4. ASSUME moves = 0, PaidTogether PROVE PaidTogether'
  <2>1. \A i : Kept(i)' <=> Kept(i)
    BY <1>1 DEF Kept
  <2>2. ASSUME NEW i \in 1..Len(contracts)
        PROVE  /\ i \in PaidVestings => i \in PaidVestings'
               /\ i \in PaidVestings' => \/ i \in PaidVestings
                                         \/ i = to /\ name \in VestingNames
    <3>1. i # Deployer /\ i # Multisig
      BY DEF Deployer, Multisig
    <3> HIDE DEF name, to
    <3>2. i # to => balance'[i] = balance[i]
      BY <1>1, <3>1
    <3>3. i = to => contracts[i] = name
      BY <1>1, <3>1
    <3> QED BY <1>1, <3>2, <3>3 DEF PaidVestings
  <2>3. PaidVestings \subseteq 1..Len(contracts) /\ PaidVestings' \subseteq 1..Len(contracts)
    BY <1>1 DEF PaidVestings
  <2>4. to \in PaidVestings' /\ to \notin PaidVestings => Kept(to) /\ name \in VestingNames
    <3>1. to \in PaidVestings' /\ to \notin PaidVestings => name \in VestingNames
      BY <2>2, <2>3
    <3>2. name \in VestingNames => Kept(to)
      BY <1>1, Types DEF Kept
    <3> QED BY <3>1, <3>2
  <2>5. latest'["Vesting"] \in PaidVestings' =>
          /\ contracts'[latest'["Vesting"]] = LastName
          /\ addresses'[LastName] # 0 \/ \A n \in VestingNames : addresses'[n] = 0
    <3>1. latest["Vesting"] = addresses[LastName] /\ addresses[LastName] # 0
      BY <1>2, Types DEF LatestKnown
    <3>2. contracts[latest["Vesting"]] = LastName
      BY <1>2, <3>1, Types DEF LedgerTrue
    <3> QED BY <1>1, <3>1, <3>2
  <2>6. ASSUME NEW i \in PaidVestings', Kept(i) PROVE addresses'[Methodology] \in PaidVestings'
    <3>1. CASE i \in PaidVestings
      <4>1. addresses[Methodology] \in PaidVestings
        BY <1>4, <2>6, <3>1 DEF PaidTogether
      <4> QED BY <1>1, <2>2, <2>3, <4>1
    <3>2. CASE i \notin PaidVestings /\ name = Methodology
      <4>1. i = to /\ to = addresses[Methodology]
        BY <1>1, <2>2, <2>3, <2>6, <3>2, Types
      <4> QED BY <1>1, <2>6, <4>1
    <3>3. CASE i \notin PaidVestings /\ name # Methodology
      <4>1. name \in VestingNames
        BY <2>2, <2>3, <2>6, <3>3
      <4>2. step \in 1..13 /\ step # 1 /\ step # 2
        <5>1. <<"multisig", 0>> \notin VestingNames
          BY DueNames, Types
        <5> QED BY <1>1, <3>3, <4>1, <5>1, TransferList DEF Transfer, Methodology
      <4>3. Made(2)
        <5>1. 2 \in 1..(step - 1)
          BY <4>2
        <5> QED BY <1>1, <1>4, <5>1 DEF ExactInvariant, Paying
      <4>4. balance[addresses[Methodology]] # 0
        <5>1. 2 \in DOMAIN Transfers /\ Transfers[2].name = Methodology /\ Methodology \in Named
          BY TransferList, Types DEF Methodology
        <5>2. Recipient(Methodology) = addresses[Methodology]
          BY <5>1, DueNames DEF Recipient
        <5> QED BY <4>3, <5>1, <5>2 DEF Made
      <4>5. addresses[Methodology] \in PaidVestings
        <5>1. Methodology \in Named /\ Methodology \in VestingNames
          BY Types
        <5>2. addresses[Methodology] \in 1..Len(contracts)
          BY <1>2, <5>1 DEF AllocationTypeOK
        <5>3. contracts[addresses[Methodology]] = Methodology
          BY <1>2, <5>1 DEF LedgerTrue
        <5> QED BY <4>4, <5>1, <5>2, <5>3 DEF PaidVestings
      <4> QED BY <1>1, <2>2, <2>3, <4>5
    <3> QED BY <3>1, <3>2, <3>3
  <2>7. ASSUME NEW i \in PaidVestings', ~Kept(i)
        PROVE  \E j \in PaidVestings' : contracts'[j] = Methodology /\ ~Kept(j)
    <3>1. i \in PaidVestings
      BY <2>2, <2>3, <2>4, <2>7
    <3>2. PICK j \in PaidVestings : contracts[j] = Methodology /\ ~Kept(j)
      BY <1>4, <2>7, <3>1 DEF PaidTogether
    <3>3. j \in PaidVestings'
      BY <2>2, <2>3, <3>2
    <3> QED BY <1>1, <3>2, <3>3
  <2>8. (\E i \in PaidVestings' : Kept(i)') => addresses'[Methodology] \in PaidVestings'
    BY <2>1, <2>6
  <2>9. (\E i \in PaidVestings' : ~Kept(i)') =>
          \E j \in PaidVestings' : contracts'[j] = Methodology /\ ~Kept(j)'
    BY <2>1, <2>7
  <2> QED BY <2>5, <2>8, <2>9 DEF PaidTogether
<1> QED BY <1>1, <1>3, <1>4 DEF ForgottenInvariant

\* Forgotten contracts, for any number of interruptions.
LEMMA ForgottenInvariantHolds == Spec => []ForgottenInvariant
<1>1. Init => ForgottenInvariant
  BY ForgottenInit
<1>2. /\ AllocationInvariant /\ ExactInvariant /\ ForgottenInvariant /\ [Next]_vars
      => ForgottenInvariant'
  BY ForgottenQuietSteps, ForgottenCreateStep, ForgottenSaveStep, ForgottenTearStep,
     ForgottenMoveStep, ForgottenSendStep DEF Next, Progress
<1> QED BY <1>1, <1>2, AllocationInvariantHolds, ExactInvariantHolds, PTL DEF Spec

\* Two contracts of a name hold no more than was sent to it.
LEMMA BothWereSent ==
  ASSUME AllocationTypeOK, Balanced, NEW i \in 1..Len(contracts), NEW j \in 1..Len(contracts),
         i # j, contracts[i] = contracts[j]
  PROVE  sent[contracts[i]] >= balance[i] + balance[j]
<1> DEFINE made == MadeFor(contracts[i])
<1>1. /\ IsFiniteSet(made) /\ i \in made /\ j \in made \ {i}
      /\ \A k \in made : balance[k] \in Nat
  <2>1. /\ made \subseteq 1..Len(contracts) /\ i \in made /\ j \in made \ {i}
        /\ Len(contracts) \in Nat
    BY DEF AllocationTypeOK, MadeFor
  <2>2. IsFiniteSet(1..Len(contracts))
    BY <2>1, FS_Interval
  <2> QED BY <2>1, <2>2, FS_Subset DEF AllocationTypeOK
<1>2. sent[contracts[i]] = SumFunctionOnSet(balance, made)
  <2>1. contracts[i] \in Named
    BY DEF AllocationTypeOK
  <2> QED BY <2>1 DEF Balanced, HeldFor
<1> DEFINE others == made \ {i}
           rest   == others \ {j}
<1>3. IsFiniteSet(others) /\ IsFiniteSet(rest)
  BY <1>1, FS_Subset
<1>4. /\ \A k \in made : balance[k] \in Int
      /\ \A k \in others : balance[k] \in Int
      /\ \A k \in rest : balance[k] \in Nat
  BY <1>1
<1>5. SumFunctionOnSet(balance, made) = balance[i] + SumFunctionOnSet(balance, others)
  <2> HIDE DEF made
  <2> QED BY <1>1, <1>4, SumRemove
<1>6. SumFunctionOnSet(balance, others) = balance[j] + SumFunctionOnSet(balance, rest)
  <2>1. j \in others
    BY <1>1
  <2> HIDE DEF others
  <2> QED BY <1>3, <1>4, <2>1, SumRemove
<1>7. SumFunctionOnSet(balance, rest) \in Nat
  <2> HIDE DEF rest
  <2> QED BY <1>3, <1>4, SumNat
<1>8. balance[i] \in Nat /\ balance[j] \in Nat
  BY <1>1
<1> HIDE DEF made, others, rest
<1> QED BY <1>2, <1>5, <1>6, <1>7, <1>8

\* Paying a second methodologist would take more than there is, so a stage that counts as
\* finished has forgotten nobody.
LEMMA FinishedLosesNothing ==
  ASSUME AllocationInvariant, ExactInvariant, ForgottenInvariant, finished, moves = 0
  PROVE  Lost = {}
<1>1. /\ AllocationTypeOK /\ LedgerTrue /\ Balanced /\ AllMade /\ LatestKnown /\ PaidTogether
  BY DEF AllocationInvariant, ExactInvariant, Paying, ForgottenInvariant
<1>2. ASSUME NEW n \in Named
      PROVE  /\ addresses[n] \in 1..Len(contracts) /\ contracts[addresses[n]] = n
             /\ balance[addresses[n]] = Worth(n) /\ sent[n] >= Worth(n)
  <2>1. addresses[n] # 0 /\ balance[addresses[n]] # 0 /\ contracts[addresses[n]] = n
    BY <1>1 DEF AllMade, LedgerTrue
  <2>2. addresses[n] \in 1..Len(contracts)
    BY <1>1, <2>1 DEF AllocationTypeOK
  <2>3. sent[n] >= balance[addresses[n]]
    BY <1>1, <2>1, <2>2, HeldWasSent
  <2> QED BY <1>1, <2>1, <2>2, <2>3 DEF Balanced
<1>3. sent \in [Named \cup {<<"multisig", 0>>} -> Nat] /\ balance[Deployer] \in Nat
  BY <1>1 DEF AllocationTypeOK, Accounts
<1>4. ASSUME NEW j \in PaidVestings, contracts[j] = Methodology, ~Kept(j) PROVE FALSE
  <2> DEFINE its     == addresses[Methodology]
             once    == [n \in Named \cup {<<"multisig", 0>>} |->
                           IF n \in Named THEN Worth(n) ELSE 0]
             further == [n \in Named \cup {<<"multisig", 0>>} |-> sent[n] - once[n]]
  <2>1. /\ Methodology \in Named /\ j \in 1..Len(contracts) /\ balance[j] # 0 /\ its # j
        /\ Worth(Methodology) = 750000
    <3>1. Worth(Methodology) = 750000
      BY DEF Worth, AmountDue, Methodology, TREASURY_INDEX_METHODOLOGY_OWNERSHIP_AMOUNT
    <3> QED BY <1>4, <3>1, Types DEF PaidVestings, Kept
  <2>2. sent[Methodology] >= 1500000
    <3>1. sent[Methodology] >= balance[j] + balance[its]
      BY <1>1, <1>2, <1>4, <2>1, BothWereSent
    <3>2. balance[j] = 750000 /\ balance[its] = 750000
      BY <1>1, <1>2, <1>4, <2>1 DEF Balanced
    <3> QED BY <3>1, <3>2
  <2>3. \A n \in Named \cup {<<"multisig", 0>>} :
          once[n] \in Nat /\ further[n] \in Nat /\ sent[n] = once[n] + further[n]
    BY <1>2, <1>3, WorthsArePositive
  <2>4. further[Methodology] >= 750000
    BY <2>1, <2>2, <1>3
  <2>5. SentInAll(once) = 9500000
    <3>1. once[<<"multisig", 0>>] = 0 /\ \A n \in Named : once[n] = Worth(n)
      BY DueNames
    <3> HIDE DEF once
    <3> QED BY <3>1, SumOfWorths
  <2> HIDE DEF further, once
  <2>6. SentInAll(sent) = SentInAll(once) + SentInAll(further)
    BY <2>3, SumOfSums
  <2>7. SentInAll(further) \in Nat /\ SentInAll(further) >= 750000
    <3>1. SentInAll(further) \in Nat /\ SentInAll(further) >= further[Methodology]
      BY <2>3, SentInAllType DEF Methodology
    <3> QED BY <2>1, <2>3, <2>4, <3>1
  <2> QED BY <1>1, <1>3, <2>5, <2>6, <2>7 DEF Balanced, IndexSupply
<1>5. ASSUME NEW i \in 1..Len(contracts), balance[i] > 0, addresses[contracts[i]] # i PROVE FALSE
  <2>1. contracts[i] \in Named
    BY <1>1 DEF AllocationTypeOK
  <2>2. CASE contracts[i] \in VestingNames
    <3>1. i \in PaidVestings /\ ~Kept(i)
      BY <1>5, <2>2 DEF PaidVestings, Kept
    <3> QED BY <1>1, <1>4, <3>1 DEF PaidTogether
  <2>3. CASE contracts[i] \notin VestingNames
    <3>1. /\ latest[TypeOf(contracts[i])] = i
          /\ latest[TypeOf(contracts[addresses[contracts[i]]])] = addresses[contracts[i]]
      BY <1>1, <1>2, <2>1, <2>3 DEF LatestKnown
    <3> QED BY <1>2, <1>5, <2>1, <3>1
  <2> QED BY <2>2, <2>3
<1>6. DOMAIN contracts = 1..Len(contracts)
  BY <1>1 DEF AllocationTypeOK
<1> QED BY <1>5, <1>6 DEF Lost

\* The state that counts as finished.
LEMMA ExactMeansAllocated ==
  ASSUME AllocationInvariant, ExactInvariant, ForgottenInvariant
  PROVE  AllocatedExactly
<1> SUFFICES ASSUME finished, moves = 0 PROVE AllAllocated
  BY DEF AllocatedExactly
<1>1. AllocationTypeOK /\ LedgerTrue /\ Balanced /\ AllMade /\ Lost = {}
  BY FinishedLosesNothing DEF AllocationInvariant, ExactInvariant, Paying
<1>2. ASSUME NEW n \in Named
      PROVE  balance[addresses[n]] = Worth(n) /\ sent[n] = Worth(n)
  <2>1. addresses[n] # 0 /\ balance[addresses[n]] # 0
    BY <1>1 DEF AllMade
  <2> QED BY <1>1, <2>1, SentIsThere
<1>3. /\ Worth(<<"multisig", 0>>) = TREASURY_IMMEDIATE_OWNERSHIP_AMOUNT
      /\ TREASURY_IMMEDIATE_OWNERSHIP_AMOUNT = 500000
  BY DEF Worth, AmountDue, TREASURY_IMMEDIATE_OWNERSHIP_AMOUNT
<1>4. /\ sent[<<"multisig", 0>>] = balance[Multisig] /\ balance[Multisig] \in Nat
      /\ balance[Deployer] \in Nat
  BY <1>1 DEF Balanced, AllocationTypeOK, Accounts
<1>5. SentInAll(sent) = 9500000 + balance[Multisig]
  BY <1>2, <1>4, SumOfWorths
<1>6. /\ HoldsItsShare(Share("multisig", 0, TREASURY_IMMEDIATE_OWNERSHIP_AMOUNT))
      /\ balance[IF Production THEN Deployer ELSE Multisig] = 0
  <2>1. balance[Multisig] = IF Production THEN TREASURY_IMMEDIATE_OWNERSHIP_AMOUNT ELSE 0
    BY <1>1 DEF Balanced, AllMade
  <2>2. balance[Deployer] + balance[Multisig] = TREASURY_IMMEDIATE_OWNERSHIP_AMOUNT
    BY <1>1, <1>3, <1>4, <1>5 DEF Balanced, IndexSupply
  <2>3. balance[Deployer] = IF Production THEN 0 ELSE TREASURY_IMMEDIATE_OWNERSHIP_AMOUNT
    BY <1>3, <1>4, <2>1, <2>2
  <2>4. balance[Recipient(<<"multisig", 0>>)] = TREASURY_IMMEDIATE_OWNERSHIP_AMOUNT
    BY <2>1, <2>3 DEF Recipient
  <2>5. /\ Share("multisig", 0, TREASURY_IMMEDIATE_OWNERSHIP_AMOUNT).name = <<"multisig", 0>>
        /\ Share("multisig", 0, TREASURY_IMMEDIATE_OWNERSHIP_AMOUNT).amount
             = TREASURY_IMMEDIATE_OWNERSHIP_AMOUNT
    BY DEF Share
  <2> QED BY <2>1, <2>3, <2>4, <2>5 DEF HoldsItsShare
<1>7. ASSUME NEW x \in Due, x.name \in Named PROVE HoldsItsShare(x)
  BY <1>2, <1>7, DueNames DEF HoldsItsShare, Recipient
<1>8. \A k \in DOMAIN Vestings : Vestings[k] \in Due /\ Vestings[k].name \in Named
  <2>1. \A t \in Seq(Due) : \A k \in DOMAIN t : t[k] \in Due
    OBVIOUS
  <2>2. \A k \in DOMAIN Vestings : Vestings[k] \in Due
    BY <2>1, VestingsAreDue
  <2> QED BY <2>2, VestingsAreNamed
<1>9. /\ Share("claims", 0, MERKLE_DISTRIBUTOR_AMOUNT).name \in Named
      /\ Share("staking", 0, UNISWAP_LP_REWARD_AMOUNT).name \in Named
  BY DEF Share, Named
<1> QED BY <1>6, <1>7, <1>8, <1>9, SingleSharesAreDue DEF AllAllocated

\* Stage 0 counts as finished only with the whole supply where the script wants it,
\* whatever was interrupted or lost before: in production the treasury has been paid and
\* nothing is left for the deployer, elsewhere the deployer still has the treasury's share.
THEOREM SupplyIsAllocated == Spec => []AllocatedExactly
<1>1. AllocationInvariant /\ ExactInvariant /\ ForgottenInvariant => AllocatedExactly
  BY ExactMeansAllocated
<1> QED BY <1>1, AllocationInvariantHolds, ExactInvariantHolds, ForgottenInvariantHolds, PTL
=============================================================================
