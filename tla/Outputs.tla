------------------------------ MODULE Outputs ------------------------------
(***************************************************************************)
(* The deployment ledger: the JSON document                                *)
(* deployments/outputs/<network id>-<constant>.json and the operations of  *)
(* deployments/utils/deploys/outputHelper.ts that read and write it.       *)
(*                                                                         *)
(* A document is a record with the three top-level keys of the file.  It   *)
(* stands for what returnOutputs() yields: a file that is missing, empty   *)
(* or not parseable (readJson with throws: false) reads as EmptyOutputs.   *)
(* Every operation of outputHelper.ts reads the whole document, changes it *)
(* and writes it back, so each is an operator from document to document.   *)
(*                                                                         *)
(* Left out: timestamps, constructor arguments kept for Etherscan, network *)
(* labels under "state", and the order of the keys in the file.            *)
(***************************************************************************)
EXTENDS Integers, FiniteSets, FiniteSetsExt

CONSTANTS
  NetworkConstant,    \* "production", "staging" or "development"
  Names,              \* ledger names: contracts, tokens, multisigs, pools
  KnownDependencies   \* names dependencies.ts gives this network an address for

\* The model's addresses use these tags and the names; no name is one of them.
Tags == {"", "deployer", "contract", "random"}

ASSUME NamesAssumption ==
  /\ Names \cap Tags = {}
  /\ KnownDependencies \subseteq Names

ASSUME NetworkConstantAssumption ==
  NetworkConstant \in {"production", "staging", "development"}

-----------------------------------------------------------------------------
(***************************************************************************)
(* Addresses.  A tag and a number: what matters is which of them are equal.*)
(***************************************************************************)
Address == (Tags \cup Names) \X Nat

NoAddress          == <<"", 0>>          \* the empty string of getContractAddress
Deployer           == <<"deployer", 0>>  \* namedAccounts.deployer
KnownAddress(name) == <<name, 0>>        \* an entry of dependencies.ts
ContractAt(i)      == <<"contract", i>>  \* the i-th contract of the chain
RandomAddress(i)   == <<"random", i>>    \* getRandomAddress()

-----------------------------------------------------------------------------
(***************************************************************************)
(* Transaction records.  A deferred one has id null; only a record that    *)
(* saveContractDeployment wrote has a contract address and a verified flag.*)
(* A description names the step that wrote the record; its wording, which  *)
(* is not always unique (007 and 012), is left out.                        *)
(***************************************************************************)
Operation   == {"transfer", "adapter", "caller", "operator"}
Description == (Operation \cup {"address"}) \X Names \X (Tags \cup Names)

Transaction == [deferred        : BOOLEAN,
                description     : Description,
                contractAddress : Address,
                verified        : BOOLEAN]

PlainTransaction(description) ==
  [deferred |-> FALSE, description |-> description,
   contractAddress |-> NoAddress, verified |-> FALSE]

DeferredTransaction(description) ==
  [PlainTransaction(description) EXCEPT !.deferred = TRUE]

DeploymentTransaction(description, address) ==
  [PlainTransaction(description) EXCEPT !.contractAddress = address]

-----------------------------------------------------------------------------
(***************************************************************************)
(* The document.  "addresses" is total on Names; an absent key reads as "".*)
(* The keys of "transactions" are consecutive: no record was ever skipped. *)
(***************************************************************************)
IsTransactionLog(log) == /\ IsFiniteSet(DOMAIN log)
                         /\ DOMAIN log = 0..(Cardinality(DOMAIN log) - 1)
                         /\ log \in [DOMAIN log -> Transaction]

IsDocument(o) == /\ o \in [state        : [last_deployment_stage : Nat],
                           addresses    : [Names -> Address],
                           transactions : {o.transactions}]
                 /\ IsTransactionLog(o.transactions)

EmptyOutputs == [state        |-> [last_deployment_stage |-> 0],
                 addresses    |-> [n \in Names |-> NoAddress],
                 transactions |-> <<>>]

GetContractAddress(o, name) == o.addresses[name]

\* Mutant: the ledger is asked before the table.
FindInLedgerFirst(o, name) ==
  IF name \notin KnownDependencies \/ o.addresses[name] # NoAddress
  THEN GetContractAddress(o, name) ELSE KnownAddress(name)

FindDependency(o, name) ==
  IF name \in KnownDependencies THEN KnownAddress(name)
                                ELSE GetContractAddress(o, name)

\* Mutant: the highest key, not the next one.
GetLastTransactionKey(o) ==
  IF DOMAIN o.transactions = {} THEN 0 ELSE Max(DOMAIN o.transactions)

GetNextTransactionKey(o) ==
  IF DOMAIN o.transactions = {} THEN 0 ELSE Max(DOMAIN o.transactions) + 1

AddTransaction(o, tx) ==
  LET key == GetNextTransactionKey(o)
  IN  [o EXCEPT !.transactions =
         [k \in DOMAIN o.transactions \cup {key} |->
            IF k = key THEN tx ELSE o.transactions[k]]]

SetAddress(o, name, address) == [o EXCEPT !.addresses[name] = address]

\* writeTransactionToOutputs
WriteTransaction(o, description) ==
  AddTransaction(o, PlainTransaction(description))

\* Mutant: a call is deferred twice over.
SaveDeferredTwice(o, description) ==
  AddTransaction(AddTransaction(o, DeferredTransaction(description)),
                 DeferredTransaction(description))

\* saveDeferredTransactionData
SaveDeferredTransaction(o, description) ==
  AddTransaction(o, DeferredTransaction(description))

\* saveContractDeployment: address and record in one write, only if unrecorded.
SaveContractDeployment(o, name, address, description) ==
  IF GetContractAddress(o, name) = NoAddress
    THEN AddTransaction(SetAddress(o, name, address),
                        DeploymentTransaction(description, address))
    ELSE o

\* writeStateToOutputs("last_deployment_stage", stage)
WriteStage(o, stage) == [o EXCEPT !.state.last_deployment_stage = stage]

\* getLastDeploymentStage
GetLastDeploymentStage(o) == o.state.last_deployment_stage

\* removeNetwork deletes the top-level key called name.
RemoveNetwork(o, name) == [k \in DOMAIN o \ {name} |-> o[k]]
=============================================================================
