------------------------------- MODULE TxTask -------------------------------
(***************************************************************************)
(* The owners' tool tasks/tx.ts.  "yarn tx list, view, compare" each read  *)
(* the transactions of an outputs file and answer one question; "yarn      *)
(* console" reads the addresses once, when it starts, and answers from     *)
(* them until it is closed.  The tool writes nothing.                      *)
(***************************************************************************)
EXTENDS Multisig

CONSTANTS
  SpacedNames,  \* ledger names with a blank or a dash in them
  MaxConsoles   \* bound on consoles opened

ASSUME ConsoleAssumption == SpacedNames \subseteq Names /\ MaxConsoles \in Nat

\* A name that is also that of an artifact is given to contracts of that type.
ArtifactsNamed ==
  \A d \in Steps : (d.kind = "deploy" /\ d.name \in Types) => d.type = d.name

VARIABLES
  system,       \* systemAddresses of the open console
  consoles

consoleVars == <<system, consoles>>
txVars      == <<vars, consoleVars>>

-----------------------------------------------------------------------------
(***************************************************************************)
(* The commands of "yarn tx".                                              *)
(***************************************************************************)
\* listTxs: the records with id null; getTx wants a record with calldata.  They are
\* the same records, the deferred ones.
Listed == Pending

\* Calldata: method and arguments, not the contract it is for.
Data(call) == <<call.op, Resolve(call.subject)>>

\* What the wallet shows of a transaction it is about to sign.
WalletTransaction(call) ==
  [method |-> "execTransaction", to |-> Resolve(call.target), data |-> Data(call)]

\* extractExecTransactionData passes over the calls of other methods.
Extracted(input) == IF input.method = "execTransaction" THEN {input.data} ELSE {}

Compare(number, input) ==
  CASE number \notin Listed  -> "unknown number"
    [] Extracted(input) = {} -> "no data"
    [] Data(CallOf(outputs.transactions[number])) \in Extracted(input) -> "OK"
    [] OTHER -> "FAILED"

\* The artifacts are named by contract type; the record has the ledger's name.
View(number) ==
  CASE number \notin Listed -> "unknown number"
    [] CallOf(outputs.transactions[number]).target \notin Types -> "no artifact"
    [] OTHER -> "shown"

-----------------------------------------------------------------------------
(***************************************************************************)
(* The console.                                                            *)
(***************************************************************************)
\* getAllAddresses: the table of dependencies goes before the ledger.
AllAddresses(addresses) ==
  [n \in {m \in Names \ SpacedNames : addresses[m] # NoAddress} \cup KnownDependencies |->
     IF n \in KnownDependencies THEN KnownAddress(n) ELSE addresses[n]]

\* getAddressName: the names an address is listed under; it shows the first.
AddressNames(addresses, address) ==
  {n \in DOMAIN AllAddresses(addresses) : AllAddresses(addresses)[n] = address}

\* getDestinationMap: the names that are artifacts too, by address.  A transaction to
\* another address is not decoded (decodeTransactionData).
Decoders(addresses, address) ==
  {n \in Names \cap Types : addresses[n] = address /\ address # NoAddress}

\* "yarn console" loads the tasks, and they the addresses.
OpenConsole == /\ consoles < MaxConsoles
               /\ consoles' = consoles + 1
               /\ system' = outputs.addresses
               /\ UNCHANGED vars

TxInit == Init /\ system = EmptyOutputs.addresses /\ consoles = 0

TxNext == \/ OwnersNext /\ UNCHANGED consoleVars
          \/ OpenConsole

TxSpec == TxInit /\ [][TxNext]_txVars

\* Nobody has to open a console; the rest goes on as in Multisig.
FairTxSpec == TxSpec /\ WF_vars(Progress) /\ WF_vars(OwnersStep)

-----------------------------------------------------------------------------
(***************************************************************************)
(* Properties.                                                             *)
(***************************************************************************)
\* compare looks at the calldata and not at the contract it is sent to.  That is
\* enough: whatever the scripts have deferred, a wallet transaction for any call of
\* any script passes the comparison with a record only if the record is of that
\* call, so the owners cannot sign a call for the wrong manager.
CompareIsSound ==
  \A number \in Listed : \A call \in {s \in Steps : s.kind = "call"} :
    (Addressed(call) /\ Compare(number, WalletTransaction(call)) = "OK") =>
      LET listed == CallOf(outputs.transactions[number])
      IN  Resolve(listed.target) = Resolve(call.target)

\* A transaction is decoded with the ABI of the contract it was sent to, and under
\* one name: the ledger's names that are also names of artifacts are contracts of
\* that type.  What view shows of a deferred call has the type it takes it for.
DecodedTruly ==
  /\ \A n \in Placed : \A d \in Decoders(outputs.addresses, outputs.addresses[n]) :
       d = n /\ chain[outputs.addresses[n][2]].type = n
  /\ \A number \in Listed : View(number) = "shown" =>
       LET target == CallOf(outputs.transactions[number]).target
       IN  chain[Resolve(target)[2]].type = target

\* A console left open while scripts run knows less than the ledger, and nothing
\* that is wrong: an address it shows for a name is one that a console opened now
\* would show, and under that name among others.
ConsoleIsCurrent ==
  tornWrites = 0 => \A n \in DOMAIN AllAddresses(system) :
    n \in AddressNames(outputs.addresses, AllAddresses(system)[n])
=============================================================================
