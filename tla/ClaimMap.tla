------------------------------ MODULE ClaimMap ------------------------------
(***************************************************************************)
(* parseBalanceMap turns a list of earnings into the claims of a Merkle    *)
(* distributor: one reduce over the list that checks each entry, a sort by *)
(* address, and the claims with their indices, amounts and total.  The     *)
(* distributor is then given the total and pays claims in any order.       *)
(*                                                                         *)
(* The keys of the reduce are strings, and an address has many spellings   *)
(* (capital letters or not).  A string is the number of its place in the   *)
(* order of sort(); AccountOf(s) is the account it spells.  An amount is   *)
(* an integer, in hundredths of a token.                                   *)
(***************************************************************************)
EXTENDS Integers, Sequences, FiniteSets, Functions

CONSTANTS
  Lists,         \* the lists to parse: sequences of entries
  AccountOf(_),  \* the account a string spells
  MaxClaims      \* bound on the claims of a distributor that is funded

ASSUME ListsAssumption ==
  /\ MaxClaims \in Nat
  /\ \A l \in Lists : l \in Seq([address : Nat, earnings : Int])

VARIABLES
  list,           \* the list being parsed
  position,       \* the next entry
  dataByAddress,  \* what the reduce has gathered: string -> amount
  progress,          \* "reduce", "parsed", "failed" or "funded"
  claims,         \* string -> index and amount of its claim
  stock,          \* tokens of the distributor
  claimed,        \* isClaimed: indices that were paid
  paid            \* account -> tokens it received

distributor == <<stock, claimed, paid>>
mapVars == <<list, position, dataByAddress, progress, claims, distributor>>

-----------------------------------------------------------------------------
Entry        == list[position]
Strings(l)   == {l[k].address : k \in DOMAIN l}
Accounts(l)  == {AccountOf(s) : s \in Strings(l)}

ParseInit ==
  /\ list \in Lists
  /\ position = 1 /\ dataByAddress = <<>> /\ progress = "reduce" /\ claims = <<>>
  /\ stock = 0 /\ claimed = {} /\ paid = [a \in Accounts(list) |-> 0]

Reducing == progress = "reduce" /\ position \in DOMAIN list

Duplicate == Entry.address \in DOMAIN dataByAddress

\* Mutant: earnings of an address that is there already replace the first ones.
ReadAnyEntry ==
  /\ Reducing /\ Entry.earnings > 0
  /\ dataByAddress' = [s \in DOMAIN dataByAddress \cup {Entry.address} |->
                         IF s = Entry.address THEN Entry.earnings ELSE dataByAddress[s]]
  /\ position' = position + 1
  /\ UNCHANGED <<list, progress, claims, distributor>>

ReadEntry ==
  /\ Reducing /\ ~Duplicate /\ Entry.earnings > 0
  /\ dataByAddress' = [s \in DOMAIN dataByAddress \cup {Entry.address} |->
                         IF s = Entry.address THEN Entry.earnings ELSE dataByAddress[s]]
  /\ position' = position + 1
  /\ UNCHANGED <<list, progress, claims, distributor>>

\* "Duplicate address" or "Invalid amount for account": whoever imports the list fails.
Reject ==
  /\ Reducing /\ (Duplicate \/ Entry.earnings <= 0)
  /\ progress' = "failed"
  /\ UNCHANGED <<list, position, dataByAddress, claims, distributor>>

\* "empty tree": nothing is left to make a Merkle tree of.
RejectEmpty ==
  /\ progress = "reduce" /\ list = <<>>
  /\ progress' = "failed"
  /\ UNCHANGED <<list, position, dataByAddress, claims, distributor>>

\* The place of string s once the keys are sorted, counted from 0.
Place(s) == Cardinality({t \in DOMAIN dataByAddress : t < s})

\* The amounts of all claims, added up: each amount as often as it occurs.
TokenTotal ==
  LET amounts == Range(dataByAddress)
  IN  SumFunction([v \in amounts |->
        v * Cardinality({s \in DOMAIN dataByAddress : dataByAddress[s] = v})])

\* Mutant: capital letters do not count when the keys are sorted.
MakeClaimsByAccount ==
  /\ progress = "reduce" /\ position \notin DOMAIN list /\ list # <<>>
  /\ progress' = "parsed"
  /\ claims' = [s \in DOMAIN dataByAddress |->
       [index  |-> Cardinality({AccountOf(t) : t \in
                     {r \in DOMAIN dataByAddress : AccountOf(r) < AccountOf(s)}}),
        amount |-> dataByAddress[s]]]
  /\ UNCHANGED <<list, position, dataByAddress, distributor>>

MakeClaims ==
  /\ progress = "reduce" /\ position \notin DOMAIN list /\ list # <<>>
  /\ progress' = "parsed"
  /\ claims' = [s \in DOMAIN dataByAddress |->
                  [index |-> Place(s), amount |-> dataByAddress[s]]]
  /\ UNCHANGED <<list, position, dataByAddress, distributor>>

\* The distributor gets the tokenTotal of the parsed list ...
Fund ==
  /\ progress = "parsed" /\ Cardinality(DOMAIN claims) <= MaxClaims
  /\ progress' = "funded" /\ stock' = TokenTotal
  /\ UNCHANGED <<list, position, dataByAddress, claims, claimed, paid>>

\* ... and pays every claim once: MerkleDistributor.claim and its isClaimed.
Claim(s) ==
  /\ progress = "funded"
  /\ claims[s].index \notin claimed /\ stock >= claims[s].amount
  /\ claimed' = claimed \cup {claims[s].index}
  /\ stock' = stock - claims[s].amount
  /\ paid' = [paid EXCEPT ![AccountOf(s)] = @ + claims[s].amount]
  /\ UNCHANGED <<list, position, dataByAddress, progress, claims>>

\* What parseBalanceMap does before it makes the tree.
Parse == ReadEntry \/ Reject \/ RejectEmpty \/ MakeClaims

-----------------------------------------------------------------------------
(***************************************************************************)
(* Properties.                                                             *)
(***************************************************************************)
\* What is left to pay, what the claims of S amount to, and what account a has earned.
Unclaimed  == {s \in DOMAIN claims : claims[s].index \notin claimed}
Due(S)     == SumFunctionOnSet([s \in DOMAIN claims |-> claims[s].amount], S)
Earned(a)  == SumFunctionOnSet([k \in DOMAIN list |-> list[k].earnings],
                               {k \in DOMAIN list : AccountOf(list[k].address) = a})

\* A distributor funded with the tokenTotal of the parse can pay all its claims, in
\* whatever order they come, and is empty when it has.
NobodyIsShort ==
  progress = "funded" => stock = Due(Unclaimed)

\* No earnings are lost, whichever spellings the list uses: once the claims of an
\* account are paid it has all the list gives it.
EarningsArePaid ==
  progress = "funded" =>
    \A a \in Accounts(list) :
      paid[a] + Due({s \in Unclaimed : AccountOf(s) = a}) = Earned(a)
=============================================================================
