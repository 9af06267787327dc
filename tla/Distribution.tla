---------------------------- MODULE Distribution ----------------------------
(***************************************************************************)
(* A reward distribution from its list to the claims: parseBalanceMap      *)
(* gathers the list (ClaimMap) and makes the tree of its claims and a      *)
(* proof for each (MerkleTree); a distributor is deployed with the root,   *)
(* funded with the total, and pays a claim that comes with a proof it      *)
(* accepts.  The lists are those of RewardData and whatever Lists adds.    *)
(*                                                                         *)
(* In one behaviour the proof of one claim, target, is followed, and it is *)
(* used for one claim, the same or another; the other claims are paid with *)
(* proofs of their own, each of which is the target of other behaviours.   *)
(* The hash decides where a claim stands in the tree, so every claim is    *)
(* tried in every place.                                                   *)
(***************************************************************************)
EXTENDS ClaimMap, MerkleTree, RewardData

\* parseBalanceMap makes the tree of the claims it has.  Trees are followed for the
\* numbers of claims in Sizes, and left out for longer lists.
TreeOfList ==
  LET n == Cardinality(Strings(list))
  IN  IF n \in Sizes THEN Len(layers[1]) = n ELSE Len(layers[1]) = 1 /\ claim = target

HasTree == Cardinality(DOMAIN claims) = Len(layers[1])

\* MerkleDistributor.claim: the proof at hand is tried for one claim.
Authorized(s) == Place(s) + 1 = claim => Accepted

DistributionInit == ParseInit /\ Init /\ TreeOfList

ParseStep == Parse /\ UNCHANGED vars
TreeStep  == progress = "parsed" /\ HasTree /\ Next /\ UNCHANGED mapVars
FundStep  == (HasTree => phase = "done") /\ Fund /\ UNCHANGED vars
ClaimStep == \E s \in DOMAIN claims : Authorized(s) /\ Claim(s) /\ UNCHANGED vars

DistributionNext == ParseStep \/ TreeStep \/ FundStep \/ ClaimStep

DistributionSpec == DistributionInit /\ [][DistributionNext]_<<vars, mapVars>>

-----------------------------------------------------------------------------
(***************************************************************************)
(* Properties of the lists that are part of the program.                   *)
(***************************************************************************)
MonthlyLists ==
  {Entries(l) : l \in {NOVEMBER_MERKLE_DISTRIBUTION, DECEMBER_MERKLE_DISTRIBUTION,
                       JANUARY_MERKLE_DISTRIBUTION, FEBRUARY_MERKLE_DISTRIBUTION,
                       MARCH_MERKLE_DISTRIBUTION, APRIL_MERKLE_DISTRIBUTION,
                       MAY_MERKLE_DISTRIBUTION}}

RepositoryLists == MonthlyLists \cup {MERKLE_DISTRIBUTION}

Parsed == progress \in {"parsed", "funded"}

\* Each list of the repository parses, or every command of the tool would fail when it
\* loads the scripts, and it gives every account one claim, although the check for
\* duplicates (parseBalanceMap.ts:11) would let two spellings of one account pass.  The
\* share of the supply set aside for the first distribution is what its claims add up
\* to: the tokens sent to the distributor pay them all and none is left in it.
RepositoryListsAreClean ==
  list \in RepositoryLists =>
    /\ progress # "failed"
    /\ Parsed => Cardinality(Accounts(list)) = Len(list)
    /\ (Parsed /\ list = MERKLE_DISTRIBUTION) => TokenTotal = MERKLE_DISTRIBUTOR_AMOUNT
=============================================================================
