----------------------------- MODULE MerkleTree -----------------------------
(***************************************************************************)
(* The Merkle trees of the reward distributions: MerkleTree and            *)
(* BalanceTree of deployments/utils/merkleUtils/.  A tree is built layer   *)
(* by layer from the claims' hashes, a proof is collected for one of them, *)
(* and verifyProof is run with that proof, for the claim it belongs to or  *)
(* for another one.                                                        *)
(*                                                                         *)
(* The constructor sorts the hashes and drops duplicates, so all that is   *)
(* left of a hash is its rank: Leaf(i) is the i-th one.  sortAndConcat     *)
(* makes the hash of two nodes one of the set of both.                     *)
(***************************************************************************)
EXTENDS Integers, Sequences

CONSTANTS
  Sizes,     \* numbers of distinct claims
  Others,    \* ranks of hashes that are no claim of the tree
  Leaf(_),   \* the hash of rank i
  Hash(_)    \* keccak256 of the two nodes of a set, sorted and concatenated

ASSUME SizesAssumption  == Sizes \subseteq Nat \ {0}
ASSUME OthersAssumption == Others \subseteq Nat

VARIABLES
  phase,     \* "build", "prove", "verify" or "done"
  layers,    \* the layers built so far, the claims first
  target,    \* rank of the claim the proof is for
  claim,     \* rank of the claim it is used for
  level,     \* getProof: the layer it looks at ...
  idx,       \* ... and the position there, counted from 0
  proof,     \* the pair elements collected
  item,      \* verifyProof: the next element of the proof
  pair       \* its running hash

vars == <<phase, layers, target, claim, level, idx, proof, item, pair>>

-----------------------------------------------------------------------------
\* Mutant: only the second buffer is hashed.
CombinedSecond(first, second) == Hash({second})

\* combinedHash; the order of its arguments is that of the sort.
Combined(first, second) == Hash({first, second})

Top  == layers[Len(layers)]
Root == Top[1]

\* Mutant: a node without a partner is hashed with itself.
NextLayerDoubled(elements) ==
  [i \in 1..((Len(elements) + 1) \div 2) |->
     IF 2 * i <= Len(elements) THEN Combined(elements[2 * i - 1], elements[2 * i])
                               ELSE Combined(elements[2 * i - 1], elements[2 * i - 1])]

\* getNextLayer: a last node without a partner passes up as it is.
NextLayer(elements) ==
  [i \in 1..((Len(elements) + 1) \div 2) |->
     IF 2 * i <= Len(elements) THEN Combined(elements[2 * i - 1], elements[2 * i])
                               ELSE elements[2 * i - 1]]

\* getPairElement: the position next to idx, if the layer has one.
PairIndex   == IF idx % 2 = 0 THEN idx + 1 ELSE idx - 1
HasPair     == PairIndex < Len(layers[level])
PairElement == layers[level][PairIndex + 1]

-----------------------------------------------------------------------------
\* The claims of a distribution, one of them, and one the proof is tried on.
Init ==
  /\ \E n \in Sizes :
       /\ layers = <<[i \in 1..n |-> Leaf(i)]>>
       /\ target \in 1..n
       /\ claim \in {target} \cup Others \cup 1..n
  /\ phase = "build"
  /\ level = 1 /\ idx = 0 /\ proof = <<>>
  /\ item = 1 /\ pair = Leaf(claim)

BuildLayer ==
  /\ phase = "build" /\ Len(Top) > 1
  /\ layers' = Append(layers, NextLayer(Top))
  /\ UNCHANGED <<phase, target, claim, level, idx, proof, item, pair>>

\* The tree is complete; getProof looks up the position of the claim.
StartProof ==
  /\ phase = "build" /\ Len(Top) = 1
  /\ phase' = "prove" /\ idx' = target - 1
  /\ UNCHANGED <<layers, target, claim, level, proof, item, pair>>

\* Mutant: the place of a missing partner is filled with the node itself.
CollectAlways ==
  /\ phase = "prove" /\ level <= Len(layers)
  /\ proof' = Append(proof, IF HasPair THEN PairElement ELSE layers[level][idx + 1])
  /\ level' = level + 1 /\ idx' = idx \div 2
  /\ UNCHANGED <<phase, layers, target, claim, item, pair>>

\* One layer of getProof, the root's own included: it has no pair element.
Collect ==
  /\ phase = "prove" /\ level <= Len(layers)
  /\ proof' = IF HasPair THEN Append(proof, PairElement) ELSE proof
  /\ level' = level + 1 /\ idx' = idx \div 2
  /\ UNCHANGED <<phase, layers, target, claim, item, pair>>

StartVerify ==
  /\ phase = "prove" /\ level > Len(layers)
  /\ phase' = "verify"
  /\ UNCHANGED <<layers, target, claim, level, idx, proof, item, pair>>

VerifyItem ==
  /\ phase = "verify" /\ item <= Len(proof)
  /\ pair' = Combined(pair, proof[item])
  /\ item' = item + 1
  /\ UNCHANGED <<phase, layers, target, claim, level, idx, proof>>

EndVerify ==
  /\ phase = "verify" /\ item > Len(proof)
  /\ phase' = "done"
  /\ UNCHANGED <<layers, target, claim, level, idx, proof, item, pair>>

Next == \/ BuildLayer \/ StartProof \/ Collect \/ StartVerify
        \/ VerifyItem \/ EndVerify

Spec == Init /\ [][Next]_vars

-----------------------------------------------------------------------------
(***************************************************************************)
(* Properties.                                                             *)
(***************************************************************************)
\* pair.equals(root)
Accepted == pair = Root

\* Every claim is accepted with the proof getProof has collected for it, whatever
\* the number of claims and wherever it stands: layers with an odd number of nodes
\* leave out an element of the proof, and the verifier need not know which.
ClaimsVerify == (phase = "done" /\ claim = target) => Accepted

\* ... and no other claim, of the tree or not, is accepted with it.
NothingElseVerifies == (phase = "done" /\ claim # target) => ~Accepted

\* The tree as its definition over the n claims from lo on has it: the first claims, as
\* many as the largest power of two below n, make the left subtree.
PowerOfTwo[e \in Nat] == IF e = 0 THEN 1 ELSE 2 * PowerOfTwo[e - 1]

LargestPowerBelow(n) ==
  CHOOSE p \in {PowerOfTwo[e] : e \in 0..n} : p < n /\ n <= 2 * p

Reference[n \in Nat \ {0}] ==
  [lo \in Nat |->
     IF n = 1 THEN Leaf(lo)
     ELSE LET left == LargestPowerBelow(n)
          IN  Combined(Reference[left][lo], Reference[n - left][lo + left])]

\* Layer by layer or from the root down: it is the same tree.
RootIsReference == phase # "build" => Root = Reference[Len(layers[1])][1]
=============================================================================
