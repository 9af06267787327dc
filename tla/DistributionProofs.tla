------------------------- MODULE DistributionProofs -------------------------
(***************************************************************************)
(* The trees of the reward distributions and the claims made on them, for  *)
(* every number of claims and every hash.  The tree is the one that the    *)
(* recursive definition builds; every claim is accepted with its own proof *)
(* and, if the hash has no collisions, with no other; the distributor      *)
(* holds what is still to be claimed, and each account has received what   *)
(* the lists published so far say it earned.                               *)
(***************************************************************************)
EXTENDS Distribution, Sums

\* The hashes of claims and of two nodes are nodes (32 bytes in the code).
Closed(Node) == /\ \A i \in Nat : Leaf(i) \in Node
                /\ \A a, b \in Node : Hash({a, b}) \in Node

\* No two claims, and no two pairs of nodes, have one hash.
NoCollisions(Node) ==
  /\ \A i, j \in Nat : Leaf(i) = Leaf(j) => i = j
  /\ \A a, b, c, d \in Node : Hash({a, b}) = Hash({c, d}) => {a, b} = {c, d}

\* Each layer is made from the one before it, and has a node.
LayersOK(Node) ==
  /\ layers \in Seq(Seq(Node))
  /\ Len(layers) >= 1
  /\ \A l \in 1..Len(layers) : Len(layers[l]) >= 1
  /\ \A l \in 1..(Len(layers) - 1) : layers[l + 1] = NextLayer(layers[l])
  /\ \A i \in 1..Len(layers[1]) : layers[1][i] = Leaf(i)
  /\ target \in 1..Len(layers[1])

\* The place of getProof: a position of the layer it looks at.
PlaceOK ==
  /\ phase \in {"build", "prove", "verify", "done"}
  /\ phase = "build" => level = 1 /\ proof = <<>> /\ item = 1 /\ pair = Leaf(claim)
  /\ phase # "build" => Len(Top) = 1
  /\ phase = "prove" => /\ level \in 1..(Len(layers) + 1) /\ item = 1 /\ pair = Leaf(claim)
                        /\ idx \in Nat
                        /\ level <= Len(layers) => idx < Len(layers[level])

\* The nodes that the elements of a proof lead through, from the claim upwards.
IsPath(path) ==
  /\ Len(path) = Len(proof) + 1
  /\ path[1] = Leaf(target)
  /\ \A k \in 1..Len(proof) : path[k + 1] = Combined(path[k], proof[k])

\* The node getProof has reached.
Reached == IF level <= Len(layers) THEN layers[level][idx + 1] ELSE Root

\* While it is collected, a proof leads to the node reached; while it is verified,
\* it leads to the root, and the running hash is on the way there.
PathOK(Node) ==
  /\ phase = "prove" =>
       /\ proof \in Seq(Node)
       /\ \E path \in Seq(Node) : IsPath(path) /\ path[Len(path)] = Reached
  /\ phase \in {"verify", "done"} =>
       /\ proof \in Seq(Node)
       /\ item \in 1..(Len(proof) + 1)
       /\ phase = "done" => item = Len(proof) + 1
       /\ \E path \in Seq(Node) : /\ IsPath(path) /\ path[Len(path)] = Root
                                  /\ claim = target => pair = path[item]

Inv(Node) == LayersOK(Node) /\ PlaceOK /\ PathOK(Node)

-----------------------------------------------------------------------------
\* The next layer has half as many nodes, rounded up.
LEMMA NextLayerType ==
  ASSUME NEW Node, Closed(Node), NEW elements \in Seq(Node), Len(elements) >= 1
  PROVE  /\ NextLayer(elements) \in Seq(Node)
         /\ Len(NextLayer(elements)) = (Len(elements) + 1) \div 2
         /\ Len(NextLayer(elements)) >= 1
<1> DEFINE n == (Len(elements) + 1) \div 2
<1>1. n \in Nat /\ n >= 1
  OBVIOUS
<1>2. \A i \in 1..n : 2 * i - 1 \in 1..Len(elements)
  OBVIOUS
<1>3. ASSUME NEW i \in 1..n PROVE NextLayer(elements)[i] \in Node
  <2>1. elements[2 * i - 1] \in Node
    BY <1>2
  <2>2. 2 * i <= Len(elements) => elements[2 * i] \in Node
    OBVIOUS
  <2> QED BY <2>1, <2>2 DEF NextLayer, Combined, Closed
<1>4. NextLayer(elements) \in [1..n -> Node]
  BY <1>3 DEF NextLayer
<1>5. NextLayer(elements) \in Seq(Node) /\ Len(NextLayer(elements)) = n
  BY <1>1, <1>4
<1> QED BY <1>1, <1>5

\* The node above position i is the hash of the node there with its pair element, or
\* the node itself if there is none.
LEMMA NodeAbove ==
  ASSUME NEW Node, NEW elements \in Seq(Node), NEW i \in Nat, i < Len(elements),
         NEW p \in Int, p = IF i % 2 = 0 THEN i + 1 ELSE i - 1
  PROVE  /\ (i \div 2) + 1 \in 1..((Len(elements) + 1) \div 2)
         /\ p < Len(elements) => p + 1 \in 1..Len(elements)
         /\ NextLayer(elements)[(i \div 2) + 1] =
              IF p < Len(elements) THEN Combined(elements[i + 1], elements[p + 1])
                                   ELSE elements[i + 1]
<1> DEFINE j == (i \div 2) + 1
<1>1. j \in 1..((Len(elements) + 1) \div 2)
  OBVIOUS
<1>2. NextLayer(elements)[j] =
        IF 2 * j <= Len(elements) THEN Combined(elements[2 * j - 1], elements[2 * j])
                                  ELSE elements[2 * j - 1]
  BY <1>1 DEF NextLayer
<1>3. CASE i % 2 = 0
  <2>1. 2 * j - 1 = i + 1 /\ 2 * j = p + 1
    BY <1>3
  <2> QED BY <1>1, <1>2, <1>3, <2>1
<1>4. CASE i % 2 # 0
  <2>1. 2 * j = i + 1 /\ 2 * j - 1 = p + 1 /\ p < Len(elements) /\ p >= 0
    BY <1>4
  <2>2. Combined(elements[p + 1], elements[i + 1]) = Combined(elements[i + 1], elements[p + 1])
    <3>1. {elements[p + 1], elements[i + 1]} = {elements[i + 1], elements[p + 1]}
      OBVIOUS
    <3> QED BY <3>1 DEF Combined
  <2> QED BY <1>1, <1>2, <2>1, <2>2
<1> QED BY <1>3, <1>4

-----------------------------------------------------------------------------
\* A new tree has one layer, the claims.
LEMMA InvInit ==
  ASSUME NEW Node, Closed(Node), Init
  PROVE  Inv(Node)
<1> USE SizesAssumption
<1>1. PICK n \in Sizes : layers = <<[i \in 1..n |-> Leaf(i)]>> /\ target \in 1..n
  BY DEF Init
<1> DEFINE leaves == [i \in 1..n |-> Leaf(i)]
<1>2. leaves \in Seq(Node) /\ Len(leaves) = n
  BY DEF Closed
<1>3. layers = <<leaves>> /\ Len(layers) = 1 /\ layers[1] = leaves
  BY <1>1
<1>4. LayersOK(Node)
  <2> HIDE DEF leaves
  <2>1. <<leaves>> \in Seq(Seq(Node))
    BY <1>2
  <2>2. \A i \in 1..n : leaves[i] = Leaf(i)
    BY DEF leaves
  <2> QED BY <1>1, <1>2, <1>3, <2>1, <2>2 DEF LayersOK
<1>5. PlaceOK /\ PathOK(Node)
  BY DEF Init, PlaceOK, PathOK
<1> QED BY <1>4, <1>5 DEF Inv

\* Only BuildLayer changes the layers.
LEMMA LayersKept ==
  ASSUME NEW Node, LayersOK(Node), UNCHANGED <<layers, target>>
  PROVE  LayersOK(Node)'
BY DEF LayersOK, NextLayer, Combined

\* A layer more is made from the top one, and is shorter.
LEMMA BuildLayerStep ==
  ASSUME NEW Node, Closed(Node), Inv(Node), BuildLayer
  PROVE  Inv(Node)'
<1> DEFINE new == NextLayer(Top)
<1>1. layers \in Seq(Seq(Node)) /\ Len(layers) \in Nat /\ Len(layers) >= 1
  BY DEF Inv, LayersOK
<1>2. Top \in Seq(Node) /\ Len(Top) >= 1
  BY <1>1 DEF Inv, LayersOK, Top
<1>3. new \in Seq(Node) /\ Len(new) >= 1
  BY <1>2, NextLayerType
<1> HIDE DEF new
<1>4. /\ layers' \in Seq(Seq(Node)) /\ Len(layers') = Len(layers) + 1
      /\ \A l \in 1..Len(layers) : layers'[l] = layers[l]
      /\ layers'[Len(layers) + 1] = new
  <2>1. layers' = Append(layers, new)
    BY DEF BuildLayer, new
  <2> QED BY <1>1, <1>3, <2>1
<1>5. LayersOK(Node)'
  <2>1. ASSUME NEW l \in 1..Len(layers') PROVE Len(layers'[l]) >= 1
    <3>1. CASE l \in 1..Len(layers)
      BY <1>4, <3>1 DEF Inv, LayersOK
    <3>2. CASE l = Len(layers) + 1
      BY <1>3, <1>4, <3>2
    <3> QED BY <1>1, <1>4, <3>1, <3>2
  <2>2. ASSUME NEW l \in 1..(Len(layers') - 1) PROVE layers'[l + 1] = NextLayer(layers'[l])
    <3>1. CASE l < Len(layers)
      <4>1. l \in 1..(Len(layers) - 1) /\ l \in 1..Len(layers) /\ l + 1 \in 1..Len(layers)
        BY <1>1, <1>4, <3>1
      <4> QED BY <1>4, <4>1 DEF Inv, LayersOK
    <3>2. CASE l = Len(layers)
      BY <1>1, <1>4, <3>2 DEF new, Top
    <3> QED BY <1>1, <1>4, <3>1, <3>2
  <2>3. layers'[1] = layers[1] /\ target' = target
    BY <1>1, <1>4 DEF BuildLayer
  <2>4. \A i \in 1..Len(layers'[1]) : layers'[1][i] = Leaf(i)
    BY <2>3 DEF Inv, LayersOK
  <2>5. target' \in 1..Len(layers'[1])
    BY <2>3 DEF Inv, LayersOK
  <2>6. Len(layers') >= 1
    BY <1>1, <1>4
  <2>7. \A l \in 1..(Len(layers') - 1) : layers'[l + 1] = NextLayer(layers'[l])
    BY <2>2
  <2>8. (\A l \in 1..(Len(layers) - 1) : layers[l + 1] = NextLayer(layers[l]))'
    BY <2>7 DEF NextLayer, Combined
  <2> QED BY <1>4, <2>1, <2>4, <2>5, <2>6, <2>8 DEF LayersOK
<1>6. PlaceOK' /\ PathOK(Node)'
  BY DEF BuildLayer, Inv, PlaceOK, PathOK
<1> QED BY <1>5, <1>6 DEF Inv

\* A proof starts at the claim's own leaf.
LEMMA StartProofStep ==
  ASSUME NEW Node, Closed(Node), Inv(Node), StartProof
  PROVE  Inv(Node)'
<1>1. LayersOK(Node)'
  BY LayersKept DEF Inv, StartProof
<1>2. /\ layers' = layers /\ phase' = "prove" /\ level' = 1 /\ idx' = target - 1
      /\ proof' = <<>> /\ item' = 1 /\ pair' = pair /\ claim' = claim /\ target' = target
      /\ Len(Top) = 1 /\ pair = Leaf(claim)
  BY DEF StartProof, Inv, PlaceOK
<1>3. layers \in Seq(Seq(Node)) /\ Len(layers) >= 1 /\ target \in 1..Len(layers[1])
      /\ layers[1][target] = Leaf(target) /\ Len(layers[1]) \in Nat
  BY DEF Inv, LayersOK
<1>4. PlaceOK'
  BY <1>2, <1>3 DEF PlaceOK, Top
<1>5. PathOK(Node)'
  <2>1. Leaf(target) \in Node
    BY <1>3 DEF Closed
  <2>2. PICK path \in Seq(Node) : Len(path) = 1 /\ path[1] = Leaf(target)
    <3>1. /\ <<Leaf(target)>> \in Seq(Node)
          /\ Len(<<Leaf(target)>>) = 1 /\ <<Leaf(target)>>[1] = Leaf(target)
      BY <2>1
    <3> QED BY <3>1
  <2>3. IsPath(path)' /\ path[Len(path)] = Reached'
    BY <1>2, <1>3, <2>2 DEF IsPath, Reached
  <2>4. (\E q \in Seq(Node) : IsPath(q) /\ q[Len(q)] = Reached)'
    BY <2>2, <2>3
  <2> QED BY <1>2, <2>4 DEF PathOK
<1> QED BY <1>1, <1>4, <1>5 DEF Inv

\* A path is continued by the node above and the pair element that leads to it.
LEMMA PathContinued ==
  ASSUME NEW Node, NEW path \in Seq(Node), NEW sibling \in Node, Closed(Node),
         proof \in Seq(Node), IsPath(path),
         proof' = Append(proof, sibling), target' = target
  PROVE  LET longer == Append(path, Combined(path[Len(path)], sibling))
         IN  /\ longer \in Seq(Node)
             /\ IsPath(longer)'
             /\ longer[Len(longer)] = Combined(path[Len(path)], sibling)
<1> DEFINE above == Combined(path[Len(path)], sibling)
           longer == Append(path, above)
<1>1. Len(path) = Len(proof) + 1 /\ Len(proof) \in Nat
  BY DEF IsPath
<1>2. above \in Node
  BY <1>1 DEF Closed, Combined
<1>3. longer \in Seq(Node) /\ Len(longer) = Len(path) + 1
  BY <1>2
<1>4. \A k \in 1..Len(path) : longer[k] = path[k]
  BY <1>2
<1>5. longer[Len(path) + 1] = above
  BY <1>2
<1>6. /\ Len(proof') = Len(proof) + 1
      /\ proof'[Len(proof) + 1] = sibling
      /\ \A k \in 1..Len(proof) : proof'[k] = proof[k]
  OBVIOUS
<1> HIDE DEF longer
<1>7. ASSUME NEW k \in 1..Len(proof') PROVE longer[k + 1] = Combined(longer[k], proof'[k])
  <2>1. CASE k <= Len(proof)
    BY <1>1, <1>4, <1>6, <2>1 DEF IsPath
  <2>2. CASE k = Len(proof) + 1
    BY <1>1, <1>4, <1>5, <1>6, <2>2
  <2> QED BY <1>1, <1>6, <2>1, <2>2
<1>8. longer[1] = Leaf(target)'
  BY <1>1, <1>4 DEF IsPath
<1>9. IsPath(longer)'
  BY <1>1, <1>3, <1>6, <1>7, <1>8 DEF IsPath, Combined
<1> QED BY <1>1, <1>3, <1>5, <1>9 DEF longer

\* The ancestor moves up; its sibling, if it has one, is added to the proof.
LEMMA CollectStep ==
  ASSUME NEW Node, Closed(Node), Inv(Node), Collect
  PROVE  Inv(Node)'
<1> DEFINE layer == layers[level]
<1>1. /\ phase = "prove" /\ level <= Len(layers) /\ phase' = phase /\ layers' = layers
      /\ target' = target /\ claim' = claim /\ item' = item /\ pair' = pair
      /\ level' = level + 1 /\ idx' = idx \div 2
      /\ proof' = IF HasPair THEN Append(proof, PairElement) ELSE proof
  BY DEF Collect
<1>2. LayersOK(Node)'
  BY <1>1, LayersKept DEF Inv
<1>3. /\ layers \in Seq(Seq(Node)) /\ Len(layers) \in Nat /\ Len(layers) >= 1
      /\ level \in 1..Len(layers) /\ idx \in Nat
      /\ layer \in Seq(Node) /\ idx < Len(layer) /\ Len(layer) \in Nat
      /\ layers[Len(layers)] \in Seq(Node) /\ Len(layers[Len(layers)]) = 1
      /\ level < Len(layers) => layers[level + 1] = NextLayer(layer)
      /\ item = 1 /\ pair = Leaf(claim)
  <2>1. layers \in Seq(Seq(Node)) /\ Len(layers) \in Nat /\ Len(layers) >= 1
    BY DEF Inv, LayersOK
  <2>2. /\ level \in 1..Len(layers) /\ idx \in Nat /\ idx < Len(layer)
        /\ item = 1 /\ pair = Leaf(claim) /\ Len(Top) = 1
    BY <1>1, <2>1 DEF Inv, PlaceOK
  <2>3. layer \in Seq(Node) /\ Len(layer) \in Nat
    BY <2>1, <2>2
  <2>4. layers[Len(layers)] \in Seq(Node) /\ Len(layers[Len(layers)]) = 1
    BY <2>1, <2>2 DEF Top
  <2>5. level < Len(layers) => layers[level + 1] = NextLayer(layer)
    <3>1. SUFFICES ASSUME level < Len(layers) PROVE layers[level + 1] = NextLayer(layer)
      OBVIOUS
    <3>2. level \in 1..(Len(layers) - 1)
      BY <2>1, <2>2, <3>1
    <3> QED BY <3>2 DEF Inv, LayersOK
  <2> QED BY <2>1, <2>2, <2>3, <2>4, <2>5
<1>4. PICK path \in Seq(Node) : IsPath(path) /\ path[Len(path)] = layer[idx + 1]
  BY <1>1, <1>3 DEF Inv, PathOK, Reached
<1>5. proof \in Seq(Node)
  BY <1>1 DEF Inv, PathOK
<1>6. PairIndex \in Int /\ PairIndex = IF idx % 2 = 0 THEN idx + 1 ELSE idx - 1
  BY <1>3 DEF PairIndex
<1> HIDE DEF layer
<1>7. /\ (idx \div 2) + 1 \in 1..((Len(layer) + 1) \div 2)
      /\ PairIndex < Len(layer) => PairIndex + 1 \in 1..Len(layer)
      /\ NextLayer(layer)[(idx \div 2) + 1] =
           IF PairIndex < Len(layer) THEN Combined(layer[idx + 1], layer[PairIndex + 1])
                                     ELSE layer[idx + 1]
  <2>1. ASSUME NEW i \in Nat, i = idx, NEW p \in Int, p = PairIndex
        PROVE  /\ (i \div 2) + 1 \in 1..((Len(layer) + 1) \div 2)
               /\ p < Len(layer) => p + 1 \in 1..Len(layer)
               /\ NextLayer(layer)[(i \div 2) + 1] =
                    IF p < Len(layer) THEN Combined(layer[i + 1], layer[p + 1])
                                      ELSE layer[i + 1]
    BY <1>3, <1>6, <2>1, NodeAbove
  <2> QED BY <1>3, <1>6, <2>1
<1>8. idx' \in Nat /\ idx' + 1 = (idx \div 2) + 1
  BY <1>1, <1>3
\* The node reached is the one above, with or without a pair element.
<1>9. Reached' = IF PairIndex < Len(layer) THEN Combined(layer[idx + 1], layer[PairIndex + 1])
                                           ELSE layer[idx + 1]
  <2>1. CASE level < Len(layers)
    <3>1. Reached' = NextLayer(layer)[(idx \div 2) + 1]
      BY <1>1, <1>3, <1>8, <2>1 DEF Reached
    <3> QED BY <1>7, <3>1
  <2>2. CASE level = Len(layers)
    <3>1. Len(layer) = 1 /\ layer = layers[Len(layers)]
      BY <1>3, <2>2 DEF layer
    <3>2. idx = 0 /\ PairIndex = 1
      BY <1>3, <1>6, <3>1
    <3>3. Reached' = layer[1]
      BY <1>1, <1>3, <2>2, <3>1 DEF Reached, Root, Top
    <3> QED BY <3>1, <3>2, <3>3
  <2> QED BY <1>3, <2>1, <2>2
<1>10. PlaceOK'
  <2>1. level' \in 1..(Len(layers) + 1)
    BY <1>1, <1>3
  <2>2. ASSUME level' <= Len(layers) PROVE idx' < Len(layers[level'])
    <3>1. layers[level'] = NextLayer(layer) /\ level < Len(layers)
      BY <1>1, <1>3, <2>2
    <3>2. Len(NextLayer(layer)) = (Len(layer) + 1) \div 2
      BY <1>3, NextLayerType
    <3> QED BY <1>1, <1>3, <1>7, <3>1, <3>2
  <2>3. Len(Top') = 1
    BY <1>1, <1>3 DEF Top
  <2> QED BY <1>1, <1>3, <1>8, <2>1, <2>2, <2>3 DEF PlaceOK
<1>11. PathOK(Node)'
  <2>1. CASE PairIndex < Len(layer)
    <3>1. PICK sibling \in Node : sibling = layer[PairIndex + 1]
      BY <1>3, <1>7, <2>1
    <3>2. proof' = Append(proof, sibling)
      BY <1>1, <2>1, <3>1 DEF HasPair, PairElement, layer
    <3>3. PICK longer \in Seq(Node) :
            IsPath(longer)' /\ longer[Len(longer)] = Combined(path[Len(path)], sibling)
      BY <1>1, <1>4, <1>5, <3>2, PathContinued
    <3>4. longer[Len(longer)] = Reached'
      BY <1>4, <1>9, <2>1, <3>1, <3>3
    <3>5. proof' \in Seq(Node)
      BY <1>5, <3>2
    <3> QED BY <1>1, <3>3, <3>4, <3>5 DEF PathOK
  <2>2. CASE ~(PairIndex < Len(layer))
    <3>1. proof' = proof
      BY <1>1, <2>2 DEF HasPair, layer
    <3>2. IsPath(path)' /\ path[Len(path)] = Reached'
      BY <1>1, <1>4, <1>9, <2>2, <3>1 DEF IsPath, Combined
    <3> QED BY <1>1, <1>5, <3>1, <3>2 DEF PathOK
  <2> QED BY <2>1, <2>2
<1> QED BY <1>2, <1>10, <1>11 DEF Inv

\* The verifier starts from the claim it is given.
LEMMA StartVerifyStep ==
  ASSUME NEW Node, Closed(Node), Inv(Node), StartVerify
  PROVE  Inv(Node)'
<1>1. LayersOK(Node)'
  BY LayersKept DEF Inv, StartVerify
<1>2. PlaceOK'
  BY DEF Inv, StartVerify, PlaceOK, Top
<1>3. PathOK(Node)'
  <2>1. PICK path \in Seq(Node) : IsPath(path) /\ path[Len(path)] = Root
    BY DEF Inv, StartVerify, PathOK, Reached, LayersOK, PlaceOK
  <2>2. proof \in Seq(Node) /\ item = 1 /\ pair = Leaf(claim)
    BY DEF Inv, StartVerify, PathOK, PlaceOK
  <2>3. claim = target => pair = path[item]
    BY <2>1, <2>2 DEF IsPath
  <2>4. IsPath(path)' /\ path[Len(path)] = Root'
    BY <2>1 DEF StartVerify, IsPath, Combined, Root, Top
  <2> QED BY <2>2, <2>3, <2>4 DEF PathOK, StartVerify
<1> QED BY <1>1, <1>2, <1>3 DEF Inv

\* The verifier's hash is the next ancestor's that has a sibling.
LEMMA VerifyItemStep ==
  ASSUME NEW Node, Closed(Node), Inv(Node), VerifyItem
  PROVE  Inv(Node)'
<1>1. LayersOK(Node)'
  BY LayersKept DEF Inv, VerifyItem
<1>2. PlaceOK'
  BY DEF Inv, VerifyItem, PlaceOK, Top
<1>3. PathOK(Node)'
  <2>1. PICK path \in Seq(Node) : /\ IsPath(path) /\ path[Len(path)] = Root
                                  /\ claim = target => pair = path[item]
    BY DEF Inv, VerifyItem, PathOK
  <2>2. proof \in Seq(Node) /\ item \in 1..Len(proof)
    BY DEF Inv, VerifyItem, PathOK
  <2>3. claim' = target' => pair' = path[item']
    BY <2>1, <2>2 DEF IsPath, VerifyItem
  <2>4. IsPath(path)' /\ path[Len(path)] = Root'
    BY <2>1 DEF VerifyItem, IsPath, Combined, Root, Top
  <2>5. phase' = "verify" /\ proof' = proof /\ item' \in 1..(Len(proof) + 1)
    BY <2>2 DEF VerifyItem
  <2> QED BY <2>2, <2>3, <2>4, <2>5 DEF PathOK
<1> QED BY <1>1, <1>2, <1>3 DEF Inv

\* The proof is used up at the root.
LEMMA EndVerifyStep ==
  ASSUME NEW Node, Closed(Node), Inv(Node), EndVerify
  PROVE  Inv(Node)'
<1>1. LayersOK(Node)'
  BY LayersKept DEF Inv, EndVerify
<1>2. PlaceOK'
  BY DEF Inv, EndVerify, PlaceOK, Top
<1>3. PathOK(Node)'
  <2>1. PICK path \in Seq(Node) : /\ IsPath(path) /\ path[Len(path)] = Root
                                  /\ claim = target => pair = path[item]
    BY DEF Inv, EndVerify, PathOK
  <2>2. proof \in Seq(Node) /\ item = Len(proof) + 1
    BY DEF Inv, EndVerify, PathOK
  <2>3. IsPath(path)' /\ path[Len(path)] = Root'
    BY <2>1 DEF EndVerify, IsPath, Combined, Root, Top
  <2> QED BY <2>1, <2>2, <2>3 DEF PathOK, EndVerify
<1> QED BY <1>1, <1>2, <1>3 DEF Inv

-----------------------------------------------------------------------------
\* The tree, the place in it and the path to the root, for every hash.
LEMMA InvHolds ==
  ASSUME NEW Node, Closed(Node)
  PROVE  Spec => []Inv(Node)
<1>1. Init => Inv(Node)
  BY InvInit
<1>2. Inv(Node) /\ [Next]_vars => Inv(Node)'
  <2> SUFFICES ASSUME Inv(Node), [Next]_vars PROVE Inv(Node)'
    OBVIOUS
  <2>1. CASE BuildLayer
    BY <2>1, BuildLayerStep
  <2>2. CASE StartProof
    BY <2>2, StartProofStep
  <2>3. CASE Collect
    BY <2>3, CollectStep
  <2>4. CASE StartVerify
    BY <2>4, StartVerifyStep
  <2>5. CASE VerifyItem
    BY <2>5, VerifyItemStep
  <2>6. CASE EndVerify
    BY <2>6, EndVerifyStep
  <2>7. CASE UNCHANGED vars
    <3>1. LayersOK(Node)'
      BY <2>7, LayersKept DEF Inv, vars
    <3>2. PlaceOK' /\ PathOK(Node)'
      BY <2>7 DEF Inv, vars, PlaceOK, PathOK, IsPath, Reached, Root, Top, Combined
    <3> QED BY <3>1, <3>2 DEF Inv
  <2> QED BY <2>1, <2>2, <2>3, <2>4, <2>5, <2>6, <2>7 DEF Next
<1> QED BY <1>1, <1>2, PTL DEF Spec

\* getProof and verifyProof agree: for any number of claims and any hash, the proof
\* collected for a claim leads verifyProof from that claim to the root.
THEOREM EveryClaimVerifies ==
  ASSUME NEW Node, Closed(Node)
  PROVE  Spec => []ClaimsVerify
<1>1. Inv(Node) => ClaimsVerify
  <2> SUFFICES ASSUME Inv(Node), phase = "done", claim = target PROVE pair = Root
    BY DEF ClaimsVerify, Accepted
  <2>1. PICK path \in Seq(Node) : IsPath(path) /\ path[Len(path)] = Root /\ pair = path[item]
    BY DEF Inv, PathOK
  <2>2. item = Len(proof) + 1
    BY DEF Inv, PathOK
  <2> QED BY <2>1, <2>2 DEF IsPath
<1> QED BY <1>1, InvHolds, PTL

-----------------------------------------------------------------------------
(***************************************************************************)
(* Other claims.                                                           *)
(***************************************************************************)
\* The running hash of another claim is beside the way from the target to the root,
\* at every element of the proof.
Beside(Node) ==
  /\ claim \in Nat
  /\ phase \in {"verify", "done"} /\ claim # target =>
       /\ pair \in Node
       /\ \A path \in Seq(Node) : IsPath(path) => pair # path[item]

\* Two different nodes make two different hashes with one and the same partner.
LEMMA StayApart ==
  ASSUME NEW Node, NoCollisions(Node), NEW a \in Node, NEW b \in Node, NEW c \in Node,
         a # b
  PROVE  Combined(a, c) # Combined(b, c)
<1>1. {a, c} # {b, c}
  OBVIOUS
<1> QED BY <1>1 DEF NoCollisions, Combined

\* A verifier with another claim never gets to the claim's ancestor.
LEMMA BesideStep ==
  ASSUME NEW Node, Closed(Node), NoCollisions(Node), Inv(Node), Beside(Node), [Next]_vars
  PROVE  Beside(Node)'
<1>1. claim' = claim /\ target' = target /\ claim \in Nat
  BY DEF Beside, Next, BuildLayer, StartProof, Collect, StartVerify, VerifyItem, EndVerify, vars
<1>2. CASE BuildLayer \/ StartProof \/ Collect
  BY <1>1, <1>2 DEF BuildLayer, StartProof, Collect, Beside
<1>3. CASE StartVerify
  <2>1. pair' = Leaf(claim) /\ item' = 1
    BY <1>3 DEF StartVerify, Inv, PlaceOK
  <2>2. target \in Nat /\ Leaf(claim) \in Node
    BY <1>1 DEF Inv, LayersOK, Closed
  <2>3. claim # target => Leaf(claim) # Leaf(target)
    BY <1>1, <2>2 DEF NoCollisions
  <2>4. \A path \in Seq(Node) : IsPath(path)' => path[1] = Leaf(target)
    BY <1>1 DEF IsPath
  <2> QED BY <1>1, <2>1, <2>2, <2>3, <2>4 DEF Beside
<1>4. CASE VerifyItem
  <2> SUFFICES ASSUME claim # target PROVE Beside(Node)'
    BY <1>1 DEF Beside
  <2>1. /\ phase = "verify" /\ item <= Len(proof) /\ proof' = proof
        /\ pair' = Combined(pair, proof[item]) /\ item' = item + 1
    BY <1>4 DEF VerifyItem
  <2>2. proof \in Seq(Node) /\ item \in 1..Len(proof) /\ proof[item] \in Node
    BY <2>1 DEF Inv, PathOK
  <2>3. pair \in Node /\ \A path \in Seq(Node) : IsPath(path) => pair # path[item]
    BY <2>1 DEF Beside
  <2>4. pair' \in Node
    BY <2>1, <2>2, <2>3 DEF Combined, Closed
  <2>5. ASSUME NEW path \in Seq(Node), IsPath(path)' PROVE pair' # path[item']
    <3>1. IsPath(path)
      BY <1>1, <2>1, <2>5 DEF IsPath, Combined
    <3>2. path[item + 1] = Combined(path[item], proof[item])
      BY <2>2, <3>1 DEF IsPath
    <3>3. path[item] \in Node /\ pair # path[item]
      BY <2>2, <2>3, <3>1 DEF IsPath
    <3> QED BY <2>1, <2>2, <2>3, <3>2, <3>3, StayApart
  <2> QED BY <1>1, <2>4, <2>5 DEF Beside
<1>5. CASE EndVerify \/ UNCHANGED vars
  <2>1. phase \in {"verify", "done"} \/ phase' = phase
    BY <1>5 DEF EndVerify, vars
  <2>2. proof' = proof /\ pair' = pair /\ item' = item
    BY <1>5 DEF EndVerify, vars
  <2>3. \A path \in Seq(Node) : IsPath(path)' => IsPath(path)
    BY <1>1, <2>2 DEF IsPath, Combined
  <2> QED BY <1>1, <2>1, <2>2, <2>3 DEF Beside
<1> QED BY <1>2, <1>3, <1>4, <1>5 DEF Next

\* verifyProof tells claims apart: the proof of one claim leads no other to the root,
\* neither one of the tree nor one that is not.
THEOREM NothingElseIsAccepted ==
  ASSUME NEW Node, Closed(Node), NoCollisions(Node)
  PROVE  Spec => []NothingElseVerifies
<1>1. Init => Beside(Node)
  BY SizesAssumption, OthersAssumption DEF Init, Beside
<1>2. Inv(Node) /\ Beside(Node) /\ [Next]_vars => Beside(Node)'
  BY BesideStep
<1>3. Inv(Node) /\ Beside(Node) => NothingElseVerifies
  <2> SUFFICES ASSUME Inv(Node), Beside(Node), phase = "done", claim # target
               PROVE  pair # Root
    BY DEF NothingElseVerifies, Accepted
  <2>1. PICK path \in Seq(Node) : IsPath(path) /\ path[Len(path)] = Root
    BY DEF Inv, PathOK
  <2>2. item = Len(proof) + 1 /\ pair # path[item]
    BY <2>1 DEF Inv, PathOK, Beside
  <2> QED BY <2>1, <2>2 DEF IsPath
<1> QED BY <1>1, <1>2, <1>3, InvHolds, PTL DEF Spec
-----------------------------------------------------------------------------
(***************************************************************************)
(* The tree of a distribution.                                             *)
(***************************************************************************)
\* g has the powers of two up to n.
PowerUpTo(g, n) == \A e \in 0..n : g[e] = IF e = 0 THEN 1 ELSE 2 * g[e - 1]

\* Two functions that double up to n agree, so the powers of two are one function.
LEMMA PowerExists ==
  \E f : f = [e \in Nat |-> IF e = 0 THEN 1 ELSE 2 * f[e - 1]]
<1> DEFINE N == {n \in Nat : \E g : PowerUpTo(g, n)}
           U == {n \in Nat : \A g, h : PowerUpTo(g, n) /\ PowerUpTo(h, n) =>
                                \A e \in 0..n : g[e] = h[e]}
<1>1. 0 \in N
  <2>1. PowerUpTo([e \in Nat |-> 1], 0)
    BY DEF PowerUpTo
  <2> QED BY <2>1
<1>2. ASSUME NEW n \in Nat, n \in N PROVE n + 1 \in N
  <2>1. PICK g : PowerUpTo(g, n)
    BY <1>2
  <2> DEFINE h == [e \in Nat |-> IF e = n + 1 THEN 2 * g[n] ELSE g[e]]
  <2>2. \A e \in 0..(n + 1) : h[e] = IF e = 0 THEN 1 ELSE 2 * h[e - 1]
    BY <2>1 DEF PowerUpTo
  <2>3. PowerUpTo(h, n + 1)
    BY <2>2 DEF PowerUpTo
  <2> HIDE DEF h
  <2> QED BY <2>3
<1>3. \A n \in Nat : n \in N
  <2> HIDE DEF N
  <2> QED BY <1>1, <1>2, NatSetInduction
<1>4. 0 \in U
  BY DEF PowerUpTo
<1>5. ASSUME NEW n \in Nat, n \in U PROVE n + 1 \in U
  <2> SUFFICES ASSUME NEW g, NEW h, PowerUpTo(g, n + 1), PowerUpTo(h, n + 1)
               PROVE  \A e \in 0..(n + 1) : g[e] = h[e]
    OBVIOUS
  <2>1. PowerUpTo(g, n) /\ PowerUpTo(h, n)
    BY DEF PowerUpTo
  <2>2. \A e \in 0..n : g[e] = h[e]
    BY <1>5, <2>1
  <2>3. g[n + 1] = 2 * g[n] /\ h[n + 1] = 2 * h[n]
    BY DEF PowerUpTo
  <2> QED BY <2>2, <2>3
<1>6. \A n \in Nat : n \in U
  <2> HIDE DEF U
  <2> QED BY <1>4, <1>5, NatSetInduction
<1> DEFINE G(n) == CHOOSE g : PowerUpTo(g, n)
           f    == [e \in Nat |-> G(e)[e]]
<1>7. \A n \in Nat : PowerUpTo(G(n), n)
  <2> SUFFICES ASSUME NEW n \in Nat PROVE PowerUpTo(G(n), n)
    OBVIOUS
  <2>1. \E g : PowerUpTo(g, n)
    BY <1>3
  <2> QED BY <2>1, Zenon
<1> HIDE DEF G
<1>8. ASSUME NEW e \in Nat PROVE f[e] = IF e = 0 THEN 1 ELSE 2 * f[e - 1]
  <2>1. CASE e = 0
    BY <1>7, <2>1 DEF PowerUpTo
  <2>2. CASE e # 0
    <3>1. e - 1 \in Nat
      BY <2>2
    <3>2. G(e)[e] = 2 * G(e)[e - 1]
      BY <1>7, <2>2 DEF PowerUpTo
    <3>3. PowerUpTo(G(e), e - 1) /\ PowerUpTo(G(e - 1), e - 1)
      BY <1>7, <3>1 DEF PowerUpTo
    <3>4. G(e)[e - 1] = G(e - 1)[e - 1]
      <4>1. e - 1 \in U
        BY <1>6, <3>1
      <4>2. \A a, b : PowerUpTo(a, e - 1) /\ PowerUpTo(b, e - 1) =>
                        \A k \in 0..(e - 1) : a[k] = b[k]
        BY <4>1
      <4>3. e - 1 \in 0..(e - 1)
        BY <3>1
      <4> QED BY <3>3, <4>2, <4>3
    <3> QED BY <2>2, <3>1, <3>2, <3>4
  <2> QED BY <2>1, <2>2
<1>9. f = [e \in Nat |-> IF e = 0 THEN 1 ELSE 2 * f[e - 1]]
  BY <1>8
<1> HIDE DEF f
<1> QED BY <1>9

\* The powers of two double.
LEMMA PowerUnfolds ==
  /\ PowerOfTwo[0] = 1
  /\ \A e \in Nat : PowerOfTwo[e + 1] = 2 * PowerOfTwo[e]
<1>1. PowerOfTwo = [e \in Nat |-> IF e = 0 THEN 1 ELSE 2 * PowerOfTwo[e - 1]]
  BY PowerExists, Zenon DEF PowerOfTwo
<1>2. \A e \in Nat : PowerOfTwo[e] = IF e = 0 THEN 1 ELSE 2 * PowerOfTwo[e - 1]
  BY <1>1
<1> QED BY <1>2

\* Powers of two are positive, more than their exponent, and at least double each other.
LEMMA PowerBounds ==
  /\ \A e \in Nat : PowerOfTwo[e] \in Nat /\ PowerOfTwo[e] > e
  /\ \A d, e \in Nat : d < e => 2 * PowerOfTwo[d] <= PowerOfTwo[e]
<1> DEFINE N == {n \in Nat : PowerOfTwo[n] \in Nat /\ PowerOfTwo[n] > n}
           M == {n \in Nat : \A d \in Nat : d < n => 2 * PowerOfTwo[d] <= PowerOfTwo[n]}
<1>1. 0 \in N /\ \A n \in Nat : n \in N => n + 1 \in N
  BY PowerUnfolds
<1>2. \A n \in Nat : n \in N
  <2> HIDE DEF N
  <2> QED BY <1>1, NatSetInduction
<1>3. 0 \in M
  OBVIOUS
<1>4. ASSUME NEW n \in Nat, n \in M PROVE n + 1 \in M
  <2> SUFFICES ASSUME NEW d \in Nat, d < n + 1 PROVE 2 * PowerOfTwo[d] <= PowerOfTwo[n + 1]
    OBVIOUS
  <2>1. PowerOfTwo[n + 1] = 2 * PowerOfTwo[n] /\ PowerOfTwo[n] \in Nat /\ PowerOfTwo[d] \in Nat
    BY <1>2, PowerUnfolds
  <2>2. CASE d = n
    BY <2>1, <2>2
  <2>3. CASE d < n
    <3>1. 2 * PowerOfTwo[d] <= PowerOfTwo[n]
      BY <1>4, <2>3
    <3> QED BY <2>1, <3>1
  <2> QED BY <2>2, <2>3
<1>5. \A n \in Nat : n \in M
  <2> HIDE DEF M
  <2> QED BY <1>3, <1>4, NatSetInduction
<1> QED BY <1>2, <1>5

\* The largest power of two below n is the only one of which n is at most the double.
LEMMA LargestPowerIs ==
  ASSUME NEW e \in Nat, NEW n \in Nat, PowerOfTwo[e] < n, n <= 2 * PowerOfTwo[e]
  PROVE  LargestPowerBelow(n) = PowerOfTwo[e]
<1> DEFINE P == {PowerOfTwo[d] : d \in 0..n}
<1>1. PowerOfTwo[e] \in P
  <2>1. e \in 0..n
    BY PowerBounds
  <2> QED BY <2>1
<1>2. ASSUME NEW d \in 0..n, PowerOfTwo[d] < n, n <= 2 * PowerOfTwo[d]
      PROVE  PowerOfTwo[d] = PowerOfTwo[e]
  <2>1. PowerOfTwo[d] \in Nat /\ PowerOfTwo[e] \in Nat /\ d \in Nat
    BY PowerBounds
  <2>2. CASE d < e
    <3>1. 2 * PowerOfTwo[d] <= PowerOfTwo[e]
      BY <2>1, <2>2, PowerBounds
    <3> QED BY <1>2, <2>1, <3>1
  <2>3. CASE e < d
    <3>1. 2 * PowerOfTwo[e] <= PowerOfTwo[d]
      BY <2>1, <2>3, PowerBounds
    <3> QED BY <1>2, <2>1, <3>1
  <2>4. CASE d = e
    BY <2>4
  <2> QED BY <2>1, <2>2, <2>3, <2>4
<1>3. \A p \in P : (p < n /\ n <= 2 * p) => p = PowerOfTwo[e]
  BY <1>2
<1> HIDE DEF P
<1>4. (CHOOSE p \in P : p < n /\ n <= 2 * p) = PowerOfTwo[e]
  BY <1>1, <1>3
<1> QED BY <1>4 DEF LargestPowerBelow, P

\* A number from two on has such a power of two.
LEMMA PowerFits ==
  \A n \in Nat : n >= 2 => \E e \in Nat : PowerOfTwo[e] < n /\ n <= 2 * PowerOfTwo[e]
<1> DEFINE N == {n \in Nat : \E e \in Nat :
                   PowerOfTwo[e] < n + 2 /\ n + 2 <= 2 * PowerOfTwo[e]}
<1>1. 0 \in N
  BY PowerUnfolds
<1>2. ASSUME NEW n \in Nat, n \in N PROVE n + 1 \in N
  <2>1. PICK e \in Nat : PowerOfTwo[e] < n + 2 /\ n + 2 <= 2 * PowerOfTwo[e]
    BY <1>2
  <2>2. PowerOfTwo[e] \in Nat /\ PowerOfTwo[e + 1] = 2 * PowerOfTwo[e] /\ e + 1 \in Nat
    BY PowerBounds, PowerUnfolds
  <2>3. CASE n + 3 <= 2 * PowerOfTwo[e]
    BY <2>1, <2>2, <2>3
  <2>4. CASE n + 2 = 2 * PowerOfTwo[e]
    <3>1. PowerOfTwo[e + 1] < n + 3 /\ n + 3 <= 2 * PowerOfTwo[e + 1]
      BY <2>1, <2>2, <2>4
    <3> QED BY <2>2, <3>1
  <2> QED BY <2>1, <2>2, <2>3, <2>4
<1>3. \A n \in Nat : n \in N
  <2> HIDE DEF N
  <2> QED BY <1>1, <1>2, NatSetInduction
<1> SUFFICES ASSUME NEW n \in Nat, n >= 2
             PROVE  \E e \in Nat : PowerOfTwo[e] < n /\ n <= 2 * PowerOfTwo[e]
  OBVIOUS
<1>4. n - 2 \in N
  BY <1>3
<1> QED BY <1>4

\* The left subtree has at least one claim and leaves at least one.
LEMMA SplitIsProper ==
  ASSUME NEW n \in Nat, n >= 2
  PROVE  /\ LargestPowerBelow(n) \in 1..(n - 1)
         /\ n - LargestPowerBelow(n) \in 1..(n - 1)
<1>1. PICK e \in Nat : PowerOfTwo[e] < n /\ n <= 2 * PowerOfTwo[e]
  BY PowerFits
<1>2. LargestPowerBelow(n) = PowerOfTwo[e] /\ PowerOfTwo[e] \in Nat /\ PowerOfTwo[e] > 0
  BY <1>1, LargestPowerIs, PowerBounds
<1> QED BY <1>1, <1>2

\* The tree of n claims, from the trees g of fewer claims.
TreeFrom(g, n) ==
  [lo \in Nat |->
     IF n = 1 THEN Leaf(lo)
     ELSE Combined(g[LargestPowerBelow(n)][lo],
                   g[n - LargestPowerBelow(n)][lo + LargestPowerBelow(n)])]

TreesUpTo(g, n) == \A m \in 1..n : g[m] = TreeFrom(g, m)

\* It depends on the trees of fewer claims only.
LEMMA TreeFromFewer ==
  ASSUME NEW n \in Nat \ {0}, NEW g, NEW h, \A m \in 1..(n - 1) : g[m] = h[m]
  PROVE  TreeFrom(g, n) = TreeFrom(h, n)
<1>1. CASE n = 1
  BY <1>1 DEF TreeFrom
<1>2. CASE n >= 2
  <2> DEFINE p == LargestPowerBelow(n)
  <2>1. p \in 1..(n - 1) /\ n - p \in 1..(n - 1)
    BY <1>2, SplitIsProper
  <2> HIDE DEF p
  <2>2. g[p] = h[p] /\ g[n - p] = h[n - p]
    BY <2>1
  <2>3. \A lo \in Nat : Combined(g[p][lo], g[n - p][lo + p]) = Combined(h[p][lo], h[n - p][lo + p])
    BY <2>2
  <2> QED BY <1>2, <2>3 DEF TreeFrom, p
<1> QED BY <1>1, <1>2

\* Trees of less than n claims determine those of n.
LEMMA ReferenceExists ==
  \E f : f = [n \in Nat \ {0} |-> TreeFrom(f, n)]
<1> DEFINE N == {n \in Nat : \E g : TreesUpTo(g, n)}
           U == {n \in Nat : \A g, h : TreesUpTo(g, n) /\ TreesUpTo(h, n) =>
                                \A m \in 1..n : g[m] = h[m]}
<1>1. 0 \in N
  BY DEF TreesUpTo
<1>2. ASSUME NEW n \in Nat, n \in N PROVE n + 1 \in N
  <2>1. PICK g : TreesUpTo(g, n)
    BY <1>2
  <2> DEFINE h == [m \in Nat \ {0} |-> IF m = n + 1 THEN TreeFrom(g, n + 1) ELSE g[m]]
  <2>2. \A m \in 1..n : h[m] = g[m]
    OBVIOUS
  <2>3. h[n + 1] = TreeFrom(g, n + 1)
    OBVIOUS
  <2> HIDE DEF h
  <2>4. \A m \in 1..(n + 1) : TreeFrom(h, m) = TreeFrom(g, m)
    <3> SUFFICES ASSUME NEW m \in 1..(n + 1) PROVE TreeFrom(h, m) = TreeFrom(g, m)
      OBVIOUS
    <3>1. m \in Nat \ {0} /\ \A k \in 1..(m - 1) : h[k] = g[k]
      BY <2>2
    <3> QED BY <3>1, TreeFromFewer
  <2>5. TreesUpTo(h, n + 1)
    <3> SUFFICES ASSUME NEW m \in 1..(n + 1) PROVE h[m] = TreeFrom(h, m)
      BY DEF TreesUpTo
    <3>1. CASE m = n + 1
      BY <2>3, <2>4, <3>1
    <3>2. CASE m \in 1..n
      BY <2>1, <2>2, <2>4, <3>2 DEF TreesUpTo
    <3> QED BY <3>1, <3>2
  <2> QED BY <2>5
<1>3. \A n \in Nat : n \in N
  <2> HIDE DEF N
  <2> QED BY <1>1, <1>2, NatSetInduction
<1>4. 0 \in U
  OBVIOUS
<1>5. ASSUME NEW n \in Nat, n \in U PROVE n + 1 \in U
  <2> SUFFICES ASSUME NEW g, NEW h, TreesUpTo(g, n + 1), TreesUpTo(h, n + 1)
               PROVE  \A m \in 1..(n + 1) : g[m] = h[m]
    OBVIOUS
  <2>1. TreesUpTo(g, n) /\ TreesUpTo(h, n)
    BY DEF TreesUpTo
  <2>2. \A m \in 1..n : g[m] = h[m]
    BY <1>5, <2>1
  <2>3. TreeFrom(g, n + 1) = TreeFrom(h, n + 1)
    <3>1. n + 1 \in Nat \ {0} /\ \A k \in 1..((n + 1) - 1) : g[k] = h[k]
      BY <2>2
    <3> QED BY <3>1, TreeFromFewer
  <2>4. g[n + 1] = h[n + 1]
    BY <2>3 DEF TreesUpTo
  <2> QED BY <2>2, <2>4
<1>6. \A n \in Nat : n \in U
  <2> HIDE DEF U
  <2> QED BY <1>4, <1>5, NatSetInduction
<1> DEFINE G(n) == CHOOSE g : TreesUpTo(g, n)
           f    == [n \in Nat \ {0} |-> G(n)[n]]
<1>7. \A n \in Nat : TreesUpTo(G(n), n)
  <2> SUFFICES ASSUME NEW n \in Nat PROVE TreesUpTo(G(n), n)
    OBVIOUS
  <2>1. \E g : TreesUpTo(g, n)
    BY <1>3
  <2> QED BY <2>1, Zenon
<1> HIDE DEF G
<1>8. ASSUME NEW n \in Nat \ {0} PROVE f[n] = TreeFrom(f, n)
  <2>1. f[n] = TreeFrom(G(n), n)
    BY <1>7 DEF TreesUpTo
  <2>2. ASSUME NEW m \in 1..(n - 1) PROVE G(n)[m] = f[m]
    <3>1. m \in Nat \ {0} /\ f[m] = G(m)[m]
      OBVIOUS
    <3>2. TreesUpTo(G(n), m) /\ TreesUpTo(G(m), m)
      BY <1>7, <3>1 DEF TreesUpTo
    <3>3. \A a, b : TreesUpTo(a, m) /\ TreesUpTo(b, m) => \A k \in 1..m : a[k] = b[k]
      <4>1. m \in U
        BY <1>6, <3>1
      <4> QED BY <4>1
    <3>4. G(n)[m] = G(m)[m]
      BY <3>1, <3>2, <3>3
    <3> QED BY <3>1, <3>4
  <2> HIDE DEF f
  <2>3. TreeFrom(G(n), n) = TreeFrom(f, n)
    BY <2>2, TreeFromFewer
  <2> QED BY <2>1, <2>3
<1>9. f = [n \in Nat \ {0} |-> TreeFrom(f, n)]
  <2> DEFINE g == [n \in Nat \ {0} |-> TreeFrom(f, n)]
  <2>1. \A n \in Nat \ {0} : f[n] = g[n]
    <3> HIDE DEF f
    <3> QED BY <1>8
  <2>2. f = [n \in Nat \ {0} |-> f[n]]
    OBVIOUS
  <2> HIDE DEF f
  <2> QED BY <2>1, <2>2
<1> HIDE DEF f
<1> QED BY <1>9

\* A tree is the combination of the trees of its two parts.
LEMMA ReferenceUnfolds ==
  /\ \A lo \in Nat : Reference[1][lo] = Leaf(lo)
  /\ \A n \in Nat, lo \in Nat : n >= 2 =>
       Reference[n][lo] = LET left == LargestPowerBelow(n)
                          IN  Combined(Reference[left][lo], Reference[n - left][lo + left])
<1>1. Reference = [n \in Nat \ {0} |-> TreeFrom(Reference, n)]
  <2> DEFINE Eq(f) == f = [n \in Nat \ {0} |-> TreeFrom(f, n)]
  <2>1. Eq(CHOOSE f : Eq(f))
    BY ReferenceExists, Zenon
  <2>2. Reference = CHOOSE f : Eq(f)
    BY Zenon DEF Reference, TreeFrom
  <2> QED BY <2>1, <2>2, Zenon
<1>2. \A n \in Nat \ {0} : Reference[n] = TreeFrom(Reference, n)
  BY <1>1
<1>3. \A lo \in Nat : Reference[1][lo] = Leaf(lo)
  <2>1. Reference[1] = TreeFrom(Reference, 1)
    BY <1>2
  <2> QED BY <2>1 DEF TreeFrom
<1>4. ASSUME NEW n \in Nat, NEW lo \in Nat, n >= 2
      PROVE  Reference[n][lo] = LET left == LargestPowerBelow(n)
                                IN  Combined(Reference[left][lo], Reference[n - left][lo + left])
  <2>1. Reference[n] = TreeFrom(Reference, n)
    BY <1>2, <1>4
  <2>2. TreeFrom(Reference, n)[lo] =
          Combined(Reference[LargestPowerBelow(n)][lo],
                   Reference[n - LargestPowerBelow(n)][lo + LargestPowerBelow(n)])
    BY <1>4 DEF TreeFrom
  <2> QED BY <2>1, <2>2
<1> QED BY <1>3, <1>4

\* What positions come to when a layer of trees of q claims is halved.
LEMMA Halving ==
  ASSUME NEW j \in Int, NEW q \in Int
  PROVE  /\ ((2 * j - 1) - 1) * q = (j - 1) * (2 * q)
         /\ (2 * j - 1) * q = (j - 1) * (2 * q) + q
         /\ (2 * j) * q = (j - 1) * (2 * q) + 2 * q
         /\ j * (2 * q) = (j - 1) * (2 * q) + 2 * q
         /\ (j - 1) * (2 * q) \in Int
OBVIOUS

\* For the solver, which has no products of variables.
LEMMA TimesMonotonic ==
  ASSUME NEW x \in Int, NEW y \in Int, NEW q \in Nat, x <= y
  PROVE  x * q <= y * q
<1>1. y = x + (y - x) /\ y - x \in Nat
  OBVIOUS
<1>2. \A d \in Nat : (x + d) * q = x * q + d * q /\ d * q >= 0
  OBVIOUS
<1> QED BY <1>1, <1>2

\* Node i of a layer is the reference tree of the next q claims of n, the last node that
\* of the claims that are left.
SizeAt(i, q, n) == IF i * q <= n THEN q ELSE n - (i - 1) * q

LayerIs(layer, q, n) ==
  /\ (Len(layer) - 1) * q < n /\ n <= Len(layer) * q
  /\ \A i \in 1..Len(layer) : layer[i] = Reference[SizeAt(i, q, n)][(i - 1) * q + 1]

\* Combining neighbours makes trees of twice as many claims, the last node apart.
LEMMA NextLayerIs ==
  ASSUME NEW Node, NEW elements \in Seq(Node), Len(elements) >= 1,
         NEW e \in Nat, NEW n \in Nat, LayerIs(elements, PowerOfTwo[e], n)
  PROVE  LayerIs(NextLayer(elements), PowerOfTwo[e + 1], n)
<1> DEFINE q   == PowerOfTwo[e]
           len == Len(elements)
           new == NextLayer(elements)
           m   == (len + 1) \div 2
<1>1. q \in Nat /\ q > 0 /\ PowerOfTwo[e + 1] = 2 * q
  <2>1. q \in Nat /\ q > e
    BY PowerBounds
  <2>2. PowerOfTwo[e + 1] = 2 * q
    BY PowerUnfolds
  <2> HIDE DEF q
  <2> QED BY <2>1, <2>2
<1>2. len \in Nat /\ len >= 1 /\ m \in Nat /\ m >= 1 /\ (len = 2 * m \/ len = 2 * m - 1)
  OBVIOUS
<1>3. DOMAIN new = 1..m /\ Len(new) = m
  BY <1>2 DEF NextLayer
<1>4. (len - 1) * q < n /\ n <= len * q
  BY DEF LayerIs
<1>5. \A i \in 1..len : elements[i] = Reference[SizeAt(i, q, n)][(i - 1) * q + 1]
  BY DEF LayerIs
<1>6. \A j \in 1..m :
        new[j] = IF 2 * j <= len THEN Combined(elements[2 * j - 1], elements[2 * j])
                                 ELSE elements[2 * j - 1]
  BY DEF NextLayer
<1> HIDE DEF q, len, new, m
<1>7. (m - 1) * (2 * q) < n /\ n <= m * (2 * q)
  <2> DEFINE X == (m - 1) * (2 * q)
  <2>1. /\ ((2 * m - 1) - 1) * q = X /\ (2 * m - 1) * q = X + q /\ (2 * m) * q = X + 2 * q
        /\ m * (2 * q) = X + 2 * q /\ X \in Int
    BY <1>1, <1>2, Halving
  <2>2. CASE len = 2 * m
    <3>1. (len - 1) * q = X + q /\ len * q = X + 2 * q
      BY <2>1, <2>2
    <3> HIDE DEF X
    <3> QED BY <1>1, <1>4, <2>1, <3>1 DEF X
  <2>3. CASE len = 2 * m - 1
    <3>1. (len - 1) * q = X /\ len * q = X + q
      BY <2>1, <2>3
    <3> HIDE DEF X
    <3> QED BY <1>1, <1>4, <2>1, <3>1 DEF X
  <2> QED BY <1>2, <2>2, <2>3
<1>8. ASSUME NEW j \in 1..m PROVE new[j] = Reference[SizeAt(j, 2 * q, n)][(j - 1) * (2 * q) + 1]
  <2> DEFINE X == (j - 1) * (2 * q)
  <2>1. /\ ((2 * j - 1) - 1) * q = X /\ (2 * j - 1) * q = X + q /\ (2 * j) * q = X + 2 * q
        /\ j * (2 * q) = X + 2 * q /\ X \in Int
    BY <1>1, Halving
  <2>2. X \in Nat
    <3>1. j - 1 \in Nat /\ 2 * q \in Nat
      BY <1>1
    <3> QED BY <3>1
  <2>3. 2 * j - 1 \in 1..len
    BY <1>2
  <2>4. elements[2 * j - 1] = Reference[SizeAt(2 * j - 1, q, n)][X + 1]
    BY <1>5, <2>1, <2>3
  <2>5. SizeAt(2 * j - 1, q, n) = IF X + q <= n THEN q ELSE n - X
    BY <2>1 DEF SizeAt
  <2>6. SizeAt(j, 2 * q, n) = IF X + 2 * q <= n THEN 2 * q ELSE n - X
    BY <2>1 DEF SizeAt
  <2> HIDE DEF X
  <2>7. CASE 2 * j <= len
    <3>1. X + q < n
      <4>1. (2 * j - 1) * q <= (len - 1) * q
        BY <1>1, <1>2, <2>7, TimesMonotonic
      <4>2. (len - 1) * q \in Int
        BY <1>1, <1>2
      <4> QED BY <1>1, <1>4, <2>1, <4>1, <4>2
    <3> DEFINE r == IF X + 2 * q <= n THEN q ELSE n - (X + q)
    <3>2. 2 * j \in 1..len
      BY <1>2, <2>7
    <3>3. elements[2 * j] = Reference[SizeAt(2 * j, q, n)][(2 * j - 1) * q + 1]
      BY <1>5, <3>2
    <3>4. SizeAt(2 * j, q, n) = r
      BY <2>1 DEF SizeAt
    <3>5. elements[2 * j] = Reference[r][X + q + 1]
      <4> HIDE DEF r
      <4> QED BY <2>1, <3>3, <3>4
    <3>6. elements[2 * j - 1] = Reference[q][X + 1]
      BY <1>1, <2>1, <2>4, <2>5, <3>1
    <3>7. r \in Nat /\ r >= 1 /\ r <= q /\ SizeAt(j, 2 * q, n) = q + r
      BY <1>1, <2>2, <2>6, <3>1
    <3> HIDE DEF r
    <3> DEFINE t == q + r
    <3>8. t \in Nat /\ t >= 2 /\ q < t /\ t <= 2 * q /\ t - q = r
      BY <1>1, <3>7
    <3> HIDE DEF t
    <3>9. LargestPowerBelow(t) = q
      BY <3>8, LargestPowerIs DEF q
    <3>10. Reference[t][X + 1] = Combined(Reference[q][X + 1], Reference[t - q][(X + 1) + q])
      <4>1. X + 1 \in Nat
        BY <2>2
      <4> QED BY <3>8, <3>9, <4>1, ReferenceUnfolds
    <3>11. (X + 1) + q = X + q + 1
      BY <1>1, <2>2
    <3>12. new[j] = Combined(elements[2 * j - 1], elements[2 * j])
      BY <1>6, <2>7
    <3>13. new[j] = Reference[t][X + 1]
      BY <3>5, <3>6, <3>8, <3>10, <3>11, <3>12
    <3> QED BY <3>7, <3>13 DEF t, X
  <2>8. CASE 2 * j > len
    <3>1. len = 2 * j - 1
      BY <1>2, <2>8
    <3>2. n <= X + q /\ X < n
      BY <1>4, <2>1, <3>1
    <3>3. SizeAt(2 * j - 1, q, n) = SizeAt(j, 2 * q, n)
      BY <1>1, <2>2, <2>5, <2>6, <3>2
    <3>4. new[j] = elements[2 * j - 1]
      BY <1>2, <1>6, <2>8
    <3> QED BY <2>4, <3>3, <3>4 DEF X
  <2> QED BY <1>2, <2>7, <2>8
<1>9. LayerIs(new, 2 * q, n)
  BY <1>3, <1>7, <1>8 DEF LayerIs
<1> QED BY <1>1, <1>9 DEF new

\* Layer l + 1 has the trees of 2^l claims each.
LEMMA LayersAreTrees ==
  ASSUME NEW Node, LayersOK(Node)
  PROVE  \A l \in 1..Len(layers) : LayerIs(layers[l], PowerOfTwo[l - 1], Len(layers[1]))
<1> DEFINE n == Len(layers[1])
           N == {h \in Nat : h + 1 <= Len(layers) => LayerIs(layers[h + 1], PowerOfTwo[h], n)}
<1>1. /\ layers \in Seq(Seq(Node)) /\ Len(layers) \in Nat /\ Len(layers) >= 1
      /\ layers[1] \in Seq(Node) /\ n \in Nat /\ n >= 1
      /\ \A i \in 1..n : layers[1][i] = Leaf(i)
  BY DEF LayersOK
<1>2. 0 \in N
  <2>1. LayerIs(layers[1], 1, n)
    <3>1. (n - 1) * 1 < n /\ n <= n * 1
      BY <1>1
    <3>2. ASSUME NEW i \in 1..n PROVE layers[1][i] = Reference[SizeAt(i, 1, n)][(i - 1) * 1 + 1]
      <4>1. i * 1 <= n /\ (i - 1) * 1 + 1 = i /\ i \in Nat
        BY <1>1
      <4>2. SizeAt(i, 1, n) = 1
        BY <4>1 DEF SizeAt
      <4> QED BY <1>1, <4>1, <4>2, ReferenceUnfolds
    <3> QED BY <3>1, <3>2 DEF LayerIs
  <2> QED BY <2>1, PowerUnfolds
<1>3. ASSUME NEW h \in Nat, h \in N PROVE h + 1 \in N
  <2> SUFFICES ASSUME h + 2 <= Len(layers)
               PROVE  LayerIs(layers[h + 2], PowerOfTwo[h + 1], n)
    OBVIOUS
  <2>1. h + 1 \in 1..(Len(layers) - 1) /\ h + 1 \in 1..Len(layers) /\ (h + 1) + 1 = h + 2
    BY <1>1
  <2>2. layers[h + 2] = NextLayer(layers[h + 1])
    BY <2>1 DEF LayersOK
  <2>3. layers[h + 1] \in Seq(Node) /\ Len(layers[h + 1]) >= 1
    BY <1>1, <2>1 DEF LayersOK
  <2>4. LayerIs(layers[h + 1], PowerOfTwo[h], n)
    BY <1>3, <2>1
  <2> QED BY <1>1, <2>2, <2>3, <2>4, NextLayerIs
<1>4. \A h \in Nat : h \in N
  <2> HIDE DEF N
  <2> QED BY <1>2, <1>3, NatSetInduction
<1> SUFFICES ASSUME NEW l \in 1..Len(layers)
             PROVE  LayerIs(layers[l], PowerOfTwo[l - 1], n)
  OBVIOUS
<1>5. l - 1 \in N /\ (l - 1) + 1 = l
  BY <1>1, <1>4
<1> QED BY <1>5

\* The root of a tree built layer by layer is that of the tree split at the largest
\* power of two: for any number of claims and any hash.
THEOREM TreeIsReference ==
  ASSUME NEW Node, Closed(Node)
  PROVE  Spec => []RootIsReference
<1>1. Inv(Node) => RootIsReference
  <2> SUFFICES ASSUME Inv(Node), phase # "build"
               PROVE  Root = Reference[Len(layers[1])][1]
    BY DEF RootIsReference
  <2> DEFINE n == Len(layers[1])
             h == Len(layers)
             q == PowerOfTwo[h - 1]
  <2>1. h \in Nat /\ h >= 1 /\ Len(Top) = 1 /\ LayersOK(Node)
    BY DEF Inv, PlaceOK, LayersOK
  <2>2. n \in Nat /\ n >= 1
    BY DEF Inv, LayersOK
  <2>3. q \in Nat
    BY <2>1, PowerBounds
  <2>4. LayerIs(Top, q, n)
    BY <2>1, LayersAreTrees DEF Top
  <2> HIDE DEF n, h, q
  <2>5. n <= 1 * q /\ Top[1] = Reference[SizeAt(1, q, n)][(1 - 1) * q + 1]
    BY <2>1, <2>4 DEF LayerIs
  <2>6. SizeAt(1, q, n) = n /\ (1 - 1) * q + 1 = 1
    BY <2>2, <2>3, <2>5 DEF SizeAt
  <2> QED BY <2>5, <2>6 DEF Root, n
<1> QED BY <1>1, InvHolds, PTL

-----------------------------------------------------------------------------
(***************************************************************************)
(* The trees of a distribution are those of MerkleTree, its proofs too.    *)
(***************************************************************************)
\* The steps of a distribution do to the tree what MerkleTree does.
THEOREM DistributionHasTrees == DistributionSpec => Spec
<1>1. DistributionInit => Init
  BY DEF DistributionInit
<1>2. [DistributionNext]_<<vars, mapVars>> => [Next]_vars
  BY DEF DistributionNext, ParseStep, TreeStep, FundStep, ClaimStep
<1> QED BY <1>1, <1>2, PTL DEF DistributionSpec, Spec

\* In a distribution, whatever its list: a claim of the tree is accepted with its own
\* proof and no other claim is.
THEOREM DistributionAuthorizes ==
  ASSUME NEW Node, Closed(Node), NoCollisions(Node)
  PROVE  DistributionSpec => []ClaimsVerify /\ []NothingElseVerifies /\ []RootIsReference
BY EveryClaimVerifies, NothingElseIsAccepted, TreeIsReference, DistributionHasTrees, PTL

-----------------------------------------------------------------------------
(***************************************************************************)
(* The claims.                                                             *)
(***************************************************************************)
\* The sum over the entries read so far and the one over what was gathered.
Earnings     == [k \in DOMAIN list |-> list[k].earnings]
ReadOf(a)    == {k \in 1..(position - 1) : AccountOf(list[k].address) = a}
StringsOf(a) == {s \in DOMAIN dataByAddress : AccountOf(s) = a}
UnclaimedOf(a) == {s \in Unclaimed : AccountOf(s) = a}

\* The reduce has read a part of the list, and each string of it is a key.
ReduceOK ==
  /\ list \in Lists
  /\ position \in 1..(Len(list) + 1)
  /\ DOMAIN dataByAddress = {list[k].address : k \in 1..(position - 1)}
  /\ \A s \in DOMAIN dataByAddress : dataByAddress[s] \in Nat

\* Each account has in the map what the entries read so far give it.
GatheredOK ==
  \A a \in Accounts(list) :
    SumFunctionOnSet(dataByAddress, StringsOf(a)) = SumFunctionOnSet(Earnings, ReadOf(a))

\* The claims are those of the whole list.
ParsedOK ==
  /\ progress \in {"reduce", "parsed", "failed", "funded"}
  /\ progress \in {"parsed", "funded"} =>
       /\ position = Len(list) + 1
       /\ claims = [s \in DOMAIN dataByAddress |->
                      [index |-> Place(s), amount |-> dataByAddress[s]]]

PaidOK ==
  /\ paid \in [Accounts(list) -> Int]
  /\ progress # "funded" => claimed = {} /\ \A a \in Accounts(list) : paid[a] = 0
  /\ NobodyIsShort
  /\ EarningsArePaid

ClaimsInv == ReduceOK /\ GatheredOK /\ ParsedOK /\ PaidOK

ClaimsNext == Parse \/ Fund \/ \E s \in DOMAIN claims : Claim(s)

-----------------------------------------------------------------------------
\* The map is finite, and its strings are some of the list's.
LEMMA KeysOK ==
  ASSUME ReduceOK
  PROVE  /\ list \in Seq([address : Nat, earnings : Int])
         /\ Len(list) \in Nat /\ DOMAIN list = 1..Len(list)
         /\ IsFiniteSet(DOMAIN dataByAddress) /\ DOMAIN dataByAddress \in SUBSET Nat
         /\ \A s \in DOMAIN dataByAddress : AccountOf(s) \in Accounts(list)
<1>1. list \in Seq([address : Nat, earnings : Int])
  BY ListsAssumption DEF ReduceOK
<1>2. Len(list) \in Nat /\ DOMAIN list = 1..Len(list)
  BY <1>1
<1>3. position \in 1..(Len(list) + 1) /\ 1..(position - 1) \subseteq DOMAIN list
  BY <1>2 DEF ReduceOK
<1>4. DOMAIN dataByAddress \in SUBSET Nat
  <2>1. \A k \in DOMAIN list : list[k] \in [address : Nat, earnings : Int]
    <3> DEFINE T == [address : Nat, earnings : Int]
    <3>1. list \in Seq(T) /\ DOMAIN list = 1..Len(list)
      BY <1>1, <1>2
    <3>2. \A k \in DOMAIN list : list[k] \in T
      <4> HIDE DEF T
      <4> QED BY <3>1
    <3> QED BY <3>2
  <2>2. \A k \in DOMAIN list : list[k].address \in Nat
    BY <2>1
  <2> QED BY <1>3, <2>2 DEF ReduceOK
<1>5. IsFiniteSet(DOMAIN dataByAddress)
  <2> DEFINE e == [k \in 1..(position - 1) |-> list[k].address]
             D == DOMAIN dataByAddress
  <2>1. e \in Surjection(1..(position - 1), D)
    BY DEF ReduceOK, Surjection
  <2>2. IsFiniteSet(1..(position - 1))
    BY <1>2, <1>3, FS_Interval
  <2>3. IsFiniteSet(D)
    <3> HIDE DEF e, D
    <3> QED BY <2>1, <2>2, FS_Surjection
  <2> QED BY <2>3
<1>6. \A s \in DOMAIN dataByAddress : AccountOf(s) \in Accounts(list)
  BY <1>3 DEF ReduceOK, Accounts, Strings
<1> QED BY <1>1, <1>2, <1>4, <1>5, <1>6

\* Two strings have two places.
LEMMA PlacesDiffer ==
  ASSUME IsFiniteSet(DOMAIN dataByAddress), DOMAIN dataByAddress \in SUBSET Nat,
         NEW s \in DOMAIN dataByAddress, NEW t \in DOMAIN dataByAddress, s # t
  PROVE  Place(s) # Place(t)
<1> DEFINE Below(r) == {q \in DOMAIN dataByAddress : q < r}
<1>1. \A r \in DOMAIN dataByAddress : IsFiniteSet(Below(r)) /\ Cardinality(Below(r)) \in Nat
  BY FS_Subset, FS_CardinalityType
<1>2. ASSUME NEW q \in DOMAIN dataByAddress, NEW r \in DOMAIN dataByAddress, q < r
      PROVE  Cardinality(Below(q)) < Cardinality(Below(r))
  <2>1. Below(q) \subseteq Below(r)
    BY <1>2
  <2>2. q \in Below(r) /\ q \notin Below(q)
    BY <1>2
  <2> DEFINE A == Below(q)
             B == Below(r)
  <2>3. IsFiniteSet(B) /\ A \subseteq B /\ A # B
    BY <1>1, <2>1, <2>2
  <2>4. Cardinality(A) < Cardinality(B)
    <3>1. Cardinality(A) \in Nat /\ Cardinality(B) \in Nat
      BY <1>1
    <3> HIDE DEF A, B
    <3>2. Cardinality(A) <= Cardinality(B) /\ Cardinality(A) # Cardinality(B)
      BY <2>3, FS_Subset
    <3> QED BY <3>1, <3>2
  <2> QED BY <2>4
<1>3. s < t \/ t < s
  OBVIOUS
<1>4. CASE s < t
  <2>1. Cardinality(Below(s)) < Cardinality(Below(t))
    BY <1>2, <1>4
  <2>2. Cardinality(Below(s)) # Cardinality(Below(t))
    BY <1>1, <2>1
  <2> QED BY <2>2 DEF Place
<1>5. CASE t < s
  <2>1. Cardinality(Below(t)) < Cardinality(Below(s))
    BY <1>2, <1>5
  <2>2. Cardinality(Below(s)) # Cardinality(Below(t))
    BY <1>1, <2>1
  <2> QED BY <2>2 DEF Place
<1> QED BY <1>3, <1>4, <1>5

\* A list that was not read yet: no key, no entry, no token.
LEMMA ClaimsInit ==
  ASSUME ParseInit
  PROVE  ClaimsInv
<1>1. /\ list \in Lists /\ position = 1 /\ dataByAddress = <<>> /\ progress = "reduce"
      /\ claims = <<>> /\ claimed = {} /\ paid = [a \in Accounts(list) |-> 0]
  BY DEF ParseInit
<1>2. list \in Seq([address : Nat, earnings : Int])
  BY <1>1, ListsAssumption
<1>3. DOMAIN dataByAddress = {} /\ 1..(position - 1) = {}
  BY <1>1
<1>4. ReduceOK
  BY <1>1, <1>2, <1>3 DEF ReduceOK
<1>5. GatheredOK
  <2>1. \A a \in Accounts(list) : StringsOf(a) = {} /\ ReadOf(a) = {}
    BY <1>3 DEF StringsOf, ReadOf
  <2> QED BY <2>1, SumEmpty DEF GatheredOK
<1>6. ParsedOK /\ PaidOK
  BY <1>1 DEF ParsedOK, PaidOK, NobodyIsShort, EarningsArePaid
<1> QED BY <1>4, <1>5, <1>6 DEF ClaimsInv

\* An entry with a new string and earnings adds them to what its account has.
LEMMA ReadEntryStep ==
  ASSUME ClaimsInv, ReadEntry
  PROVE  ClaimsInv'
<1> DEFINE x == Entry.address
           D == DOMAIN dataByAddress
<1>1. /\ progress = "reduce" /\ position \in DOMAIN list /\ x \notin D /\ Entry.earnings > 0
      /\ dataByAddress' = [s \in D \cup {x} |->
                             IF s = x THEN Entry.earnings ELSE dataByAddress[s]]
      /\ position' = position + 1
      /\ UNCHANGED <<list, progress, claims, stock, claimed, paid>>
  BY DEF ReadEntry, Reducing, Duplicate, distributor
<1>2. /\ list \in Seq([address : Nat, earnings : Int]) /\ Len(list) \in Nat
      /\ DOMAIN list = 1..Len(list) /\ IsFiniteSet(D)
  BY KeysOK DEF ClaimsInv
<1>3. Entry = list[position] /\ x = list[position].address
      /\ Entry.earnings = list[position].earnings /\ Entry.earnings \in Nat
      /\ \A k \in DOMAIN list : list[k].earnings \in Int
  <2>1. \A k \in DOMAIN list : list[k] \in [address : Nat, earnings : Int]
    <3> DEFINE T == [address : Nat, earnings : Int]
    <3>1. list \in Seq(T) /\ DOMAIN list = 1..Len(list)
      BY <1>1, <1>2
    <3>2. \A k \in DOMAIN list : list[k] \in T
      <4> HIDE DEF T
      <4> QED BY <3>1
    <3> QED BY <3>2
  <2>2. \A k \in DOMAIN list : list[k].earnings \in Int
    BY <2>1
  <2>3. Entry = list[position]
    BY DEF Entry
  <2>4. Entry.earnings \in Nat
    BY <1>1, <2>2, <2>3
  <2> QED BY <2>2, <2>3, <2>4
<1>4. /\ position \in 1..Len(list)
      /\ 1..(position' - 1) = (1..(position - 1)) \cup {position}
      /\ position \notin 1..(position - 1) /\ 1..(position - 1) \subseteq DOMAIN list
  BY <1>1, <1>2
<1>5. /\ DOMAIN dataByAddress' = D \cup {x}
      /\ dataByAddress'[x] = Entry.earnings
      /\ \A s \in D : dataByAddress'[s] = dataByAddress[s]
  BY <1>1
<1>6. /\ D = {list[k].address : k \in 1..(position - 1)}
      /\ \A s \in D : dataByAddress[s] \in Nat
  BY DEF ClaimsInv, ReduceOK
<1> HIDE DEF x, D
<1>7. ReduceOK'
  <2>1. D \cup {x} = {list[k].address : k \in 1..(position' - 1)}
    BY <1>3, <1>4, <1>6
  <2>2. position' \in 1..(Len(list) + 1)
    BY <1>1, <1>2, <1>4
  <2>3. \A s \in D \cup {x} : dataByAddress'[s] \in Nat
    BY <1>3, <1>5, <1>6
  <2>4. list' = list /\ list \in Lists
    BY <1>1 DEF ClaimsInv, ReduceOK
  <2> QED BY <1>5, <2>1, <2>2, <2>3, <2>4 DEF ReduceOK
<1>8. ASSUME NEW a \in Accounts(list)
      PROVE  SumFunctionOnSet(dataByAddress', StringsOf(a)')
               = SumFunctionOnSet(Earnings, ReadOf(a)')
  <2> DEFINE S == StringsOf(a)
             R == ReadOf(a)
  <2>1. SumFunctionOnSet(dataByAddress, S) = SumFunctionOnSet(Earnings, R)
    BY DEF ClaimsInv, GatheredOK
  <2>2. /\ S = {s \in D : AccountOf(s) = a} /\ StringsOf(a)' = {s \in D \cup {x} : AccountOf(s) = a}
        /\ R = {k \in 1..(position - 1) : AccountOf(list[k].address) = a}
        /\ ReadOf(a)' = {k \in (1..(position - 1)) \cup {position} : AccountOf(list[k].address) = a}
    BY <1>1, <1>4, <1>5 DEF StringsOf, ReadOf, D
  <2>3. IsFiniteSet(S) /\ IsFiniteSet(R)
    <3>1. IsFiniteSet(1..(position - 1))
      BY <1>4, <1>2, FS_Interval
    <3>2. S \subseteq D /\ R \subseteq 1..(position - 1)
      BY <2>2
    <3> QED BY <1>2, <3>1, <3>2, FS_Subset
  <2>4. /\ \A s \in S \cup {x} : dataByAddress'[s] \in Int
        /\ \A s \in S : dataByAddress[s] \in Int /\ dataByAddress'[s] = dataByAddress[s]
        /\ \A k \in R \cup {position} : Earnings[k] \in Int
        /\ Earnings[position] = dataByAddress'[x]
    BY <1>1, <1>3, <1>4, <1>5, <1>6, <2>2 DEF Earnings
  <2>5. SumFunctionOnSet(dataByAddress, S) = SumFunctionOnSet(dataByAddress', S)
    <3> DEFINE f == dataByAddress
               g == dataByAddress'
    <3>1. \A s \in S : f[s] \in Int /\ g[s] = f[s]
      BY <2>4
    <3> HIDE DEF f, g, S
    <3>2. SumFunctionOnSet(f, S) = SumFunctionOnSet(g, S)
      BY <2>3, <3>1, SumSame
    <3> QED BY <3>2 DEF f, g
  <2>6. CASE AccountOf(x) = a
    <3>1. /\ StringsOf(a)' = S \cup {x} /\ x \notin S
          /\ ReadOf(a)' = R \cup {position} /\ position \notin R
      BY <1>1, <1>3, <1>4, <2>2, <2>6 DEF x, D
    <3>2. SumFunctionOnSet(dataByAddress', S \cup {x})
            = dataByAddress'[x] + SumFunctionOnSet(dataByAddress', S)
      <4> DEFINE g == dataByAddress'
      <4>1. \A s \in S \cup {x} : g[s] \in Int
        BY <2>4
      <4> HIDE DEF g, S
      <4>2. SumFunctionOnSet(g, S \cup {x}) = g[x] + SumFunctionOnSet(g, S)
        BY <2>3, <3>1, <4>1, SumAdd
      <4> QED BY <4>2 DEF g
    <3>3. SumFunctionOnSet(Earnings, R \cup {position})
            = Earnings[position] + SumFunctionOnSet(Earnings, R)
      <4> DEFINE g == Earnings
      <4>1. \A s \in R \cup {position} : g[s] \in Int
        BY <2>4
      <4> HIDE DEF g, R
      <4>2. SumFunctionOnSet(g, R \cup {position}) = g[position] + SumFunctionOnSet(g, R)
        BY <2>3, <3>1, <4>1, SumAdd
      <4> QED BY <4>2 DEF g
    <3> HIDE DEF S, R
    <3> QED BY <2>1, <2>4, <2>5, <3>1, <3>2, <3>3
  <2>7. CASE AccountOf(x) # a
    <3>1. StringsOf(a)' = S /\ ReadOf(a)' = R
      BY <1>3, <2>2, <2>7 DEF x
    <3> HIDE DEF S, R
    <3> QED BY <2>1, <2>5, <3>1
  <2> QED BY <2>6, <2>7
<1>9. GatheredOK'
  <2>1. Earnings' = Earnings /\ Accounts(list)' = Accounts(list)
    BY <1>1 DEF Earnings, Accounts, Strings
  <2> QED BY <1>8, <2>1 DEF GatheredOK
<1>10. ParsedOK' /\ PaidOK'
  <2>1. Accounts(list)' = Accounts(list)
    BY <1>1 DEF Accounts, Strings
  <2> QED BY <1>1, <2>1 DEF ClaimsInv, ParsedOK, PaidOK, NobodyIsShort, EarningsArePaid
<1> QED BY <1>7, <1>9, <1>10 DEF ClaimsInv

\* What was read and gathered stays after the reduce.
LEMMA ReadKept ==
  ASSUME ReduceOK, GatheredOK, UNCHANGED <<list, position, dataByAddress>>
  PROVE  ReduceOK' /\ GatheredOK'
<1>1. ReduceOK'
  BY DEF ReduceOK
<1>2. /\ Accounts(list)' = Accounts(list) /\ Earnings' = Earnings
      /\ \A a \in Accounts(list) : StringsOf(a)' = StringsOf(a) /\ ReadOf(a)' = ReadOf(a)
  BY DEF Accounts, Strings, Earnings, StringsOf, ReadOf
<1> QED BY <1>1, <1>2 DEF GatheredOK

\* A list that is refused stays as it is.
LEMMA RejectStep ==
  ASSUME ClaimsInv, Reject \/ RejectEmpty
  PROVE  ClaimsInv'
<1>1. /\ progress' = "failed" /\ progress = "reduce"
      /\ UNCHANGED <<list, position, dataByAddress, claims, stock, claimed, paid>>
  BY DEF Reject, RejectEmpty, Reducing, distributor
<1>2. ReduceOK' /\ GatheredOK'
  BY <1>1, ReadKept DEF ClaimsInv
<1>3. Accounts(list)' = Accounts(list)
  BY <1>1 DEF Accounts, Strings
<1> QED BY <1>1, <1>2, <1>3 DEF ClaimsInv, ParsedOK, PaidOK, NobodyIsShort, EarningsArePaid

\* The claims are made from the map when the list is at its end.
LEMMA MakeClaimsStep ==
  ASSUME ClaimsInv, MakeClaims
  PROVE  ClaimsInv'
<1>1. /\ progress = "reduce" /\ position \notin DOMAIN list /\ progress' = "parsed"
      /\ claims' = [s \in DOMAIN dataByAddress |->
                      [index |-> Place(s), amount |-> dataByAddress[s]]]
      /\ UNCHANGED <<list, position, dataByAddress, stock, claimed, paid>>
  BY DEF MakeClaims, distributor
<1>2. position = Len(list) + 1
  <2>1. position \in 1..(Len(list) + 1) /\ Len(list) \in Nat /\ DOMAIN list = 1..Len(list)
    BY KeysOK DEF ClaimsInv, ReduceOK
  <2> QED BY <1>1, <2>1
<1>3. ReduceOK' /\ GatheredOK'
  BY <1>1, ReadKept DEF ClaimsInv
<1>4. ParsedOK'
  BY <1>1, <1>2 DEF ParsedOK, Place
<1>5. PaidOK'
  BY <1>1 DEF ClaimsInv, PaidOK, NobodyIsShort, EarningsArePaid, Accounts, Strings
<1> QED BY <1>3, <1>4, <1>5 DEF ClaimsInv

\* The total that funds the distributor is the sum of the gathered amounts.
LEMMA TokenTotalIsSum ==
  ASSUME ReduceOK
  PROVE  TokenTotal = SumFunctionOnSet(dataByAddress, DOMAIN dataByAddress)
<1> DEFINE D == DOMAIN dataByAddress
           d == dataByAddress
           V == {d[s] : s \in D}
           F == [v \in V |-> v * Cardinality({s \in D : d[s] = v})]
<1>1. IsFiniteSet(D) /\ \A s \in D : d[s] \in Int
  BY KeysOK DEF ReduceOK
<1>2. SumFunctionOnSet(F, V) = SumFunctionOnSet(d, D)
  <2> HIDE DEF D, d
  <2> QED BY <1>1, SumByValue
<1>3. Range(dataByAddress) = V
  BY DEF Range
<1>4. TokenTotal = SumFunction(F)
  BY <1>3 DEF TokenTotal
<1>5. SumFunction(F) = SumFunctionOnSet(F, V)
  <2>1. DOMAIN F = V
    OBVIOUS
  <2> HIDE DEF F, V
  <2> QED BY <2>1 DEF SumFunction
<1> QED BY <1>2, <1>4, <1>5

\* What the claims of some strings amount to is what was gathered for them.
LEMMA DueIsGathered ==
  ASSUME ReduceOK, ParsedOK, progress \in {"parsed", "funded"},
         NEW S \in SUBSET DOMAIN dataByAddress
  PROVE  /\ Due(S) = SumFunctionOnSet(dataByAddress, S)
         /\ Due(S) \in Int
<1> DEFINE f == [s \in DOMAIN claims |-> claims[s].amount]
           g == dataByAddress
<1>1. IsFiniteSet(S)
  BY KeysOK, FS_Subset
<1>2. \A s \in S : f[s] \in Int /\ g[s] = f[s]
  BY DEF ParsedOK, ReduceOK
<1>3. SumFunctionOnSet(f, S) = SumFunctionOnSet(g, S) /\ SumFunctionOnSet(f, S) \in Int
  <2> HIDE DEF f, g
  <2> QED BY <1>1, <1>2, SumSame, SumType
<1>4. Due(S) = SumFunctionOnSet(f, S)
  BY DEF Due
<1> HIDE DEF f
<1> QED BY <1>3, <1>4

\* The distributor gets the total, which is what all claims amount to.
LEMMA FundStepOK ==
  ASSUME ClaimsInv, Fund
  PROVE  ClaimsInv'
<1> DEFINE D == DOMAIN dataByAddress
<1>1. /\ progress = "parsed" /\ progress' = "funded" /\ stock' = TokenTotal
      /\ UNCHANGED <<list, position, dataByAddress, claims, claimed, paid>>
      /\ ReduceOK /\ GatheredOK /\ ParsedOK /\ PaidOK
  BY DEF Fund, ClaimsInv
<1>2. /\ claimed = {} /\ \A a \in Accounts(list) : paid[a] = 0
      /\ paid \in [Accounts(list) -> Int]
      /\ position = Len(list) + 1 /\ DOMAIN claims = D
  BY <1>1 DEF PaidOK, ParsedOK
<1>3. ReduceOK' /\ GatheredOK'
  BY <1>1, ReadKept
<1>4. ParsedOK'
  BY <1>1 DEF ParsedOK, Place
<1>5. Unclaimed' = D /\ Accounts(list)' = Accounts(list)
  BY <1>1, <1>2 DEF Unclaimed, Accounts, Strings
<1>7. \A S \in SUBSET D : Due(S) = SumFunctionOnSet(dataByAddress, S) /\ Due(S) \in Int
  BY <1>1, DueIsGathered
<1>8. NobodyIsShort'
  <2>1. stock' = Due(D)
    BY <1>1, <1>7, TokenTotalIsSum
  <2>2. Due(Unclaimed)' = Due(D)
    <3> HIDE DEF D
    <3>1. Due(Unclaimed)' = SumFunctionOnSet([s \in DOMAIN claims |-> claims[s].amount], D)
      BY <1>1, <1>5 DEF Due
    <3> QED BY <3>1 DEF Due
  <2> QED BY <2>1, <2>2 DEF NobodyIsShort
<1>9. ASSUME NEW a \in Accounts(list)
      PROVE  (paid[a] + Due({s \in Unclaimed : AccountOf(s) = a}) = Earned(a))'
  <2> DEFINE S == StringsOf(a)
  <2>1. S \in SUBSET D /\ {s \in Unclaimed : AccountOf(s) = a}' = S
    BY <1>5 DEF StringsOf
  <2>2. Due(S) = SumFunctionOnSet(Earnings, ReadOf(a)) /\ Due(S) \in Int
    BY <1>1, <1>7, <2>1 DEF GatheredOK
  <2>3. ReadOf(a) = {k \in DOMAIN list : AccountOf(list[k].address) = a}
    <3>1. Len(list) \in Nat /\ DOMAIN list = 1..Len(list)
      BY <1>1, KeysOK
    <3>2. 1..(position - 1) = DOMAIN list
      BY <1>2, <3>1
    <3> QED BY <3>2 DEF ReadOf
  <2>4. Earned(a)' = SumFunctionOnSet(Earnings, ReadOf(a))
    BY <1>1, <2>3 DEF Earned, Earnings
  <2>5. Due({s \in Unclaimed : AccountOf(s) = a})' = Due(S)
    <3> HIDE DEF S
    <3>1. Due({s \in Unclaimed : AccountOf(s) = a})'
            = SumFunctionOnSet([s \in DOMAIN claims |-> claims[s].amount], S)
      BY <1>1, <2>1 DEF Due
    <3> QED BY <3>1 DEF Due
  <2>6. paid'[a] = 0
    BY <1>1, <1>2
  <2> HIDE DEF S
  <2> QED BY <2>2, <2>4, <2>5, <2>6
<1>10. EarningsArePaid'
  BY <1>5, <1>9 DEF EarningsArePaid
<1>11. PaidOK'
  BY <1>1, <1>2, <1>5, <1>8, <1>10 DEF PaidOK
<1> QED BY <1>3, <1>4, <1>11 DEF ClaimsInv

\* A claim moves its amount from the stock to the account.
LEMMA ClaimStepOK ==
  ASSUME ClaimsInv, NEW s \in DOMAIN claims, Claim(s)
  PROVE  ClaimsInv'
<1> DEFINE D == DOMAIN dataByAddress
           b == AccountOf(s)
           f == [t \in DOMAIN claims |-> claims[t].amount]
<1>1. /\ progress = "funded" /\ claims[s].index \notin claimed
      /\ claimed' = claimed \cup {claims[s].index} /\ stock' = stock - claims[s].amount
      /\ paid' = [paid EXCEPT ![b] = @ + claims[s].amount]
      /\ UNCHANGED <<list, position, dataByAddress, progress, claims>>
      /\ ReduceOK /\ GatheredOK /\ ParsedOK /\ PaidOK
  BY DEF Claim, ClaimsInv
<1>2. /\ DOMAIN claims = D /\ IsFiniteSet(D) /\ D \in SUBSET Nat
      /\ \A t \in D : claims[t].index = Place(t) /\ claims[t].amount \in Int
      /\ b \in Accounts(list)
  <2>1. claims = [t \in D |-> [index |-> Place(t), amount |-> dataByAddress[t]]]
    BY <1>1 DEF ParsedOK
  <2>2. \A t \in D : dataByAddress[t] \in Int
    BY <1>1 DEF ReduceOK
  <2> QED BY <1>1, <2>1, <2>2, KeysOK
<1>3. \A t \in D : t # s => claims[t].index # claims[s].index
  BY <1>2, PlacesDiffer
<1>4. s \in Unclaimed /\ Unclaimed' = Unclaimed \ {s} /\ Unclaimed \subseteq D
  BY <1>1, <1>2, <1>3 DEF Unclaimed
<1>5. \A S \in SUBSET D : IsFiniteSet(S) /\ Due(S) = SumFunctionOnSet(f, S) /\ Due(S) \in Int
  BY <1>1, <1>2, DueIsGathered, FS_Subset DEF Due
<1>6. ASSUME NEW S \in SUBSET D, s \in S PROVE Due(S) = f[s] + Due(S \ {s})
  <2>1. \A t \in S : f[t] \in Int
    BY <1>2
  <2>2. IsFiniteSet(S)
    BY <1>5
  <2> DEFINE g == f
  <2>3. SumFunctionOnSet(g, S) = g[s] + SumFunctionOnSet(g, S \ {s})
    <3>1. \A t \in S : g[t] \in Int
      BY <2>1
    <3> HIDE DEF g
    <3> QED BY <1>6, <2>2, <3>1, SumRemove
  <2> QED BY <1>5, <2>3
<1>7. f[s] = claims[s].amount /\ f[s] \in Int
  BY <1>2
<1> HIDE DEF f
<1>8. ReduceOK' /\ GatheredOK'
  BY <1>1, ReadKept
<1>9. ParsedOK'
  BY <1>1 DEF ParsedOK, Place
<1>10. Accounts(list)' = Accounts(list)
  BY <1>1 DEF Accounts, Strings
<1>11. NobodyIsShort'
  <2>1. stock = Due(Unclaimed)
    BY <1>1 DEF PaidOK, NobodyIsShort
  <2>2. Due(Unclaimed) = f[s] + Due(Unclaimed \ {s}) /\ Due(Unclaimed \ {s}) \in Int
    BY <1>4, <1>5, <1>6
  <2>3. Due(Unclaimed)' = Due(Unclaimed \ {s})
    BY <1>1, <1>4 DEF Due
  <2> QED BY <1>1, <1>7, <2>1, <2>2, <2>3 DEF NobodyIsShort
<1>12. ASSUME NEW a \in Accounts(list)
       PROVE  (paid[a] + Due({t \in Unclaimed : AccountOf(t) = a}) = Earned(a))'
  <2> DEFINE S == {t \in Unclaimed : AccountOf(t) = a}
  <2>1. /\ paid[a] + Due(S) = Earned(a) /\ Earned(a)' = Earned(a)
        /\ paid \in [Accounts(list) -> Int]
    BY <1>1 DEF PaidOK, EarningsArePaid, Earned
  <2>2. S \in SUBSET D /\ Due(S) \in Int
    BY <1>4, <1>5
  <2>3. CASE a = b
    <3>1. s \in S /\ {t \in Unclaimed : AccountOf(t) = a}' = S \ {s}
      BY <1>4, <2>3
    <3>2. Due(S) = f[s] + Due(S \ {s}) /\ Due(S \ {s}) \in Int
      BY <1>5, <1>6, <2>2, <3>1
    <3>3. Due({t \in Unclaimed : AccountOf(t) = a})' = Due(S \ {s})
      BY <1>1, <3>1 DEF Due
    <3>4. paid'[a] = paid[a] + f[s] /\ paid[a] \in Int
      BY <1>1, <1>7, <2>1, <2>3
    <3> HIDE DEF S
    <3> QED BY <1>7, <2>1, <3>2, <3>3, <3>4
  <2>4. CASE a # b
    <3>1. {t \in Unclaimed : AccountOf(t) = a}' = S
      BY <1>4, <2>4
    <3>2. Due({t \in Unclaimed : AccountOf(t) = a})' = Due(S)
      BY <1>1, <3>1 DEF Due
    <3>3. paid'[a] = paid[a]
      BY <1>1, <2>1, <2>4
    <3> HIDE DEF S
    <3> QED BY <2>1, <3>2, <3>3
  <2> QED BY <2>3, <2>4
<1>13. EarningsArePaid'
  BY <1>10, <1>12 DEF EarningsArePaid
<1>14. PaidOK'
  <2>1. paid' \in [Accounts(list) -> Int]
    BY <1>1, <1>2 DEF PaidOK
  <2> QED BY <1>1, <1>10, <1>11, <1>13, <2>1 DEF PaidOK
<1> QED BY <1>8, <1>9, <1>14 DEF ClaimsInv

\* Steps of the tree alone leave the claims as they are.
LEMMA ClaimsStutter ==
  ASSUME ClaimsInv, UNCHANGED mapVars
  PROVE  ClaimsInv'
<1>1. UNCHANGED <<list, position, dataByAddress, progress, claims, stock, claimed, paid>>
  BY DEF mapVars, distributor
<1>2. ReduceOK' /\ GatheredOK'
  BY <1>1, ReadKept DEF ClaimsInv
<1>3. ParsedOK'
  BY <1>1 DEF ClaimsInv, ParsedOK, Place
<1>4. /\ Accounts(list)' = Accounts(list) /\ Unclaimed' = Unclaimed
      /\ \A S \in SUBSET DOMAIN claims : Due(S)' = Due(S)
      /\ \A a \in Accounts(list) : Earned(a)' = Earned(a)
  BY <1>1 DEF Accounts, Strings, Unclaimed, Due, Earned
<1>5. NobodyIsShort'
  BY <1>1, <1>4 DEF ClaimsInv, PaidOK, NobodyIsShort, Due
<1>6. EarningsArePaid'
  <2> SUFFICES ASSUME progress = "funded", NEW a \in Accounts(list)
               PROVE  (paid[a] + Due({s \in Unclaimed : AccountOf(s) = a}) = Earned(a))'
    BY <1>1, <1>4 DEF EarningsArePaid
  <2> DEFINE S == {s \in Unclaimed : AccountOf(s) = a}
  <2>1. S' = S /\ S \in SUBSET DOMAIN claims
    BY <1>4 DEF Unclaimed
  <2>2. Due(S)' = Due(S)
    BY <1>1, <2>1 DEF Due
  <2>3. paid[a] + Due(S) = Earned(a)
    BY DEF ClaimsInv, PaidOK, EarningsArePaid
  <2> QED BY <1>1, <1>4, <2>2, <2>3
<1> QED BY <1>1, <1>2, <1>3, <1>4, <1>5, <1>6 DEF ClaimsInv, PaidOK

-----------------------------------------------------------------------------
\* The invariant of the claims, in the composition with the tree.
LEMMA ClaimsInvHolds == DistributionSpec => []ClaimsInv
<1>1. DistributionInit => ClaimsInv
  BY ClaimsInit DEF DistributionInit
<1>2. ClaimsInv /\ [DistributionNext]_<<vars, mapVars>> => ClaimsInv'
  <2> SUFFICES ASSUME ClaimsInv, [DistributionNext]_<<vars, mapVars>> PROVE ClaimsInv'
    OBVIOUS
  <2>1. CASE ReadEntry
    BY <2>1, ReadEntryStep
  <2>2. CASE Reject \/ RejectEmpty
    BY <2>2, RejectStep
  <2>3. CASE MakeClaims
    BY <2>3, MakeClaimsStep
  <2>4. CASE Fund
    BY <2>4, FundStepOK
  <2>5. CASE \E s \in DOMAIN claims : Claim(s)
    BY <2>5, ClaimStepOK
  <2>6. CASE UNCHANGED mapVars
    BY <2>6, ClaimsStutter
  <2> QED BY <2>1, <2>2, <2>3, <2>4, <2>5, <2>6
          DEF DistributionNext, ParseStep, TreeStep, FundStep, ClaimStep, Parse
<1> QED BY <1>1, <1>2, PTL DEF DistributionSpec

\* Whatever the list and the order of the claims, the distributor funded with the
\* tokenTotal of parseBalanceMap holds exactly what is left to pay.
THEOREM StockCoversClaims == DistributionSpec => []NobodyIsShort
<1>1. ClaimsInv => NobodyIsShort
  BY DEF ClaimsInv, PaidOK
<1> QED BY <1>1, ClaimsInvHolds, PTL

\* Every account ends up with the earnings of all its entries, however they spell it.
THEOREM AccountsGetTheirEarnings == DistributionSpec => []EarningsArePaid
<1>1. ClaimsInv => EarningsArePaid
  BY DEF ClaimsInv, PaidOK
<1> QED BY <1>1, ClaimsInvHolds, PTL

=============================================================================
