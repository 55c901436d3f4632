-------------------------- MODULE ModelCommitment --------------------------
(***************************************************************************)
(* What a block commits to of a model (dessin/protocol/pogo_protocol.py)   *)
(* and what a verifier recomputes (quantization_verifier.py).  A hash is   *)
(* the term it is the hash of: two are equal only if what they hash is,    *)
(* and weights are hashed as the bytes of an array, which tell its width.  *)
(* Weights are integers: those of 64 bits are fine steps, of which 32 bits *)
(* hold some; a quantised weight is its level, -8 to 7.                    *)
(***************************************************************************)
EXTENDS Integers, Sequences, FiniteSetsExt

CONSTANTS
  Tolerance, \* consistency_tolerance, in levels squared
  Single(_)  \* the weight of 32 bits that one of 64 is rounded to

ASSUME ToleranceIsNat == Tolerance \in Nat

-----------------------------------------------------------------------------
(* MerkleTree                                                               *)

Half(n) == (n + 1) \div 2

(* One level up: neighbours are paired, an odd last one with itself.        *)
Paired(level) ==
  [i \in 1 .. Half(Len(level)) |->
     <<level[2 * i - 1], IF 2 * i <= Len(level) THEN level[2 * i] ELSE level[2 * i - 1]>>]

(* The levels, from the leaves on.                                          *)
BuildTree(leaves) ==
  LET tree[k \in 0 .. Len(leaves)] == IF k = 0 THEN leaves ELSE Paired(tree[k - 1])
  IN  tree

(* The tree ends with the first level of one node.                          *)
HeightOf(leaves) == Min({h \in 0 .. Len(leaves) : Len(BuildTree(leaves)[h]) <= 1})

GetRoot(leaves) == BuildTree(leaves)[HeightOf(leaves)][1]

\* Indices count from 0, as the code's do.
Sibling(j) == IF j % 2 = 0 THEN j + 1 ELSE j - 1

(* Where a leaf's ancestors are (current_index), h levels up.               *)
PlacesOf(i, h) ==
  LET place[k \in 0 .. h] == IF k = 0 THEN i ELSE place[k - 1] \div 2
  IN  place

GetProof(leaves, i) ==
  [k \in 1 .. HeightOf(leaves) |->
     LET level == BuildTree(leaves)[k - 1]
         j == PlacesOf(i, HeightOf(leaves))[k - 1]
     IN  IF Sibling(j) < Len(level) THEN level[Sibling(j) + 1] ELSE level[j + 1]]

\* Variant: the node's side is forgotten.
CombineOneWay(j, hash, sibling) == <<hash, sibling>>

Combine(j, hash, sibling) == IF j % 2 = 0 THEN <<hash, sibling>> ELSE <<sibling, hash>>

(* What a leaf and a proof hash to, level by level.                         *)
Hashed(leaf, i, proof) ==
  LET hash[k \in 0 .. Len(proof)] ==
        IF k = 0 THEN leaf ELSE Combine(PlacesOf(i, Len(proof))[k - 1], hash[k - 1], proof[k])
  IN  hash

VerifyProof(leaf, i, proof, root) == Hashed(leaf, i, proof)[Len(proof)] = root

-----------------------------------------------------------------------------
(* ModelQuantizer, INT4                                                     *)

Abs(x) == IF x < 0 THEN -x ELSE x

(* Rounded to the nearest, a half to the even level.                        *)
RoundedDiv(a, b) ==
  LET q == a \div b
      r == a % b
  IN  IF 2 * r < b \/ (2 * r = b /\ q % 2 = 0) THEN q ELSE q + 1

QuantizeWeights(weights) ==
  LET wmax == Max({Abs(weights[i]) : i \in 1 .. Len(weights)})
      level(w) == IF wmax > 0 THEN RoundedDiv(7 * w, wmax) ELSE w
  IN  [i \in 1 .. Len(weights) |-> Max({-8, Min({7, level(weights[i])})})]

(* The squared error of the weights from a to b is within tolerance on      *)
(* average.                                                                 *)
Close(u, v, a, b) ==
  SumFunctionOnSet([i \in a .. b |-> (u[i] - v[i]) * (u[i] - v[i])], a .. b) <= Tolerance * (b - a + 1)

(* Where layer l begins and ends.                                           *)
LayerStart(shapes, l) == 1 + SumFunctionOnSet(shapes, 1 .. l - 1)
LayerEnd(shapes, l) == LayerStart(shapes, l) + shapes[l] - 1

VerifyQuantization(weights, claimed, shapes, challenged) ==
  LET levels == QuantizeWeights(weights)
  IN  /\ Close(levels, claimed, 1, Len(weights))
      /\ \A l \in challenged :
           /\ LayerEnd(shapes, l) <= Len(weights)
           /\ Close(levels, claimed, LayerStart(shapes, l), LayerEnd(shapes, l))

-----------------------------------------------------------------------------
(* Commitments at FLOAT32                                                   *)

(* A trainer's weights are read as 64 bits wide, and cast to be committed.  *)
Float64(weights) == [bits |-> 64, weights |-> weights]
AsFloat32(array) ==
  [bits |-> 32, weights |-> [i \in 1 .. Len(array.weights) |-> Single(array.weights[i])]]

(* The hashes of an array's layers.                                         *)
LayerHashes(array, shapes) ==
  [l \in 1 .. Len(shapes) |->
     [bits |-> array.bits, layer |-> SubSeq(array.weights, LayerStart(shapes, l), LayerEnd(shapes, l))]]

(* _create_single_commitment *)
Commitment(weights, shapes) == LayerHashes(AsFloat32(Float64(weights)), shapes)

(* The verifier hashes the array as it is given it, without a cast.         *)
VerifyMerkleRoot(array, shapes, root) == GetRoot(LayerHashes(array, shapes)) = root
=============================================================================
