--------------------------- MODULE SpotCheckProps ---------------------------
(***************************************************************************)
(* What the evidence of a training block shows.                            *)
(***************************************************************************)
EXTENDS SpotCheck

\* Nothing of the state's weights is lost in 32 bits, as of parameters that were so wide.
Exact(s) == \A i \in 1 .. Len(Weights[s]) : Single(Weights[s][i]) = Weights[s][i]

\* The states after which the trainer's record of a training is well formed and anchored.
\* Its root is that of the 32-bit model, and never that of the 64-bit weights which the
\* trainer keeps; of exact weights, the 4-bit model passes too.
WellRecorded ==
  {s \in States : \A curve \in Curves :
     LET t == HonestTrace(s, curve)
     IN  /\ Structural(t, s)
         /\ VerifyMerkleRoot(Download(t.model), Shapes, RootOf(t.committed))
         /\ ~VerifyMerkleRoot(Float64(Weights[t.model]), Shapes, RootOf(t.committed))
         /\ Exact(t.model) => Committed(t)}

(* What the trainer records of a training from the last block's state       *)
(* passes the verifiers' checks, whichever steps are drawn, if they compare *)
(* the 32-bit model: commitments cast the weights, verify_merkle_root does  *)
(* not.  Statistics are aside, which also judge the data, and so is the     *)
(* 4-bit model of weights that the cast changes.                            *)
HonestEvidencePasses ==
  /\ head \in WellRecorded
  /\ stage = "rejected" =>
       ~(witness = HonestWitness(head) /\ \E curve \in Curves : trace = HonestTrace(head, curve))

(* If every step happened to be drawn, an accepted block ends in the state  *)
(* that training from the last block's state leads to, with the gradients   *)
(* of that training, whatever the miner published and revealed.             *)
FullReplayProvesTraining ==
  stage = "accepted" /\ {drawn[i] : i \in 1 .. Len(drawn)} = 1 .. Steps =>
    trace.to = Trained(head)[Steps] /\ trace.chain = ChainOf(GradsOf(head))

\* The states each of whose layers is the only one that its proof leads from,
\* among the layers that any state has in its place.
ProvenLayers ==
  {s \in States :
     LET leaves(x) == Commitment(Weights[x], Shapes)
     IN  \A x \in States, i \in 0 .. Len(Shapes) - 1 :
           VerifyProof(leaves(x)[i + 1], i, GetProof(leaves(s), i), GetRoot(leaves(s)))
             <=> leaves(x)[i + 1] = leaves(s)[i + 1]}

(* A Merkle proof leads from a layer to the root of the model that a block  *)
(* commits to, and from no other layer in its place.                        *)
ProofsBindLayers == stage = "published" => trace.committed \in ProvenLayers

(* A model is frozen exactly when MaxStrikes accepted blocks in a row left  *)
(* it no better, since its data were last refreshed.                        *)
FrozenWhenUseless == frozen <=> useless.longest >= MaxStrikes
=============================================================================
