----------------------------- MODULE SpotCheck -----------------------------
(***************************************************************************)
(* The evidence that a training block carries and what verifiers make of   *)
(* it: dessin/consensus/spot_check_verification.py, with the traces that   *)
(* dessin/llm/decoder_lm_training_trace.py records, and the commitments of *)
(* ModelCommitment.  Blocks of one model follow each other; a miner may    *)
(* have trained from the wrong state, lost a step or kept a broken record. *)
(***************************************************************************)
EXTENDS ModelCommitment

CONSTANTS
  States,     \* states of the model's weights, by their hash
  Steps,      \* spot_check_steps_per_block
  Challenges, \* spot_check_count
  Grads,      \* gradients
  Gradient,   \* the gradient of each state in each step's minibatch
  Apply,      \* the state that an optimizer step makes of a state and a gradient
  Loss,       \* the evaluation loss of each state
  MinNorm, MaxNorm, MaxJump, \* StatisticalThresholds
  NaN,        \* what a loss is that is not finite
  Curves,     \* loss curves that are published
  Norms,      \* gradient norms that are published
  Weights, Shapes, \* the weights of each state, and the sizes of the layers
  MaxStrikes,
  MaxCount   \* bound: strikes of the model

ASSUME EvidenceConstants ==
  /\ {Steps, Challenges, MaxStrikes, MaxCount} \subseteq Nat \ {0}
  /\ Grads \subseteq Int
  /\ Gradient \in [States \X (1 .. Steps) -> Grads] /\ Apply \in [States \X Grads -> States]

\* Curves have a loss before the first step and after each; the layers are parts of the
\* weights.
ASSUME RecordConstants ==
  /\ Curves \subseteq [1 .. Steps + 1 -> Int \cup {NaN}] /\ Loss \in [States -> Int \cup {NaN}]
  /\ Weights \in [States -> Seq(Int)] /\ Shapes \in Seq(Nat) \ {<<>>} /\ Tolerance \in Nat
  /\ \A s \in States, l \in DOMAIN Shapes : LayerEnd(Shapes, l) <= Len(Weights[s])

VARIABLES
  stage,     \* where the block in work is
  head,      \* the state that the last accepted block ends in
  trace,     \* what the block's miner published
  drawn,     \* the steps that the next block's seed chose
  witness,   \* what the miner revealed
  strikes, frozen, \* ChainStrikeState of the model
  useless    \* history: accepted blocks in a row without a dip, and the longest such run

evidenceVars == <<stage, head, trace, drawn, witness, strikes, frozen, useless>>

-----------------------------------------------------------------------------
(* The training that is recorded                                            *)

(* The gradient of step j in a state, and the state after that step.        *)
Grad(s, j) == Gradient[<<s, j>>]
After(s, j) == Apply[<<s, Grad(s, j)>>]

(* The state before each step, and after the last.                          *)
Trained(s) ==
  LET state[i \in 0 .. Steps] == IF i = 0 THEN s ELSE After(state[i - 1], i)
  IN  state

GradsOf(s) == [i \in 1 .. Steps |-> Grad(Trained(s)[i - 1], i)]

(* A chain entry hashes the entry before it and the step's gradient.        *)
ChainOf(grads) == [i \in 1 .. Len(grads) |-> SubSeq(grads, 1, i)]

HonestWitness(s) == [states |-> [i \in 1 .. Steps |-> Trained(s)[i - 1]], grads |-> GradsOf(s)]

(* The curve begins and ends with the evaluation loss, and has the          *)
(* minibatches' losses between; a curve of Curves stands for those.         *)
HonestTrace(s, curve) ==
  [from |-> s, to |-> Trained(s)[Steps], chain |-> ChainOf(GradsOf(s)),
   norms |-> [i \in 1 .. Steps |-> Abs(GradsOf(s)[i])],
   curve |-> [curve EXCEPT ![1] = Loss[s], ![Steps + 1] = Loss[Trained(s)[Steps]]],
   model |-> Trained(s)[Steps], committed |-> Trained(s)[Steps]]

Traces ==
  [from : States, to : States,
   chain : {c \in [1 .. Steps -> UNION {[1 .. n -> Grads] : n \in 1 .. Steps}] :
              \A i \in 1 .. Steps : Len(c[i]) = i},
   norms : [1 .. Steps -> Norms] \cup [1 .. Steps - 1 -> Norms], curve : Curves,
   model : States, committed : States]

Witnesses == [states : [1 .. Steps -> States], grads : [1 .. Steps -> Grads]]

-----------------------------------------------------------------------------
(* verify_structural, verify_statistical                                    *)

Structural(t, prev) ==
  /\ Len(t.curve) = Steps + 1 /\ Len(t.chain) = Steps /\ Len(t.norms) = Steps
  /\ t.from = prev
  /\ t.to = t.model

(* The correlation of norms and losses is left out.                         *)
Statistical(t) ==
  /\ \A i \in 1 .. Len(t.curve) : t.curve[i] # NaN
  /\ \A i \in 1 .. Len(t.norms) : t.norms[i] \in MinNorm .. MaxNorm
  /\ \A i \in 1 .. Len(t.curve) - 1 :
       Abs(t.curve[i + 1] - t.curve[i]) <= MaxJump * Max({Abs(t.curve[i]), 1})

(* create_model_commitments, create_quantized_model: the root and the 4-bit *)
(* weights are made of one state's weights of 64 bits.                      *)
RootOf(s) == GetRoot(Commitment(Weights[s], Shapes))

(* The 32-bit model that verifiers download, which they are to compare.     *)
Download(s) == AsFloat32(Float64(Weights[s]))

Committed(t) ==
  /\ VerifyMerkleRoot(Download(t.model), Shapes, RootOf(t.committed))
  /\ VerifyQuantization(Download(t.model).weights, QuantizeWeights(Weights[t.committed]),
                        Shapes, DOMAIN Shapes)

(* What passes, after a block that ends in state s, before any step is      *)
(* replayed.                                                                *)
Credible ==
  [s \in States |->
     {t \in Traces \cup {HonestTrace(x, curve) : x \in States, curve \in Curves} :
        Structural(t, s) /\ Statistical(t) /\ Committed(t)}]

-----------------------------------------------------------------------------
(* verify_spot_replay                                                       *)

PreStateMatches(t, w, j) == j = 1 => w.states[1] = t.from

GradMatches(w, j) == Grad(w.states[j], j) = w.grads[j]

ChainMatches(t, w, j) ==
  LET before == IF j = 1 THEN <<>> ELSE t.chain[j - 1]
  IN  t.chain[j] = Append(before, Grad(w.states[j], j))

\* Variant: only the last step's state is compared.
PostStateAtEnd(t, w, j) ==
  j = Steps => After(w.states[j], j) = t.to

PostStateMatches(t, w, j) ==
  After(w.states[j], j) = IF j < Steps THEN w.states[j + 1] ELSE t.to

\* Variant: the norm is taken for the step before.
NormMatchesLate(t, w, j) == j > 1 => Abs(Grad(w.states[j], j)) = t.norms[j - 1]

NormMatches(t, w, j) == Abs(Grad(w.states[j], j)) = t.norms[j]

Replayed(t, w, j) ==
  /\ PreStateMatches(t, w, j) /\ GradMatches(w, j) /\ ChainMatches(t, w, j)
  /\ NormMatches(t, w, j) /\ PostStateMatches(t, w, j)

-----------------------------------------------------------------------------
(* The block                                                                *)

InitEvidence ==
  /\ stage = "idle" /\ head \in States
  /\ trace = <<>> /\ drawn = <<>> /\ witness = <<>>
  /\ strikes = 0 /\ frozen = FALSE
  /\ useless = [now |-> 0, longest |-> 0]

(* A block is published that passes the checks that need no replay.         *)
Publish ==
  /\ stage = "idle"
  /\ \E t \in Credible[head] : trace' = t
  /\ stage' = "published"
  /\ UNCHANGED <<head, drawn, witness, strikes, frozen, useless>>

(* The seed is known once the next block is published.                      *)
Draw(steps) ==
  /\ stage = "published"
  /\ stage' = "drawn" /\ drawn' = steps
  /\ UNCHANGED <<head, trace, witness, strikes, frozen, useless>>

Reveal(w) ==
  /\ stage = "drawn"
  /\ witness' = w
  /\ stage' = IF \A i \in 1 .. Len(drawn) : Replayed(trace, w, drawn[i]) THEN "accepted" ELSE "rejected"
  /\ UNCHANGED <<head, trace, drawn, strikes, frozen, useless>>

Dipped(curve) == \E i \in 2 .. Len(curve) : curve[i] < curve[1]

\* Variant: a dip leaves the count as it is.
StruckAndKept(curve) == IF Dipped(curve) THEN strikes ELSE strikes + 1

Struck(curve) == IF Dipped(curve) THEN 0 ELSE strikes + 1

(* accumulate_strikes, of an accepted block: a dip ends the count, it does  *)
(* not thaw a frozen model.                                                 *)
Accumulate ==
  /\ stage = "accepted"
  /\ strikes' = Struck(trace.curve)
  /\ frozen' = (frozen \/ (~Dipped(trace.curve) /\ Struck(trace.curve) >= MaxStrikes))
  /\ LET now == IF Dipped(trace.curve) THEN 0 ELSE useless.now + 1
     IN  useless' = [now |-> now, longest |-> Max({now, useless.longest})]
  /\ Struck(trace.curve) <= MaxCount
  /\ head' = trace.to
  /\ stage' = "idle" /\ trace' = <<>> /\ drawn' = <<>> /\ witness' = <<>>

Reject ==
  /\ stage = "rejected"
  /\ stage' = "idle" /\ trace' = <<>> /\ drawn' = <<>> /\ witness' = <<>>
  /\ UNCHANGED <<head, strikes, frozen, useless>>

(* The owner refreshes the training data: the model's ledger is reset.      *)
Refresh ==
  /\ strikes' = 0 /\ frozen' = FALSE
  /\ useless' = [now |-> 0, longest |-> 0]
  /\ UNCHANGED <<stage, head, trace, drawn, witness>>

NextEvidence ==
  \/ Publish
  \/ \E steps \in [1 .. Challenges -> 1 .. Steps] : Draw(steps)
  \/ \E w \in Witnesses : Reveal(w)
  \/ Accumulate \/ Reject \/ Refresh

SpecEvidence == InitEvidence /\ [][NextEvidence]_evidenceVars
=============================================================================
