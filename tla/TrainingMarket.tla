--------------------------- MODULE TrainingMarket ---------------------------
(***************************************************************************)
(* The fee market that decides which models are trained in a block         *)
(* (dessin/consensus/training_market.py).                                  *)
(*                                                                         *)
(* Heights are relative to the current block: a task has an age and a time *)
(* left, a model a rest of its cooldown.  So the chain may grow for ever.  *)
(***************************************************************************)
EXTENDS Integers, FiniteSets

CONSTANTS
  Tasks,              \* what owners may submit, again and again
  ModelIds, ModelOf,    \* the model each task asks for
  Tip, Offer,         \* of each task: tip and base_fee
  MaxSlots,           \* max_tasks_per_block
  Unit, Rate, Cap,    \* urgency: at the start, per block, urgency_cap
  DefaultCooldown, MaxCooldown,
  Life,               \* blocks from submission to expiry_block
  InitialFee, MinFee, MaxFee,
  Target,             \* <<n, d>>: target_utilization n / d
  ChangeRate,         \* <<n, d>>: base_fee_change_rate n / d
  MinTip

ASSUME MarketConstants ==
  /\ ModelOf \in [Tasks -> ModelIds] /\ Tip \in [Tasks -> Nat] /\ Offer \in [Tasks -> Nat]
  /\ {MaxSlots, Rate, Life, DefaultCooldown, MaxCooldown, MinTip} \subseteq Nat
  /\ Unit \in Nat /\ Cap \in Nat /\ 0 < Unit /\ Unit <= Cap
  /\ MinFee \in Nat /\ InitialFee \in MinFee .. MaxFee /\ MaxFee \in Nat
  /\ Target \in Nat \X (Nat \ {0}) /\ ChangeRate \in Nat \X (Nat \ {0})

VARIABLES
  pending,   \* _pending
  age,       \* of each pending task: current block - submitted_block
  left,      \* of each pending task: expiry_block - current block
  cool,      \* of each model: blocks until _cooldowns lets it in
  chosen, plan, \* whether the leader has selected for this block, and what
  fee,       \* base_fee
  rest       \* history: blocks since a model was last trained, up to a cooldown

marketVars == <<pending, age, left, cool, chosen, plan, fee, rest>>

Smaller(x, y) == IF x < y THEN x ELSE y
Larger(x, y) == IF x > y THEN x ELSE y

\* Variant: waiting does not count.
UrgencyFlat(t) == Smaller(Unit, Cap)

(* urgency_multiplier *)
Urgency(t) == Smaller(Unit + age[t] * Rate, Cap)

\* Variant: urgency is added to nothing.
EffectiveTipOfAge(t) == age[t]

EffectiveTip(t) == Tip[t] * Urgency(t)

(* The cooldown of finalize_block, the configured one: the cooldown_blocks
   that a task asks for are stored with it and never looked at.             *)
Cooldown == Larger(1, Smaller(DefaultCooldown, MaxCooldown))

\* Variant: a model is let in a block early.
RestingLess(m) == cool[m] > 1

(* _model_in_cooldown *)
Resting(m) == cool[m] > 0

InitMarket ==
  /\ pending = {} /\ chosen = FALSE /\ plan = {} /\ fee = InitialFee
  /\ age = [t \in Tasks |-> 0] /\ left = [t \in Tasks |-> 0]
  /\ cool = [m \in ModelIds |-> 0] /\ rest = [m \in ModelIds |-> Cooldown]

(* submit_task of a task made for the current block.                        *)
SubmitTask(t) ==
  /\ Offer[t] >= fee /\ Tip[t] >= MinTip
  /\ t \notin pending
  /\ ~Resting(ModelOf[t])
  /\ pending' = pending \cup {t}
  /\ age' = [age EXCEPT ![t] = 0]
  /\ left' = [left EXCEPT ![t] = Life]
  /\ UNCHANGED <<cool, chosen, plan, fee, rest>>

(* cancel_task of the owner, also of a task the leader has selected.        *)
CancelTask(t) ==
  /\ t \in pending
  /\ pending' = pending \ {t}
  /\ UNCHANGED <<age, left, cool, chosen, plan, fee, rest>>

(* expire_stale_tasks *)
ExpireStaleTasks ==
  LET stale == {t \in pending : left[t] = 0} IN
  /\ stale # {}
  /\ pending' = pending \ stale
  /\ UNCHANGED <<age, left, cool, chosen, plan, fee, rest>>

Eligible == {t \in pending : ~Resting(ModelOf[t]) /\ left[t] > 0}

(* What the greedy loop over the sorted tasks can return, whatever the VRF
   draws for ties: of each model it takes a best task, and it passes a model
   over only for others whose tasks are as good, when the slots are used up. *)
Greedy(S) ==
  LET best(t) == \A u \in Eligible : ModelOf[u] = ModelOf[t] => EffectiveTip(u) <= EffectiveTip(t)
      served == {ModelOf[s] : s \in S}
  IN  /\ \A s \in S : best(s)
      /\ Cardinality(served) = Cardinality(S) /\ Cardinality(S) <= MaxSlots
      /\ \A t \in Eligible : ModelOf[t] \notin served =>
           Cardinality(S) = MaxSlots /\ \A s \in S : EffectiveTip(s) >= EffectiveTip(t)

(* select_tasks_for_block *)
SelectTasks ==
  /\ ~chosen /\ chosen' = TRUE
  /\ plan' \in {S \in SUBSET Eligible : Greedy(S)}
  /\ UNCHANGED <<pending, age, left, cool, fee, rest>>

(* _adjust_base_fee; fractions are rounded down.                            *)
AdjustedFee(used) ==
  LET aim == MaxSlots * Target[1]
      off == Larger(-aim, Smaller(aim, used * Target[2] - aim))
  IN  IF aim = 0 THEN Larger(MinFee, Smaller(MaxFee, fee))
      ELSE Larger(MinFee, Smaller(MaxFee, fee + (fee * off * ChangeRate[1]) \div (aim * ChangeRate[2])))

(* finalize_block, and the chain moves on to the next block.                *)
FinalizeBlock ==
  LET trained == {ModelOf[t] : t \in plan} IN
  /\ chosen /\ chosen' = FALSE
  /\ pending' = pending \ plan
  /\ cool' = [m \in ModelIds |-> (IF m \in trained THEN Cooldown ELSE Larger(1, cool[m])) - 1]
  /\ rest' = [m \in ModelIds |-> IF m \in trained THEN 1 ELSE Smaller(Cooldown, rest[m] + 1)]
  /\ fee' = AdjustedFee(Cardinality(plan))
  /\ age' = [t \in Tasks |-> IF t \in pending' THEN Smaller(age[t] + 1, Cap) ELSE 0]
  /\ left' = [t \in Tasks |-> IF t \in pending' THEN Larger(0, left[t] - 1) ELSE 0]
  /\ plan' = {}

NextMarket ==
  \/ \E t \in Tasks : SubmitTask(t) \/ CancelTask(t)
  \/ ExpireStaleTasks \/ SelectTasks \/ FinalizeBlock

SpecMarket == InitMarket /\ [][NextMarket]_marketVars
=============================================================================
