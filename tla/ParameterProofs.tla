-------------------------- MODULE ParameterProofs --------------------------
(***************************************************************************)
(* Proofs about what the network sets by itself: how long a slot lasts,    *)
(* for any blocks, bounds, steps and factors, and what things cost, for    *)
(* any parameters, bounds, targets and adjustments.  The two have nothing  *)
(* in common but the node that keeps them.                                 *)
(***************************************************************************)
EXTENDS DynamicBlockTime, NetworkPrices, TLAPS

-----------------------------------------------------------------------------
(* The block timer                                                          *)

LEMMA ConstantTypes ==
  /\ MinSlot \in Nat \ {0} /\ MaxSlot \in Nat \ {0} /\ OwnFloor \in Nat \ {0} /\ Step \in Nat \ {0}
  /\ MinSlot <= MaxSlot /\ InitialSlot \in Nat
BY SlotConstants

Slots == MinSlot .. MaxSlot
Marks == {None} \cup [flag : {"increase", "decrease", "maintain"}, at : Slots]

\* Whatever a slot is clamped from, it is in bounds.
LEMMA ClampInBounds ==
  ASSUME NEW x \in Int
  PROVE  Clamp(x) \in Slots
BY ConstantTypes DEF Clamp, Larger, Slots

LEMMA FactorTypes ==
  ASSUME NEW x \in Int, NEW q \in Nat \X (Nat \ {0})
  PROVE  Ceil(x, q) \in Int /\ Floor(x, q) \in Int
<1>1. q[1] \in Int /\ q[2] \in Nat \ {0}
  OBVIOUS
<1>2. x * q[1] \in Int
  BY <1>1
<1>3. \A y \in Int, d \in Nat \ {0} : y \div d \in Int
  OBVIOUS
<1> QED
  BY <1>1, <1>2, <1>3 DEF Ceil, Floor

\* What awaits application is fresh, and so is what it will be taken from; a block that
\* was followed gave what its mark says, for its mark never changes.
TimerInv ==
  /\ slot \in Slots
  /\ pending \in [Blocks -> {NoSlot} \cup Slots] /\ approved \in [Blocks -> {NoSlot} \cup Slots]
  /\ mark \in [Blocks -> Marks] /\ fresh \in [Blocks -> BOOLEAN]
  /\ given \in [Blocks -> {NoSlot} \cup Slots]
  /\ NothingIsAppliedTwice
  /\ \A b \in Blocks : pending[b] # NoSlot => fresh[b]
  /\ \A b \in Blocks : given[b] # NoSlot => mark[b] # None /\ given[b] = Adjusted(b)

LEMMA InitTimer == Init => TimerInv
<1> SUFFICES ASSUME Init
             PROVE  TimerInv
  OBVIOUS
<1>1. slot \in Slots
  BY ConstantTypes, ClampInBounds DEF Init
<1> QED
  BY <1>1 DEF Init, TimerInv, NothingIsAppliedTwice, Marks

LEMMA SlotsAreNumbers == Slots \subseteq Int /\ NoSlot \notin Slots
BY ConstantTypes DEF Slots, NoSlot

\* A proposal is clamped, or leaves the slot as it is.
LEMMA ProposedInBounds ==
  ASSUME TimerInv, NEW t
  PROVE  Proposed(t) \in Slots
<1>1. slot \in Slots /\ slot \in Int /\ Step \in Int
  BY ConstantTypes, SlotsAreNumbers DEF TimerInv
<1>2. Stress \in Nat \X (Nat \ {0}) /\ Slack \in Nat \X (Nat \ {0})
  BY SlotConstants
<1>3. Ceil(Step, Stress) \in Int /\ Floor(Step, Slack) \in Int
  BY <1>1, <1>2, FactorTypes
<1>4. slot + Ceil(Step, Stress) \in Int /\ slot - Floor(Step, Slack) \in Int
  BY <1>1, <1>3
<1> QED
  BY <1>1, <1>4, ClampInBounds DEF Proposed

LEMMA ProposeKeeps ==
  ASSUME TimerInv, NEW b \in Blocks, NEW t, Propose(b, t),
         UNCHANGED <<slot, approved, given>>,
         mark' \in [Blocks -> Marks], \A c \in Blocks : given[c] # NoSlot => mark'[c] = mark[c]
  PROVE  TimerInv'
<1>1. Proposed(t) \in Slots
  BY ProposedInBounds
<1>2. pending' \in [Blocks -> {NoSlot} \cup Slots] /\ fresh' \in [Blocks -> BOOLEAN]
  BY <1>1 DEF Propose, TimerInv
<1>3. \A c \in Blocks : /\ pending'[c] # NoSlot => fresh'[c]
                        /\ approved'[c] # NoSlot => fresh'[c]
  BY DEF Propose, TimerInv, NothingIsAppliedTwice
<1>4. \A c \in Blocks : given'[c] # NoSlot => mark'[c] # None /\ given'[c] = Adjusted(c)'
  BY DEF TimerInv, Adjusted, From
<1> QED
  BY <1>2, <1>3, <1>4 DEF TimerInv, NothingIsAppliedTwice

\* What is applied leaves neither a proposal nor an approval behind.
LEMMA ApplyKeeps ==
  ASSUME TimerInv, NEW b \in Blocks, ApplyApproved(b)
  PROVE  TimerInv'
<1>1. approved[b] \in Int
  <2>1. approved[b] \in {NoSlot} \cup Slots /\ approved[b] # NoSlot
    BY DEF TimerInv, ApplyApproved
  <2> QED
    BY <2>1, SlotsAreNumbers
<1>2. slot' \in Slots
  BY <1>1, ClampInBounds DEF ApplyApproved
<1>3. /\ approved' \in [Blocks -> {NoSlot} \cup Slots] /\ pending' \in [Blocks -> {NoSlot} \cup Slots]
      /\ fresh' \in [Blocks -> BOOLEAN]
  BY DEF ApplyApproved, Settled, TimerInv
<1>4. \A c \in Blocks : /\ pending'[c] # NoSlot => fresh'[c]
                        /\ approved'[c] # NoSlot => fresh'[c]
  BY DEF ApplyApproved, Settled, TimerInv, NothingIsAppliedTwice
<1>5. \A c \in Blocks : given'[c] # NoSlot => mark'[c] # None /\ given'[c] = Adjusted(c)'
  BY DEF ApplyApproved, TimerInv, Adjusted, From
<1> QED
  BY <1>2, <1>3, <1>4, <1>5 DEF ApplyApproved, TimerInv, NothingIsAppliedTwice

LEMMA FollowKeeps ==
  ASSUME TimerInv, NEW b \in Blocks, FollowBlock(b)
  PROVE  TimerInv' /\ (given[b] # NoSlot => slot' = given[b])
<1>1. mark[b] # None /\ InSlotBounds(Adjusted(b)) /\ slot' = Adjusted(b)
      /\ given' = [given EXCEPT ![b] = IF @ = NoSlot THEN Adjusted(b) ELSE @]
      /\ UNCHANGED <<timings, pending, approved, mark, fresh>>
  BY DEF FollowBlock
<1>2. Adjusted(b) \in Int
  <2>1. mark[b].at \in Int
    BY <1>1, SlotsAreNumbers DEF TimerInv, Marks
  <2> QED
    BY <2>1, ConstantTypes DEF Adjusted, From, Larger
<1>3. Adjusted(b) \in Slots
  BY <1>1, <1>2, ConstantTypes DEF InSlotBounds, Slots
<1>4. given' \in [Blocks -> {NoSlot} \cup Slots]
  BY <1>1, <1>3 DEF TimerInv
<1>5. \A c \in Blocks : Adjusted(c)' = Adjusted(c)
  BY <1>1 DEF Adjusted, From
<1>6. \A c \in Blocks : given'[c] # NoSlot => mark'[c] # None /\ given'[c] = Adjusted(c)'
  BY <1>1, <1>5 DEF TimerInv
<1>7. given[b] # NoSlot => slot' = given[b]
  BY <1>1 DEF TimerInv
<1> QED
  BY <1>1, <1>3, <1>4, <1>6, <1>7 DEF TimerInv, NothingIsAppliedTwice

LEMMA NextKeepsTimer == TimerInv /\ [Next]_vars => TimerInv'
<1> SUFFICES ASSUME TimerInv, [Next]_vars
             PROVE  TimerInv'
  OBVIOUS
<1>1. CASE Adapt
  <2>1. slot \in Int /\ SlowDown \in Nat \X (Nat \ {0}) /\ SpeedUp \in Nat \X (Nat \ {0})
    BY SlotsAreNumbers, SlotConstants DEF TimerInv
  <2>2. Ceil(slot, SlowDown) \in Int /\ Ceil(slot, SpeedUp) \in Int
    BY <2>1, FactorTypes
  <2>3. Larger(Larger(MinSlot, OwnFloor), Ceil(slot, SpeedUp)) \in Int
    BY <2>2, ConstantTypes DEF Larger
  <2>4. slot' \in Slots
    BY <1>1, <2>2, <2>3, ClampInBounds DEF Adapt, AdaptToStress, AdaptToSlack
  <2> QED
    BY <1>1, <2>4 DEF Adapt, TimerInv, NothingIsAppliedTwice, Adjusted, From
<1>2. ASSUME NEW b \in Blocks, Mine(b)
      PROVE  TimerInv'
  <2> DEFINE m == [flag |-> Flag(Start(b)), at |-> slot]
  <2>1. m \in Marks
    BY DEF Flag, Marks, TimerInv
  <2>2. mark' = [mark EXCEPT ![b] = m] /\ mark[b] = None /\ Propose(b, Start(b))
        /\ UNCHANGED <<slot, approved, given>>
    BY <1>2 DEF Mine
  <2> HIDE DEF m
  <2>3. mark' \in [Blocks -> Marks] /\ \A c \in Blocks : given[c] # NoSlot => mark'[c] = mark[c]
    BY <2>1, <2>2 DEF TimerInv
  <2> QED
    BY <2>2, <2>3, ProposeKeeps
<1>3. ASSUME NEW b \in Blocks, ProposeAdjustment(b)
      PROVE  TimerInv'
  BY <1>3, ProposeKeeps DEF ProposeAdjustment, TimerInv
<1>4. ASSUME NEW b \in Blocks, Vote(b)
      PROVE  TimerInv'
  BY <1>4 DEF Vote, TimerInv, NothingIsAppliedTwice, Adjusted, From
<1>5. CASE (\E b \in Blocks : StartTiming(b) \/ \E late \in 0 .. 1 : EndTiming(b, late)) \/ UNCHANGED vars
  BY <1>5 DEF StartTiming, EndTiming, vars, TimerInv, NothingIsAppliedTwice, Adjusted, From
<1> QED
  BY <1>1, <1>2, <1>3, <1>4, <1>5, ApplyKeeps, FollowKeeps DEF Next

LEMMA TimerHolds == Spec => []TimerInv
BY InitTimer, NextKeepsTimer, PTL DEF Spec

(* Every adjustment that waits to be applied was proposed since the last    *)
(* one of its block was applied: no vote or application repeats one.        *)
THEOREM AdjustmentsSafe == Spec => []NothingIsAppliedTwice
<1>1. TimerInv => NothingIsAppliedTwice
  BY DEF TimerInv
<1> QED
  BY <1>1, TimerHolds, PTL

(* Slots, proposals, approvals and marks keep within the consensus bounds.  *)
THEOREM SlotsSafe == Spec => []SlotsInBounds
<1>1. TimerInv => SlotsInBounds
  BY DEF TimerInv, SlotsInBounds, Marks, Slots
<1> QED
  BY <1>1, TimerHolds, PTL

(* A block that is followed twice sets the same slot twice, whatever moved  *)
(* the slot in between.                                                     *)
THEOREM FollowingSafe == Spec => FollowingIsIdempotent
<1>1. TimerInv /\ [Next]_vars =>
        [\A b \in Blocks : given[b] # NoSlot /\ FollowBlock(b) => slot' = given[b]]_vars
  BY FollowKeeps
<1> QED
  BY <1>1, TimerHolds, PTL DEF Spec, FollowingIsIdempotent
-----------------------------------------------------------------------------
(* Network prices                                                           *)

Aims == {NoTarget} \cup Absolute \cup Relative
          \cup [kind : {"temporary"}, goal : {0}, up : BOOLEAN, left : 0 .. MaxDuration]

Fleeting == [kind : {"temporary"}, goal : {0}, up : BOOLEAN, left : 0 .. MaxDuration]

LEMMA AimShapes ==
  ASSUME NEW t \in Aims, t.kind = "temporary"
  PROVE  t \in Fleeting
<1>1. t # NoTarget
  BY DEF NoTarget
<1>2. t \notin Absolute /\ t \notin Relative
  BY DEF Absolute, Relative
<1> QED
  BY <1>1, <1>2 DEF Aims, Fleeting

LEMMA PriceConstantTypes ==
  /\ Networked \subseteq Params /\ Portion \in Nat \ {0} /\ MaxDuration \in Nat \ {0}
  /\ Initial \in [Networked -> Nat] /\ MaxCalls \in Nat
  /\ \A p \in Networked : /\ Least[p] \in Nat /\ Most[p] \in Nat /\ Portion <= Least[p]
                          /\ Initial[p] \in Least[p] .. Most[p]
BY PriceConstants

LEMMA PricesInvariant ==
  PricesInBounds <=>
    /\ value \in [Networked -> Nat] /\ \A p \in Networked : value[p] \in Least[p] .. Most[p]
    /\ targets \in [Params -> Aims]
    /\ calls \in 0 .. MaxCalls
BY DEF PricesInBounds, Aims

\* A step is at least one and never reaches below nothing.
LEMMA StepShape ==
  ASSUME NEW v \in Nat, NEW k \in Nat \ {0}, k <= v
  PROVE  v \div k \in Nat /\ v \div k >= 1 /\ v \div k <= v
<1> DEFINE q == v \div k
<1>1. q \in Int /\ k * q <= v /\ v < k * (q + 1)
  OBVIOUS
<1> HIDE DEF q
<1>2. q >= 1
  <2> SUFFICES ASSUME q <= 0
               PROVE  FALSE
    BY <1>1
  <2>1. k * (q + 1) <= k
    <3>1. q + 1 <= 1 /\ q + 1 \in Int
      BY <1>1
    <3>2. \A z \in Int : z <= 1 => k * z <= k
      OBVIOUS
    <3> QED
      BY <3>1, <3>2
  <2> QED
    BY <1>1, <2>1
<1>3. q <= k * q
  <2>1. \A z \in Nat : z <= k * z
    OBVIOUS
  <2> QED
    BY <1>1, <1>2, <2>1
<1>4. q \in Nat /\ q <= v
  BY <1>1, <1>2, <1>3
<1> QED
  BY <1>2, <1>4 DEF q

\* An adjustment that would leave the bounds is refused.
LEMMA AdjustedInBounds ==
  ASSUME PricesInBounds, NEW p \in Networked, NEW up
  PROVE  /\ AdjustedPrice(p, up) \in Nat /\ AdjustedPrice(p, up) \in Least[p] .. Most[p]
<1>1. value[p] \in Nat /\ value[p] \in Least[p] .. Most[p] /\ Least[p] \in Nat /\ Most[p] \in Nat
      /\ Portion \in Nat \ {0} /\ Portion <= value[p]
  BY PriceConstantTypes, PricesInvariant
<1> DEFINE s == value[p] \div Portion
<1>2. s \in Nat /\ s <= value[p]
  BY <1>1, StepShape
<1>3. StepOf(value[p], up) = IF up THEN value[p] + s ELSE value[p] - s
  BY DEF StepOf
<1> HIDE DEF s
<1>4. StepOf(value[p], up) \in Nat
  BY <1>1, <1>2, <1>3
<1> QED
  BY <1>1, <1>4 DEF AdjustedPrice, Adjustable

LEMMA LeadKeepsPrices ==
  ASSUME PricesInBounds, Lead
  PROVE  PricesInBounds'
<1>1. /\ value' = [p \in Networked |-> IF p \in Acting
                     THEN AdjustedPrice(p, Upwards(p, targets[p])) ELSE value[p]]
      /\ targets' = [p \in Params |-> IF p \in Acting
                       THEN MarkApplied(targets[p]) ELSE targets[p]]
      /\ calls' = calls
  BY DEF Lead, ApplyTargets
<1>2. /\ value \in [Networked -> Nat] /\ \A p \in Networked : value[p] \in Least[p] .. Most[p]
      /\ targets \in [Params -> Aims] /\ calls \in 0 .. MaxCalls
  BY PricesInvariant
<1>3. \A p \in Networked : value'[p] \in Nat /\ value'[p] \in Least[p] .. Most[p]
  BY <1>1, <1>2, AdjustedInBounds
<1>4. value' \in [Networked -> Nat]
  BY <1>1, <1>3
<1>5. ASSUME NEW p \in Acting
      PROVE  MarkApplied(targets[p]) \in Aims
  <2>1. p \in Params /\ targets[p] \in Aims /\ ~IsExpired(targets[p])
    BY <1>2, <1>5 DEF Acting, Acts
  <2>2. CASE targets[p].kind = "temporary"
    <3>1. targets[p] \in Fleeting
      BY <2>1, <2>2, AimShapes
    <3>2. targets[p].left - 1 \in 0 .. MaxDuration
      BY <2>1, <2>2, <3>1, PriceConstantTypes DEF IsExpired, Fleeting
    <3> QED
      BY <2>2, <3>1, <3>2 DEF MarkApplied, Aims, Fleeting
  <2>3. CASE targets[p].kind # "temporary"
    BY <2>1, <2>3 DEF MarkApplied
  <2> QED
    BY <2>2, <2>3
<1>6. targets' \in [Params -> Aims]
  BY <1>1, <1>2, <1>5
<1> QED
  BY <1>1, <1>2, <1>3, <1>4, <1>6, PricesInvariant DEF PricesInBounds, Aims

LEMMA NextKeepsPrices == PricesInBounds /\ [NextPrices]_priceVars => PricesInBounds'
<1> SUFFICES ASSUME PricesInBounds, [NextPrices]_priceVars
             PROVE  PricesInBounds'
  OBVIOUS
<1>1. CASE Lead
  BY <1>1, LeadKeepsPrices
<1>2. CASE \E p \in Params : RemoveTarget(p) \/ \E t \in Targets : SetTarget(p, t)
  <2>1. PICK p \in Params, t \in Aims : SetTarget(p, t)
    <3>1. Targets \subseteq Aims /\ NoTarget \in Aims
      <4>1. 1 .. MaxDuration \subseteq 0 .. MaxDuration
        OBVIOUS
      <4>2. Temporary \subseteq
              [kind : {"temporary"}, goal : {0}, up : BOOLEAN, left : 0 .. MaxDuration]
        BY <4>1 DEF Temporary
      <4> QED
        BY <4>2 DEF Targets, Aims
    <3> QED
      BY <1>2, <3>1 DEF RemoveTarget
  <2> QED
    BY <2>1 DEF SetTarget, PricesInBounds, Aims
<1>3. CASE \E p \in Networked, up \in BOOLEAN : AdjustByHand(p, up)
  <2>1. PICK p \in Networked, up \in BOOLEAN : AdjustByHand(p, up)
    BY <1>3
  <2>2. AdjustedPrice(p, up) \in Nat /\ AdjustedPrice(p, up) \in Least[p] .. Most[p]
    BY AdjustedInBounds
  <2>3. /\ value' = [value EXCEPT ![p] = AdjustedPrice(p, up)]
        /\ calls < MaxCalls /\ calls' = calls + 1 /\ targets' = targets
    BY <2>1 DEF AdjustByHand
  <2>4. value' \in [Networked -> Nat] /\ \A q \in Networked : value'[q] \in Least[q] .. Most[q]
    BY <2>2, <2>3 DEF PricesInBounds
  <2>5. calls' \in 0 .. MaxCalls
    BY <2>3, PriceConstantTypes DEF PricesInBounds
  <2> QED
    BY <2>3, <2>4, <2>5 DEF PricesInBounds
<1>4. CASE UNCHANGED <<targets, value, calls>>
  BY <1>4 DEF PricesInBounds
<1>5. \/ Lead
      \/ \E p \in Params : RemoveTarget(p) \/ \E t \in Targets : SetTarget(p, t)
      \/ \E p \in Networked, up \in BOOLEAN : AdjustByHand(p, up)
      \/ UNCHANGED <<targets, value, calls>>
  BY DEF NextPrices, priceVars, SetPrice, UpdateBounds, ResetToDefaults, ExportConfig,
         ImportConfig
<1> QED
  BY <1>1, <1>2, <1>3, <1>4, <1>5

LEMMA PricesStart ==
  ASSUME InitPrices
  PROVE  PricesInBounds
BY PriceConstantTypes DEF InitPrices, PricesInBounds

(* Whoever moves a network price, leaders after targets or anybody by hand, *)
(* it keeps within its bounds, and no temporary target acts once more than  *)
(* it was set for.                                                          *)
THEOREM PricesSafe == SpecPrices => []PricesInBounds
<1>1. InitPrices => PricesInBounds
  BY PricesStart
<1>2. PricesInBounds /\ [NextPrices]_priceVars => PricesInBounds'
  BY NextKeepsPrices
<1> QED
  BY <1>1, <1>2, PTL DEF SpecPrices

\* One leadership, seen from one price: it moves by a step towards the goal, or stays
\* because the goal or the bound is nearer than a step.
LEMMA OneStepNearer ==
  ASSUME NEW v \in Nat, NEW goal \in Nat, NEW low \in Nat, NEW high \in Nat, NEW s \in Nat, NEW w \in Nat,
         s >= 1, low <= v, v <= high, low <= goal, goal <= high,
         v = goal => w = v,
         v < goal => w = IF v + s <= high THEN v + s ELSE v,
         v > goal => w = IF low <= v - s THEN v - s ELSE v
  PROVE  Distance(w, goal) < Distance(v, goal) \/ Distance(w, goal) <= s
BY DEF Distance

(* Every leadership takes a price nearer to its operator's target, until it *)
(* is within one adjustment of it, from where it cannot get away again,     *)
(* although steps are fractions of the price and some are refused.          *)
THEOREM LeadersLead == SpecPrices => LeadersApproach
<1>1. PricesInBounds /\ [NextPrices]_priceVars =>
        [Lead => \A p \in Networked :
           LET goal == targets[p].goal
               before == Distance(value[p], goal)
               after == Distance(value'[p], goal)
           IN  targets[p].kind = "absolute" /\ goal \in Least[p] .. Most[p] =>
                 after < before \/ after <= value[p] \div Portion]_priceVars
  <2> SUFFICES ASSUME PricesInBounds, Lead, NEW p \in Networked,
                      targets[p].kind = "absolute", targets[p].goal \in Least[p] .. Most[p]
               PROVE  \/ Distance(value'[p], targets[p].goal) < Distance(value[p], targets[p].goal)
                      \/ Distance(value'[p], targets[p].goal) <= value[p] \div Portion
    OBVIOUS
  <2> DEFINE v == value[p]
             goal == targets[p].goal
             s == value[p] \div Portion
  <2>1. /\ v \in Nat /\ v \in Least[p] .. Most[p] /\ Least[p] \in Nat /\ Most[p] \in Nat
        /\ Portion \in Nat \ {0} /\ Portion <= v /\ p \in Params
    BY PriceConstantTypes, PricesInvariant
  <2>2. s \in Nat /\ s >= 1
    BY <2>1, StepShape
  <2>3. p \in Acting <=> v # goal
    BY <2>1 DEF Acting, Acts, IsExpired
  <2>4. Upwards(p, targets[p]) <=> v < goal
    BY DEF Upwards
  <2>5. value'[p] = IF p \in Acting THEN AdjustedPrice(p, Upwards(p, targets[p])) ELSE v
    BY DEF Lead
  <2>6. value'[p] \in Nat
    <3>1. PricesInBounds'
      BY LeadKeepsPrices
    <3> QED
      BY <3>1 DEF PricesInBounds
  <2>7. \A up : AdjustedPrice(p, up) = LET x == IF up THEN v + s ELSE v - s
                                      IN  IF Least[p] <= x /\ x <= Most[p] THEN x ELSE v
    BY DEF AdjustedPrice, Adjustable, StepOf
  <2> HIDE DEF v, goal, s
  <2>8. goal \in Nat /\ Least[p] <= goal /\ goal <= Most[p]
    BY <2>1 DEF goal
  <2>9. /\ v = goal => value'[p] = v
        /\ v < goal => value'[p] = IF v + s <= Most[p] THEN v + s ELSE v
        /\ v > goal => value'[p] = IF Least[p] <= v - s THEN v - s ELSE v
    BY <2>1, <2>2, <2>3, <2>4, <2>5, <2>7, <2>8
  <2> DEFINE w == value'[p]
  <2>10. w \in Nat /\ (v = goal => w = v)
         /\ (v < goal => w = IF v + s <= Most[p] THEN v + s ELSE v)
         /\ (v > goal => w = IF Least[p] <= v - s THEN v - s ELSE v)
    BY <2>6, <2>9
  <2> HIDE DEF w
  <2>11. Least[p] <= v /\ v <= Most[p]
    BY <2>1
  <2>12. Distance(w, goal) < Distance(v, goal) \/ Distance(w, goal) <= s
    BY <2>1, <2>2, <2>8, <2>10, <2>11, OneStepNearer
  <2> QED
    BY <2>12 DEF w, v, goal, s
<1>2. InitPrices => PricesInBounds
  BY PricesStart
<1>3. PricesInBounds /\ [NextPrices]_priceVars => PricesInBounds'
  BY NextKeepsPrices
<1> QED
  BY <1>1, <1>2, <1>3, PTL DEF SpecPrices, LeadersApproach
=============================================================================
