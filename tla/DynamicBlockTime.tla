-------------------------- MODULE DynamicBlockTime --------------------------
(***************************************************************************)
(* How long a slot lasts (dessin/consensus/dynamic_block_time.py and the   *)
(* block timer of enhanced_pogo_consensus.py), on one node.  The timer     *)
(* fields of a block are not part of what a block is serialised to, so     *)
(* nothing of this reaches another node.                                   *)
(***************************************************************************)
EXTENDS Integers

CONSTANTS
  Blocks,
  MinSlot, MaxSlot,   \* min_block_time_seconds, max_block_time_seconds
  InitialSlot,        \* training_block_time_minutes in seconds
  OwnFloor,           \* min_block_time_seconds of the manager, not of the config
  Step,               \* block_time_adjustment_seconds
  Stress, Slack,      \* <<n, d>>: stress_step_multiplier, slack_step_multiplier
  SlowDown, SpeedUp,  \* <<n, d>>: 1 + ramp_down_, 1 - ramp_up_capacity_pct
  MaxTimings          \* bound: timings of one block

ASSUME SlotConstants ==
  /\ {MinSlot, MaxSlot, OwnFloor, Step, MaxTimings} \subseteq Nat \ {0} /\ MinSlot <= MaxSlot
  /\ InitialSlot \in Nat /\ {Stress, Slack, SlowDown, SpeedUp} \subseteq Nat \X (Nat \ {0})

VARIABLES
  slot,      \* current_block_time_seconds
  timings,   \* of each block: verification_timings
  pending,   \* of each block: the slot the last of pending_adjustments asks for
  approved,  \* of each block: the slot approved_adjustments asks for
  mark,      \* of each block this node mined: its timer fields
  fresh,     \* history, of each block: proposed since the last application
  given      \* history, of each block: the slot it gave when it was first followed

vars == <<slot, timings, pending, approved, mark, fresh, given>>

None == [flag |-> "none", at |-> 0]
NoSlot == 0

Ceil(x, q) == (x * q[1] + q[2] - 1) \div q[2]
Floor(x, q) == (x * q[1]) \div q[2]
Larger(x, y) == IF x > y THEN x ELSE y
InSlotBounds(x) == MinSlot <= x /\ x <= MaxSlot

(* _clamp_block_time_seconds, for whole seconds *)
Clamp(x) == IF x > MaxSlot THEN MaxSlot ELSE Larger(x, MinSlot)

Init ==
  /\ slot = Clamp(InitialSlot)
  /\ timings = [b \in Blocks |-> [open |-> 0, done |-> 0, late |-> 0]]
  /\ pending = [b \in Blocks |-> NoSlot] /\ approved = pending /\ given = pending
  /\ mark = [b \in Blocks |-> None]
  /\ fresh = [b \in Blocks |-> FALSE]

Timed(t) == t.open + t.done
Start(b) == [timings[b] EXCEPT !.open = @ + 1]

(* Half of the timings late is stress, a tenth slack; open ones are in time. *)
Stressed(t) == t.late * 2 >= Timed(t)
Slackened(t) == t.late * 10 <= Timed(t) /\ slot > MinSlot

Proposed(t) ==
  IF Stressed(t) THEN Clamp(slot + Ceil(Step, Stress))
  ELSE IF Slackened(t) THEN Clamp(slot - Floor(Step, Slack)) ELSE slot

Flag(t) ==
  CASE Stressed(t) -> IF slot + Ceil(Step, Stress) > MaxSlot THEN "maintain" ELSE "increase"
    [] ~Stressed(t) /\ Slackened(t) -> "decrease"
    [] OTHER -> "maintain"

Propose(b, t) ==
  /\ pending' = [pending EXCEPT ![b] = Proposed(t)]
  /\ fresh' = [fresh EXCEPT ![b] = TRUE]

(* A miner starts to time its new block and judges it at once.              *)
Mine(b) ==
  /\ mark[b] = None /\ Timed(timings[b]) = 0
  /\ timings' = [timings EXCEPT ![b] = Start(b)]
  /\ Propose(b, Start(b))
  /\ mark' = [mark EXCEPT ![b] = [flag |-> Flag(Start(b)), at |-> slot]]
  /\ UNCHANGED <<slot, approved, given>>

(* A phase of an own block, or of a peer's, is timed.                       *)
StartTiming(b) ==
  /\ Timed(timings[b]) < MaxTimings
  /\ timings' = [timings EXCEPT ![b] = Start(b)]
  /\ UNCHANGED <<slot, pending, approved, mark, fresh, given>>

EndTiming(b, late) ==
  /\ timings[b].open > 0
  /\ timings' = [timings EXCEPT ![b].open = @ - 1, ![b].done = @ + 1, ![b].late = @ + late]
  /\ UNCHANGED <<slot, pending, approved, mark, fresh, given>>

ProposeAdjustment(b) ==
  /\ Timed(timings[b]) > 0
  /\ Propose(b, timings[b])
  /\ UNCHANGED <<slot, timings, approved, mark, given>>

(* One approving vote is enough, and takes the last proposal.               *)
Vote(b) ==
  /\ pending[b] # NoSlot /\ InSlotBounds(pending[b])
  /\ approved' = [approved EXCEPT ![b] = pending[b]]
  /\ UNCHANGED <<slot, timings, pending, mark, fresh, given>>

\* Variant: what was applied can be approved again.
SettledAndKept(p, b) == p

Settled(p, b) == [p EXCEPT ![b] = NoSlot]

ApplyApproved(b) ==
  /\ approved[b] # NoSlot
  /\ slot' = Clamp(approved[b])
  /\ approved' = Settled(approved, b)
  /\ pending' = Settled(pending, b)
  /\ fresh' = [fresh EXCEPT ![b] = FALSE]
  /\ UNCHANGED <<timings, mark, given>>

(* Where a block's adjustment starts from.                                  *)
From(b) == mark[b].at

(* What the adjustment of a block makes of the slot: a whole step.          *)
Adjusted(b) ==
  CASE mark[b].flag = "increase" -> From(b) + Step
    [] mark[b].flag = "decrease" -> Larger(MinSlot, From(b) - Step)
    [] OTHER -> From(b)

(* apply_block_time_adjustment *)
FollowBlock(b) ==
  /\ mark[b] # None /\ InSlotBounds(Adjusted(b))
  /\ slot' = Adjusted(b)
  /\ given' = [given EXCEPT ![b] = IF @ = NoSlot THEN Adjusted(b) ELSE @]
  /\ UNCHANGED <<timings, pending, approved, mark, fresh>>

(* adjust_block_time_adaptive: validation took much, or little, of the slot. *)
AdaptToStress == slot' = Clamp(Ceil(slot, SlowDown))

AdaptToSlack == slot' = Clamp(Larger(Larger(MinSlot, OwnFloor), Ceil(slot, SpeedUp)))

Adapt ==
  /\ AdaptToStress \/ AdaptToSlack
  /\ UNCHANGED <<timings, pending, approved, mark, fresh, given>>

Next ==
  \/ Adapt
  \/ \E b \in Blocks :
       \/ Mine(b) \/ StartTiming(b) \/ \E late \in 0 .. 1 : EndTiming(b, late)
       \/ ProposeAdjustment(b) \/ Vote(b) \/ ApplyApproved(b) \/ FollowBlock(b)

Spec == Init /\ [][Next]_vars

-----------------------------------------------------------------------------
(* What the block timer promises.                                          *)

\* Consensus bounds hold for every slot, and for everything a slot may be set to
\* later: proposals, approvals and the marks of blocks (dynamic_block_time.py:139-153).
SlotsInBounds ==
  /\ slot \in MinSlot .. MaxSlot
  /\ {pending, approved} \subseteq [Blocks -> {NoSlot} \cup MinSlot .. MaxSlot]
  /\ mark \in [Blocks -> {None} \cup [flag : {"increase", "decrease", "maintain"}, at : MinSlot .. MaxSlot]]

\* Following the same block again takes no second step: it sets the slot it set the
\* first time, whatever moved the slot since (apply_block_time_adjustment).
FollowingIsIdempotent ==
  [][\A b \in Blocks : given[b] # NoSlot /\ FollowBlock(b) => slot' = given[b]]_vars

\* What awaits application was proposed since the last adjustment of that block was
\* applied: repeating votes and applications repeats no adjustment
\* (vote_on_adjustment, apply_approved_adjustment).
NothingIsAppliedTwice == \A b \in Blocks : approved[b] # NoSlot => fresh[b]
=============================================================================
