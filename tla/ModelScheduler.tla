--------------------------- MODULE ModelScheduler ---------------------------
(***************************************************************************)
(* The training scheduler (ModelTrainingScheduler): which registered model *)
(* is trained next, and who has paid for it.  One miner runs the           *)
(* documented loop: ask for a model, train, record the iteration if the    *)
(* training succeeded; owners register, pay, pause, resume, deprecate,     *)
(* withdraw and remove in between (ModelLifecycleManager).                 *)
(*                                                                         *)
(* fair_rotation is TRUE, as the constructor sets it and nothing unsets.   *)
(***************************************************************************)
EXTENDS Integers, Sequences, SequencesExt, FiniteSetsExt

CONSTANTS
  Models,          \* model identifiers
  None,            \* no model
  Priority,        \* [Models -> {"high", "normal", "low", "paused"}]
  Price,           \* [Models -> Nat]: payment_per_iteration
  MinBalance,      \* min_balance_required
  RoundIterations, \* round_iterations
  Payments,        \* amounts that owners pay
  MaxCalls         \* bound: calls of owners

ASSUME SchedulerConstants ==
  /\ None \notin Models /\ IsFiniteSet(Models)
  /\ Priority \in [Models -> {"high", "normal", "low", "paused"}]
  /\ Price \in [Models -> Nat]
  /\ {MinBalance, RoundIterations} \subseteq Nat \ {0}
  /\ Payments \subseteq Nat /\ MaxCalls \in Nat

VARIABLES
  order,      \* training_slots, in the order of registration
  balance, active, paidUp, deprecated, inRound, \* fields of a slot, by model
  queue,      \* rotation_queue
  training,   \* the model the miner is training
  paid, spent, returned, forfeited, \* history: tokens paid in, spent, withdrawn, dropped
  calls       \* bounded counter

accounts == <<paid, spent, returned, forfeited>>
vars == <<order, balance, active, paidUp, deprecated, inRound, queue, training, accounts, calls>>

Registered == {order[i] : i \in DOMAIN order}

Init ==
  /\ order = <<>> /\ queue = <<>> /\ training = None
  /\ balance = [m \in Models |-> 0]
  /\ active = [m \in Models |-> FALSE]
  /\ paidUp = [m \in Models |-> FALSE]
  /\ deprecated = [m \in Models |-> FALSE]
  /\ inRound = [m \in Models |-> 0]
  /\ paid = 0 /\ spent = 0 /\ returned = 0 /\ forfeited = 0
  /\ calls = 0

-----------------------------------------------------------------------------
(* _update_rotation_queue                                                   *)

Tier(p, ord, act, bal) ==
  FlattenSeq([i \in 1 .. Len(ord) |->
    IF Priority[ord[i]] = p /\ act[ord[i]] /\ bal[ord[i]] >= MinBalance THEN <<ord[i]>> ELSE <<>>])

Pick(s, i, stride) ==
  IF s = <<>> \/ i % stride # 0 THEN <<>> ELSE <<s[(i % Len(s)) + 1]>>

Rotation(ord, act, bal) ==
  LET high == Tier("high", ord, act, bal)
      normal == Tier("normal", ord, act, bal)
      low == Tier("low", ord, act, bal)
      span == Max({3 * Len(high), 2 * Len(normal), Len(low), 1})
  IN  FlattenSeq([k \in 1 .. span |->
        Pick(high, k - 1, 1) \o Pick(normal, k - 1, 2) \o Pick(low, k - 1, 3)])

\* The slots become these, and the queue and the flags of active slots follow.
Rebuild(ord, act, bal, flags) ==
  /\ order' = ord /\ active' = act /\ balance' = bal
  /\ queue' = Rotation(ord, act, bal)
  /\ paidUp' = [m \in Models |->
       IF act[m] /\ \E i \in DOMAIN ord : ord[i] = m THEN bal[m] >= MinBalance ELSE flags[m]]

-----------------------------------------------------------------------------
(* The miner's loop                                                         *)

Trainable(m) == m \in Registered /\ active[m] /\ balance[m] >= MinBalance

\* Variant: the queue is not rotated.
GetNextUnrotated ==
  LET q == IF queue = <<>> THEN Rotation(order, active, balance) ELSE queue
      valid == {i \in DOMAIN q : Trainable(q[i])}
  IN
  /\ training = None /\ valid # {}
  /\ training' = q[Min(valid)]
  /\ queue' = q
  /\ UNCHANGED <<order, balance, active, paidUp, deprecated, inRound, accounts, calls>>

(* get_next_model_for_training; without a trainable model nothing moves.    *)
(* An empty queue is rebuilt first (it then has nobody to add: see          *)
(* QueueIsCurrent).                                                         *)
GetNext ==
  LET q == IF queue = <<>> THEN Rotation(order, active, balance) ELSE queue
      valid == {i \in DOMAIN q : Trainable(q[i])}
      k == Min(valid)
  IN
  /\ training = None /\ valid # {}
  /\ training' = q[k]
  /\ queue' = SubSeq(q, k + 1, Len(q)) \o SubSeq(q, 1, k)
  /\ UNCHANGED <<order, balance, active, paidUp, deprecated, inRound, accounts, calls>>

(* The training iteration failed and is not recorded, or the slot is gone  *)
(* when it is recorded.                                                     *)
DropIteration ==
  /\ training # None /\ training' = None
  /\ UNCHANGED <<order, balance, active, paidUp, deprecated, inRound, queue, accounts, calls>>

\* deduct_payment; the queue is rebuilt when the round of m is full.
Charge(m) ==
  LET bal == [balance EXCEPT ![m] = @ - Price[m]]
      full == inRound[m] + 1 >= RoundIterations
  IN
  /\ balance[m] >= Price[m]
  /\ spent' = spent + Price[m]
  /\ inRound' = [inRound EXCEPT ![m] = IF full THEN 0 ELSE @ + 1]
  /\ IF full THEN Rebuild(order, active, bal, paidUp)
     ELSE balance' = bal /\ UNCHANGED <<order, active, paidUp, queue>>

\* The iteration goes unpaid; the rebuild decides again on paidUp.
Refuse(m) ==
  /\ balance[m] < Price[m]
  /\ Rebuild(order, active, balance, [paidUp EXCEPT ![m] = FALSE])
  /\ UNCHANGED <<spent, inRound>>

(* record_training_iteration of a slot that is still there.                 *)
RecordIteration ==
  /\ training \in Registered /\ training' = None
  /\ Charge(training) \/ Refuse(training)
  /\ UNCHANGED <<deprecated, paid, returned, forfeited, calls>>

Miner == GetNext \/ DropIteration \/ RecordIteration

-----------------------------------------------------------------------------
(* The owners                                                               *)

Call == calls < MaxCalls /\ calls' = calls + 1

RegisterModel(m, x) ==
  /\ Call
  /\ m \notin Registered
  /\ Rebuild(Append(order, m), [active EXCEPT ![m] = TRUE], [balance EXCEPT ![m] = x],
             [paidUp EXCEPT ![m] = TRUE])
  /\ deprecated' = [deprecated EXCEPT ![m] = FALSE]
  /\ inRound' = [inRound EXCEPT ![m] = 0]
  /\ paid' = paid + x
  /\ UNCHANGED <<training, spent, returned, forfeited>>

\* Variant: the rotation is left to the next rebuild.
AddPaymentOnly(m, x) ==
  /\ Call
  /\ m \in Registered
  /\ paid' = paid + x
  /\ balance' = [balance EXCEPT ![m] = @ + x]
  /\ UNCHANGED <<order, active, paidUp, queue>>
  /\ UNCHANGED <<deprecated, inRound, training, spent, returned, forfeited>>

(* add_model_payment rebuilds only when it lifts paidUp.                    *)
AddPayment(m, x) ==
  LET bal == [balance EXCEPT ![m] = @ + x] IN
  /\ Call
  /\ m \in Registered
  /\ paid' = paid + x
  /\ IF ~paidUp[m] /\ bal[m] >= MinBalance
     THEN Rebuild(order, active, bal, [paidUp EXCEPT ![m] = TRUE])
     ELSE balance' = bal /\ UNCHANGED <<order, active, paidUp, queue>>
  /\ UNCHANGED <<deprecated, inRound, training, spent, returned, forfeited>>

(* pause_model and resume_model.  Neither looks at deprecated.              *)
SetActive(m, flag) ==
  /\ Call
  /\ m \in Registered
  /\ Rebuild(order, [active EXCEPT ![m] = flag], balance, paidUp)
  /\ UNCHANGED <<deprecated, inRound, training, accounts>>

(* auto_pause_unfunded_models: everybody whose flag is down.                *)
AutoPause ==
  LET unfunded == {m \in Registered : active[m] /\ ~paidUp[m]} IN
  /\ Call
  /\ unfunded # {}
  /\ Rebuild(order, [m \in Models |-> active[m] /\ m \notin unfunded], balance, paidUp)
  /\ UNCHANGED <<deprecated, inRound, training, accounts>>

(* deprecate_model, by the owner or by auto_deprecate_old_models.           *)
Deprecate(m) ==
  /\ Call
  /\ m \in Registered
  /\ Rebuild(order, [active EXCEPT ![m] = FALSE], balance, paidUp)
  /\ deprecated' = [deprecated EXCEPT ![m] = TRUE]
  /\ UNCHANGED <<inRound, training, accounts>>

\* Variant: what is withdrawn stays in the slot.
WithdrawTwice(m) ==
  /\ Call
  /\ m \in Registered /\ (~active[m] \/ deprecated[m])
  /\ returned' = returned + balance[m]
  /\ UNCHANGED <<order, balance, active, paidUp, deprecated, inRound, queue, training, paid, spent,
                 forfeited>>

(* withdraw_balance of the owner; the queue and the flag are left as they are. *)
Withdraw(m) ==
  /\ Call
  /\ m \in Registered /\ (~active[m] \/ deprecated[m])
  /\ returned' = returned + balance[m]
  /\ balance' = [balance EXCEPT ![m] = 0]
  /\ UNCHANGED <<order, active, paidUp, deprecated, inRound, queue, training, paid, spent, forfeited>>

(* remove_model drops what the slot still holds.                            *)
RemoveModel(m) ==
  LET place == CHOOSE i \in DOMAIN order : order[i] = m IN
  /\ Call
  /\ m \in Registered
  /\ Rebuild(RemoveAt(order, place), [active EXCEPT ![m] = FALSE],
             [balance EXCEPT ![m] = 0], [paidUp EXCEPT ![m] = FALSE])
  /\ deprecated' = [deprecated EXCEPT ![m] = FALSE]
  /\ inRound' = [inRound EXCEPT ![m] = 0]
  /\ forfeited' = forfeited + balance[m]
  /\ UNCHANGED <<training, paid, spent, returned>>

Owners ==
  \/ AutoPause
  \/ \E m \in Models :
       \/ \E x \in Payments : RegisterModel(m, x) \/ AddPayment(m, x)
       \/ \E flag \in BOOLEAN : SetActive(m, flag)
       \/ Deprecate(m) \/ Withdraw(m) \/ RemoveModel(m)

Next == Miner \/ Owners

Spec == Init /\ [][Next]_vars

\* The miner keeps asking and every training ends; owners need not call.
Fairness == WF_vars(GetNext) /\ WF_vars(DropIteration \/ RecordIteration)

FairSpec == Spec /\ Fairness
=============================================================================
