------------------------ MODULE ModelSchedulerProps ------------------------
(***************************************************************************)
(* What the training scheduler promises to owners and miners.              *)
(***************************************************************************)
EXTENDS ModelScheduler

\* No other model competes for m's place in the rotation.  Of several models in the tier
\* normal or low the rotation skips some (see NoModelStarves).
AloneInTier(m) == Priority[m] # "paused" /\ \A n \in Models \ {m} : Priority[n] # Priority[m]

\* The rotation queue names exactly the right models, although only some calls rebuild
\* it, getting a model rotates it, and a payment rebuilds it only when it lifts a flag
\* that other calls leave stale (add_model_payment): nobody who was paused, deprecated
\* or removed is in it, and whoever is active, has paid and is alone in a tier is.
QueueIsCurrent ==
  /\ \A i \in DOMAIN queue : queue[i] \in Registered /\ active[queue[i]]
  /\ \A m \in Models : Trainable(m) /\ AloneInTier(m) => m \in ToSet(queue)

\* Every token an owner paid in is in the slot, was spent on an iteration, was
\* withdrawn once, or was dropped with the slot.
PaymentsAreAccounted ==
  paid = SumFunctionOnSet(balance, Models) + spent + returned + forfeited

\* docs/MODEL_TRAINING_ROTATION.md: "No model is starved of training time".
\* A model that stays active and paid for is trained.  It holds with one model to a tier;
\* of two models in the tier normal the later one is never in the queue
\* (_update_rotation_queue takes the even indices only).
NoModelStarves ==
  \A m \in Models : Trainable(m) ~> (training = m \/ ~Trainable(m))
=============================================================================
