------------------------ MODULE TrainingMarketProps ------------------------
(***************************************************************************)
(* What the fee market promises to owners and miners.                      *)
(***************************************************************************)
EXTENDS TrainingMarket

\* "Cooldowns prevent the same model from consuming a slot every block": what a
\* block trains has rested for the whole configured cooldown, whatever other one its
\* tasks asked for (cooldown_blocks, which the code never reads), although submission,
\* selection and finalisation look at the cooldown at different times and owners
\* cancel and submit in between (_model_in_cooldown, finalize_block).
ModelsRest ==
  [][chosen /\ ~chosen' => \A t \in plan : rest[ModelOf[t]] >= Cooldown]_marketVars

\* "low-tip tasks cannot be starved indefinitely": a task whose tip, at its most
\* urgent, beats every fresh one is served before it expires, however owners
\* keep submitting and cancelling (urgency_multiplier, expire_stale_tasks).
Competitive(t) == \A u \in Tasks : Tip[t] * Cap > Tip[u] * Unit
CompetitiveTasksAreServed == \A t \in pending : Competitive(t) => left[t] > 0

\* Nobody is passed over for a task that tips less and came no earlier.
NoTaskIsOvertaken ==
  [][~chosen /\ chosen' =>
       \A t \in Eligible \ plan', s \in plan' :
         (\A u \in plan' : ModelOf[u] # ModelOf[t]) => ~(Tip[t] > Tip[s] /\ age[t] >= age[s])]_marketVars

-----------------------------------------------------------------------------
\* When that is so.  What a task can have to wait for: each task of another model that
\* tips as much, once, and each other task for its model, once with the cooldown after it.
UrgencyAfter(a) == Smaller(Unit + a * Rate, Cap)
Rivals(t) == {u \in Tasks : ModelOf[u] # ModelOf[t] /\ Tip[u] >= Tip[t]}
Siblings(t) == {u \in Tasks \ {t} : ModelOf[u] = ModelOf[t]}
RestAtFirst(t) == IF Siblings(t) = {} THEN 0 ELSE Cooldown - 1
Delay(t) ==
  Cardinality(Rivals(t)) + MaxSlots * (Cooldown * Cardinality(Siblings(t)) + RestAtFirst(t))

\* A task is at its most urgent after peak blocks, nobody beats it then who came less
\* than lead blocks ago, and in wait blocks all who may come first are served and not
\* yet back.
InTime(t, peak, lead, wait) ==
  /\ peak >= 1 /\ peak <= Cap /\ Unit + peak * Rate >= Cap
  /\ \A u \in Tasks, a \in 0 .. lead - 1 : u # t => Tip[u] * UrgencyAfter(a) < Tip[t] * Cap
  /\ wait <= lead + Cooldown /\ peak + wait <= Life
  /\ Delay(t) < MaxSlots * wait

CrowdFitsLife ==
  IsFiniteSet(Tasks) /\ \A t \in Tasks : Competitive(t) =>
                          \E peak, lead, wait \in 0 .. Life : InTime(t, peak, lead, wait)
=============================================================================
