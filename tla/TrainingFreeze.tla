--------------------------- MODULE TrainingFreeze ---------------------------
(***************************************************************************)
(* Strikes and freezes of the models a node trains (PogoConsensus).        *)
(*                                                                         *)
(* _training_failure_strikes and _frozen_training_models are two tables    *)
(* without a lock.  Mining threads write them one after the other when a   *)
(* training fails or succeeds; there may be several, because stop_mining   *)
(* leaves one that trains alone after two seconds.  Calls of owners clear  *)
(* both tables, also one after the other.  What owners pay is the matter   *)
(* of Economics, and so is the settlement of the blocks.                   *)
(***************************************************************************)
EXTENDS Naturals, FiniteSets

CONSTANTS
  Trainees,   \* models of the registry
  Threads,    \* mining threads of the node
  Refreshers, \* threads that run refreshes for owners
  Strikes,    \* training_failure_strikes_to_freeze
  NoModel,
  MaxRefreshes \* bound: refreshes

ASSUME FreezeConstants ==
  /\ Strikes \in Nat \ {0} /\ MaxRefreshes \in Nat
  /\ NoModel \notin Trainees

VARIABLES
  strikes,    \* _training_failure_strikes, 0 for a model without an entry
  frozen,     \* _frozen_training_models
  doing,      \* where a thread stands
  on,         \* the model it trains
  asked,      \* models it has still to ask for in this round
  read,       \* the count it read
  clearing,   \* the model whose freeze a refresh has lifted, not yet its strikes
  refreshes,  \* bounded counter
  crossed     \* history: models at which two threads met since they were last thawed

freezeVars == <<strikes, frozen, doing, on, asked, read, clearing, refreshes, crossed>>

Striking == {"counting", "counted", "freezing"}
Stages == {"idle", "round", "training"} \cup Striking

InitFreeze ==
  /\ strikes = [m \in Trainees |-> 0] /\ frozen = {}
  /\ doing = [w \in Threads |-> "idle"]
  /\ on = [w \in Threads |-> NoModel]
  /\ asked = [w \in Threads |-> {}]
  /\ read = [w \in Threads |-> 0]
  /\ clearing = [r \in Refreshers |-> NoModel]
  /\ refreshes = 0 /\ crossed = {}

-----------------------------------------------------------------------------
(* History: two threads meet at a model if both train it, or if a refresh of *)
(* it is under way while a strike is.                                       *)
Meeting(m) ==
  \E w \in Threads :
    /\ on[w] = m /\ doing[w] \in {"training"} \cup Striking
    /\ \/ \E v \in Threads \ {w} : on[v] = m /\ doing[v] \in {"training"} \cup Striking
       \/ doing[w] \in Striking /\ \E r \in Refreshers : clearing[r] = m

Meet(since) == crossed' = since \cup {m \in Trainees : Meeting(m)'}

-----------------------------------------------------------------------------
(* A mining thread                                                          *)

Moves(w, from, to) == doing[w] = from /\ doing' = [doing EXCEPT ![w] = to]

(* mine_block lists what is not frozen when the round begins ...            *)
ListTrainable(w) ==
  /\ Moves(w, "idle", "round")
  /\ asked' = [asked EXCEPT ![w] = Trainees \ frozen]
  /\ UNCHANGED <<strikes, frozen, on, read, clearing, refreshes>>

(* ... and create_training_block looks once more before it trains.          *)
Train(w, m) ==
  /\ Moves(w, "round", IF m \in frozen THEN "round" ELSE "training")
  /\ m \in asked[w] /\ asked' = [asked EXCEPT ![w] = @ \ {m}]
  /\ on' = [on EXCEPT ![w] = m]
  /\ UNCHANGED <<strikes, frozen, read, clearing, refreshes>>

(* Training raised an exception.                                            *)
AbandonTraining(w) ==
  /\ Moves(w, "training", "round")
  /\ UNCHANGED <<strikes, frozen, on, asked, read, clearing, refreshes>>

(* No salt improved the loss: _record_training_failure_strike reads the count, *)
MissImprovement(w) ==
  /\ Moves(w, "training", "counting")
  /\ read' = [read EXCEPT ![w] = strikes[on[w]]]
  /\ UNCHANGED <<strikes, frozen, on, asked, clearing, refreshes>>

(* writes it back,                                                          *)
CountStrike(w) ==
  /\ Moves(w, "counting", "counted")
  /\ strikes' = [strikes EXCEPT ![on[w]] = read[w] + 1]
  /\ UNCHANGED <<frozen, on, asked, read, clearing, refreshes>>

\* Variant: one strike more is needed.
ExceedsCap(c) == c > Strikes

ReachesCap(c) == c >= Strikes

(* reads it again (an entry that a refresh has removed raises a KeyError,   *)
(* which ends the training like a count below the cap does),                *)
ReadStrikes(w) ==
  /\ Moves(w, "counted", IF ReachesCap(strikes[on[w]]) THEN "freezing" ELSE "round")
  /\ UNCHANGED <<strikes, frozen, on, asked, read, clearing, refreshes>>

(* and freezes the model.                                                   *)
Freeze(w) ==
  /\ Moves(w, "freezing", "round")
  /\ frozen' = frozen \cup {on[w]}
  /\ UNCHANGED <<strikes, on, asked, read, clearing, refreshes>>

(* _on_training_mining_success: the result was published.  The round goes on *)
(* if verification refuses it.                                              *)
ClearStrikes(w) ==
  /\ \E refused \in BOOLEAN : Moves(w, "training", IF refused THEN "round" ELSE "idle")
  /\ strikes' = [strikes EXCEPT ![on[w]] = 0]
  /\ UNCHANGED <<frozen, on, asked, read, clearing, refreshes>>

LeaveRound(w) ==
  /\ Moves(w, "round", "idle")
  /\ UNCHANGED <<strikes, frozen, on, asked, read, clearing, refreshes>>

-----------------------------------------------------------------------------
(* A refresh that was paid for: reset_training_freeze_for_model             *)

Thaw(r, m) ==
  /\ refreshes < MaxRefreshes /\ refreshes' = refreshes + 1
  /\ clearing[r] = NoModel /\ clearing' = [clearing EXCEPT ![r] = m]
  /\ frozen' = frozen \ {m}
  /\ UNCHANGED <<strikes, doing, on, asked, read>>

ForgetStrikes(r) ==
  /\ clearing[r] # NoModel /\ clearing' = [clearing EXCEPT ![r] = NoModel]
  /\ strikes' = [strikes EXCEPT ![clearing[r]] = 0]
  /\ UNCHANGED <<frozen, doing, on, asked, read, refreshes>>

-----------------------------------------------------------------------------
NextFreeze ==
  \/ /\ \E w \in Threads :
          \/ ListTrainable(w) \/ \E m \in Trainees : Train(w, m)
          \/ AbandonTraining(w) \/ ClearStrikes(w) \/ LeaveRound(w)
          \/ MissImprovement(w) \/ CountStrike(w) \/ ReadStrikes(w) \/ Freeze(w)
     /\ Meet(crossed)
  \/ \E r \in Refreshers, m \in Trainees : Thaw(r, m) /\ Meet(crossed \ {m})
  \/ \E r \in Refreshers : ForgetStrikes(r) /\ Meet(crossed)

SpecFreeze == InitFreeze /\ [][NextFreeze]_freezeVars

-----------------------------------------------------------------------------
TypeOKFreeze ==
  /\ strikes \in [Trainees -> Nat] /\ frozen \subseteq Trainees
  /\ doing \in [Threads -> Stages]
  /\ on \in [Threads -> Trainees \cup {NoModel}]
  /\ asked \in [Threads -> SUBSET Trainees]
  /\ read \in [Threads -> Nat]
  /\ clearing \in [Refreshers -> Trainees \cup {NoModel}]
  /\ refreshes \in Nat /\ crossed \subseteq Trainees

BeingFrozen(m) == \E w \in Threads : on[w] = m /\ doing[w] \in {"counted", "freezing"}
BeingRefreshed(m) == \E r \in Refreshers : clearing[r] = m

\* Two tables that are never written together agree (consensus.py:450-475).  A model
\* that stands at its strikes is frozen, unless a thread is about to freeze it or a
\* refresh about to forget them, whoever interferes.  And a model is frozen for
\* standing there, unless two threads have met at it since it was last thawed: then
\* it may stay frozen without a strike.
FrozenWhileStruckOut ==
  \A m \in Trainees :
    /\ strikes[m] >= Strikes => m \in frozen \/ BeingFrozen(m) \/ BeingRefreshed(m)
    /\ m \in frozen /\ m \notin crossed => strikes[m] >= Strikes
=============================================================================
