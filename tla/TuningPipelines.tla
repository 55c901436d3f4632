-------------------------- MODULE TuningPipelines --------------------------
(***************************************************************************)
(* Fine-tuning in layers, each with a condition for going on to the next   *)
(* (fine_tuning/fine_tuning_pipeline.py).                                  *)
(***************************************************************************)
EXTENDS FineTuning

CONSTANTS
  Pipelines, NoPipeline,
  Conditions,  \* of each layer its progression_condition
  Target       \* condition_value of an iteration count

ASSUME PipelineConstants ==
  /\ DOMAIN Conditions = 1 .. Cardinality(DOMAIN Conditions) /\ DOMAIN Conditions # {}
  /\ DOMAIN Conditions \subseteq Nat
  /\ \A l \in DOMAIN Conditions : Conditions[l] \in {"count", "manual", "loss", "time"}
  /\ Target \in Nat \ {0}

VARIABLE pipelines  \* of each identifier its pipeline

vars == <<registry, nanochat, tuning, pipelines>>

Layers == DOMAIN Conditions
Pipeline == [status : {"pending", "training", "completed"}, at : Nat,
             layers : [Layers -> [status : {"pending", "active", "completed"}, done : Nat]]]

ASSUME NoPipelineIsNoPipeline == NoPipeline \notin Pipeline

CreatePipeline(p, base) ==
  /\ Call
  /\ pipelines[p] = NoPipeline /\ base \in Registered
  /\ pipelines' = [pipelines EXCEPT ![p] =
       [status |-> "pending", at |-> 1,
        layers |-> [l \in Layers |-> [status |-> "pending", done |-> 0]]]]
  /\ UNCHANGED <<tuning, models, store>>

Activated(layers, l) == IF l \in Layers THEN [layers EXCEPT ![l].status = "active"] ELSE layers

\* Variant: the layer that is left stays active.
LeftActive(layers, l) == layers

Left(layers, l) ==
  IF layers[l].status = "active" THEN [layers EXCEPT ![l].status = "completed"] ELSE layers

(* progress_to_next_layer *)
Progressed(pipe) ==
  LET next == pipe.at + 1
  IN  [pipe EXCEPT !.at = next,
                   !.layers = Activated(Left(@, pipe.at), next),
                   !.status = IF next \in Layers THEN @ ELSE "completed"]

(* is_progression_condition_met: the values it may have.  Accuracy is never *)
(* measured: its threshold is as good as manual.  Losses and the clock are  *)
(* not counted.                                                             *)
MetOf(pipe) ==
  LET layer == pipe.layers[pipe.at]
  IN  CASE Conditions[pipe.at] = "manual" -> {FALSE}
        [] Conditions[pipe.at] = "count" -> {layer.done >= Target}
        [] Conditions[pipe.at] = "loss" -> IF layer.done > 0 THEN BOOLEAN ELSE {FALSE}
        [] Conditions[pipe.at] = "time" -> IF layer.status = "active" THEN BOOLEAN ELSE {FALSE}

StartPipeline(p) ==
  /\ Call
  /\ pipelines[p] # NoPipeline /\ pipelines[p].status = "pending"
  /\ pipelines' = [pipelines EXCEPT ![p].status = "training",
                                    ![p].layers = Activated(@, pipelines[p].at)]
  /\ UNCHANGED <<tuning, models, store>>

(* train_iteration of a pipeline                                            *)
TrainLayer(p) ==
  LET l == pipelines[p].at
      trained == [pipelines[p] EXCEPT !.layers[l].done = @ + 1]
  IN  /\ Call
      /\ pipelines[p] # NoPipeline /\ pipelines[p].status = "training" /\ l \in Layers
      /\ \E met \in MetOf(trained) :
           pipelines' = [pipelines EXCEPT ![p] = IF met THEN Progressed(trained) ELSE trained]
      /\ UNCHANGED <<tuning, models, store>>

(* manual_progress_layer: the pipeline's status is not looked at.           *)
ManualProgressLayer(p, force) ==
  /\ Call
  /\ pipelines[p] # NoPipeline /\ pipelines[p].at \in Layers
  /\ force \/ TRUE \in MetOf(pipelines[p])
  /\ pipelines' = [pipelines EXCEPT ![p] = Progressed(@)]
  /\ UNCHANGED <<tuning, models, store>>

-----------------------------------------------------------------------------
Init ==
  /\ InitRegistry /\ InitNanochat /\ InitTuning
  /\ pipelines = [p \in Pipelines |-> NoPipeline]

Next ==
  \/ FineTuningStep /\ UNCHANGED pipelines
  \/ \E p \in Pipelines, base \in Ids : CreatePipeline(p, base)
  \/ \E p \in Pipelines : StartPipeline(p) \/ TrainLayer(p)
  \/ \E p \in Pipelines, force \in BOOLEAN : ManualProgressLayer(p, force)

Spec == Init /\ [][Next]_vars
=============================================================================
