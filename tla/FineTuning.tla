----------------------------- MODULE FineTuning -----------------------------
(***************************************************************************)
(* Fine-tuning of registered models: jobs on a registered dataset, which   *)
(* register a new model when they end (fine_tuning/fine_tuning.py).        *)
(***************************************************************************)
EXTENDS NanochatJobs

CONSTANTS
  Tunings,     \* fine-tuning jobs; the model a job makes bears its name
  Swept,       \* a job that was, and is not looked up any more
  Datasets,
  EpochSteps,  \* of each dataset num_examples \div batch_size
  MaxEpochs, MaxSteps,  \* num_epochs; max_steps or the steps max_cost_dessin pays for
  TunedTerm    \* storage_expires of a tuned model

ASSUME FineTuningConstants ==
  /\ Tunings \subseteq OtherIds \ (Nanos \cup {Stub})
  /\ EpochSteps \in [Datasets -> Nat] /\ {MaxEpochs, MaxSteps, TunedTerm} \subseteq Nat

VARIABLES
  datasets,   \* registered datasets
  tunings,    \* jobs
  active      \* active_jobs

tuning == <<datasets, tunings, active>>
store == <<nanochat, height, loaded, files, wallet>>

TuningJob == [status : {"pending", "training", "completed", "failed"}, base : Ids,
              data : Datasets, step : Nat, ended : BOOLEAN]

ASSUME NoTuningIsATuning == {NoJob, Swept} \cap TuningJob = {} /\ NoJob # Swept

Jobs == {t \in Tunings : tunings[t] \notin {NoJob, Swept}}

InitTuning ==
  /\ datasets = {} /\ active = {}
  /\ tunings = [t \in Tunings |-> NoJob]

RegisterDataset(d) ==
  /\ Call
  /\ datasets' = datasets \cup {d}
  /\ UNCHANGED <<tunings, active, models, store>>

CreateJob(t, base, d) ==
  /\ Call
  /\ tunings[t] = NoJob /\ base \in Registered /\ d \in datasets
  /\ tunings' = [tunings EXCEPT ![t] = [status |-> "pending", base |-> base, data |-> d,
                                        step |-> 0, ended |-> FALSE]]
  /\ UNCHANGED <<datasets, active, models, store>>

StartFineTuning(t) ==
  /\ Call
  /\ t \in Jobs /\ tunings[t].status = "pending"
  /\ tunings' = [tunings EXCEPT ![t].status = "training"]
  /\ active' = active \cup {t}
  /\ UNCHANGED <<datasets, models, store>>

(* A dataset of less than a batch divides by zero: the step is counted, and *)
(* nothing else is looked at.                                               *)
Suffices(t) ==
  LET step == tunings[t].step + 1
      perEpoch == EpochSteps[tunings[t].data]
  IN  perEpoch > 0 /\ (step >= MaxSteps \/ step \div perEpoch >= MaxEpochs)

(* simulate_fine_tuning_step *)
TuningStep(t) ==
  /\ t \in Jobs /\ tunings[t].status = "training" /\ ~Suffices(t)
  /\ Call
  /\ tunings' = [tunings EXCEPT ![t].step = @ + 1]
  /\ UNCHANGED <<datasets, active, models, store>>

(* The step that suffices, and _complete_fine_tuning: the tuned model is    *)
(* registered as of block 0, if its base still is.  A job that fails here   *)
(* stays among the active ones.                                             *)
CompleteFineTuning(t) ==
  /\ t \in Jobs /\ tunings[t].status = "training" /\ Suffices(t)
  /\ Call
  /\ IF tunings[t].base \in Registered
     THEN /\ RegisterModel(t, models[tunings[t].base].format, 0, TunedTerm)
          /\ tunings' = [tunings EXCEPT ![t].step = @ + 1, ![t].status = "completed", ![t].ended = TRUE]
          /\ active' = active \ {t}
     ELSE /\ tunings' = [tunings EXCEPT ![t].step = @ + 1, ![t].status = "failed"]
          /\ UNCHANGED <<models, active>>
  /\ UNCHANGED <<datasets, store>>

Sweepable(t) == tunings[t].status \in {"completed", "failed"} /\ tunings[t].ended

(* cleanup_completed_jobs, for the jobs in old                              *)
CleanupCompletedJobs(old) ==
  /\ Call
  /\ tunings' = [t \in Tunings |-> IF t \in old THEN Swept ELSE tunings[t]]
  /\ UNCHANGED <<datasets, active, models, store>>

FineTuningStep ==
  \/ NanochatStep /\ UNCHANGED tuning
  \/ \E d \in Datasets : RegisterDataset(d)
  \/ \E t \in Tunings, base \in Ids, d \in Datasets : CreateJob(t, base, d)
  \/ \E t \in Tunings : StartFineTuning(t) \/ TuningStep(t) \/ CompleteFineTuning(t)
  \/ \E old \in SUBSET {t \in Jobs : Sweepable(t)} :
       old # {} /\ CleanupCompletedJobs(old)
=============================================================================
