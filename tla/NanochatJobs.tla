---------------------------- MODULE NanochatJobs ----------------------------
(***************************************************************************)
(* The nanochat models of a node (nanochat/nanochat_integration.py): each  *)
(* has a configuration, a training job, weights kept between iterations,   *)
(* and an entry in the registry.                                           *)
(***************************************************************************)
EXTENDS ModelRegistry, FiniteSets

CONSTANTS
  Nanos,      \* identifiers of nanochat models: a hash of name, depth, owner and dataset
  NoJob,
  MinBlocks,  \* min_storage_blocks
  Total       \* total_iterations of a job

ASSUME NanochatConstants ==
  Nanos \subseteq OtherIds \ {Stub} /\ MinBlocks \in Nat \ {0} /\ Total \in Nat \ {0}

VARIABLES
  configs,  \* model_configs
  jobs,     \* training_jobs: of each model its status and its iterations
  weights   \* model_states

nanochat == <<configs, jobs, weights>>

Job == [status : {"pending", "training", "completed"}, done : Nat]

ASSUME NoJobIsNoJob == NoJob \notin Job

InitNanochat == configs = {} /\ jobs = [n \in Nanos |-> NoJob] /\ weights = {}

Stored(blocks) == IF blocks < MinBlocks THEN MinBlocks ELSE blocks

(* create_model: the same name, depth, owner and dataset make the same      *)
(* identifier, and a new job for it; weights of an earlier one are kept.    *)
(* The entry says that it was uploaded at block 0.                          *)
CreateModel(n, blocks) ==
  /\ configs' = configs \cup {n}
  /\ jobs' = [jobs EXCEPT ![n] = [status |-> "pending", done |-> 0]]
  /\ RegisterModel(n, "nanochat", 0, Stored(blocks))
  /\ UNCHANGED <<weights, height, loaded, files>>

(* node.create_nanochat_model: the storage payment is noted, and not taken. *)
CreateNanochatModel(n, blocks) ==
  /\ Call
  /\ CreateModel(n, blocks)
  /\ UNCHANGED wallet

MayStart(n) == jobs[n].status = "pending"

(* start_training *)
StartTraining(n) ==
  /\ Call
  /\ jobs[n] # NoJob /\ MayStart(n)
  /\ jobs' = [jobs EXCEPT ![n].status = "training"]
  /\ UNCHANGED <<configs, weights, height, models, loaded, files, wallet>>

(* train_iteration does not look at the status, nor at the registry.        *)
TrainIteration(n) ==
  /\ Call
  /\ jobs[n] # NoJob
  /\ jobs' = [jobs EXCEPT ![n].done = @ + 1,
                          ![n].status = IF jobs[n].done + 1 >= Total THEN "completed" ELSE @]
  /\ weights' = weights \cup {n}
  /\ UNCHANGED <<configs, height, models, loaded, files, wallet>>

\* Variant: the last block that is paid for does not count.
StorageExpiredEarly(entry) == height >= entry.upload + entry.expires

(* check_storage_expiration *)
StorageExpired(entry) == height > entry.upload + entry.expires

(* nanochat's cleanup_expired_models, called once the registry has removed  *)
(* its expired models: those it no longer knows are skipped.                *)
Unpaid == {n \in configs : models'[n] # NoModel /\ StorageExpired(models'[n])}

(* model_manager.cleanup_expired_models *)
CleanupExpiredModels ==
  /\ Call
  /\ ForgetExpired
  /\ configs' = configs \ Unpaid
  /\ jobs' = [n \in Nanos |-> IF n \in Unpaid THEN NoJob ELSE jobs[n]]
  /\ UNCHANGED weights

NanochatStep ==
  \/ \E n \in Nanos : \E b \in Terms : CreateNanochatModel(n, b)
  \/ \E n \in Nanos : StartTraining(n) \/ TrainIteration(n)
  \/ CleanupExpiredModels
  \/ RegistryStep /\ UNCHANGED nanochat
=============================================================================
