--------------------------- MODULE CatalogueProps ---------------------------
(* What a node's catalogue of models promises: the registry, its nanochat   *)
(* models, and the fine-tuning jobs and pipelines that start from it.       *)
EXTENDS TuningPipelines

(* The owner uploads the same file, or asks for the same model, again.      *)
RegisteredAnew(i) ==
  \/ i \in Uploads /\ \E b \in Terms : UploadModel(i, b)
  \/ i \in Nanos /\ \E b \in Terms : CreateNanochatModel(i, b)

(* Blocks of storage that remain are taken from a model by its owner alone: *)
(* not by cleanup_expired_models, whichever component's check it goes by,   *)
(* nor by a round or a job that registers a model of the same identifier.   *)
RemainingStorageIsKept ==
  [][\A i \in Ids : Available(i) =>
       /\ models'[i] # NoModel
       /\ models'[i].expires >= models[i].expires \/ RegisteredAnew(i)]_vars

(* A model that is loaded is registered: the memory and the cache do not    *)
(* outlive the entry that cleanup_expired_models removes.                   *)
LoadedAreRegistered == loaded \subseteq Registered

(* A nanochat model of the registry has its configuration and its job,      *)
(* though two components judge its expiry by formulas of their own: the     *)
(* registry by storage_expires, nanochat by upload_block + storage_expires. *)
NanochatIsWhole ==
  \A n \in Nanos \cap Registered : n \in configs /\ jobs[n] # NoJob

(* A nanochat job is completed exactly when it has made its iterations,     *)
(* whatever the order of starts and iterations.                             *)
CompletedMeansDone ==
  \A n \in Nanos : jobs[n] # NoJob => (jobs[n].status = "completed" <=> jobs[n].done >= Total)

(* Every job on the list of active jobs is there to be looked up, the job   *)
(* that failed because its base model had expired included.                 *)
ActiveJobsExist == active \subseteq Jobs

(* The layers of a pipeline are trained one at a time, in order, also when  *)
(* somebody progresses a pipeline that has not started.                     *)
OneLayerAtATime ==
  \A p \in Pipelines : pipelines[p] # NoPipeline =>
    \A l \in Layers : LET status == pipelines[p].layers[l].status
                      IN  /\ status = "active" => l = pipelines[p].at
                          /\ l > pipelines[p].at => status = "pending"
=============================================================================
