-------------------------- MODULE CatalogueProofs --------------------------
(***************************************************************************)
(* Proofs about the catalogue of models, for any identifiers, datasets,    *)
(* layers, terms, prices and bounds.                                       *)
(***************************************************************************)
EXTENDS CatalogueProps, TLAPS

LEMMA ConstantFacts ==
  /\ Terms \subseteq Nat \ {0} /\ StubTerm \in Nat /\ TunedTerm \in Nat
  /\ MinBlocks \in Nat \ {0} /\ Total \in Nat \ {0}
  /\ Uploads \subseteq Ids /\ Nanos \subseteq Ids /\ Tunings \subseteq Ids /\ Stub \in Ids
  /\ Uploads \cap Nanos = {} /\ Uploads \cap Tunings = {} /\ Nanos \cap Tunings = {}
  /\ Stub \notin Uploads /\ Stub \notin Nanos /\ Stub \notin Tunings
  /\ NoModel \notin Entry /\ NoJob \notin Job /\ Layers \subseteq Nat
BY RegistryConstants, NanochatConstants, FineTuningConstants, PipelineConstants,
   NoModelIsNoEntry, NoJobIsNoJob DEF Ids, Layers

-----------------------------------------------------------------------------
(* The registry                                                             *)

\* A nanochat model counts as uploaded at block 0: the two formulas of expiry agree.
RegistryInv ==
  /\ height \in Nat
  /\ models \in [Ids -> Entry \cup {NoModel}]
  /\ LoadedAreRegistered
  /\ \A n \in Nanos : models[n] # NoModel => models[n].upload = 0

\* Registering a model adds it, and keeps the others.
LEMMA RegisterShape ==
  ASSUME RegistryInv, NEW i \in Ids, NEW format \in {"gguf", "nanochat", "pytorch"},
         NEW upload \in Nat, NEW expires \in Nat, i \in Nanos => upload = 0,
         RegisterModel(i, format, upload, expires), loaded' = loaded, height' = height
  PROVE  RegistryInv' /\ Registered' = Registered \cup {i}
<1> DEFINE e == [format |-> format, upload |-> upload, expires |-> expires]
<1>1. e \in Entry
  BY DEF Entry
<1>2. e # NoModel
  BY <1>1, ConstantFacts
<1>3. models' = [models EXCEPT ![i] = e]
  BY DEF RegisterModel
<1>4. models' \in [Ids -> Entry \cup {NoModel}]
  BY <1>1, <1>3 DEF RegistryInv
<1>5. \A j \in Ids : models'[j] = IF j = i THEN e ELSE models[j]
  BY <1>3 DEF RegistryInv
<1>6. Registered' = Registered \cup {i}
  BY <1>2, <1>5 DEF Registered
<1>7. \A n \in Nanos : models'[n] # NoModel => models'[n].upload = 0
  BY <1>5, ConstantFacts DEF RegistryInv
<1> HIDE DEF e
<1> QED
  BY <1>4, <1>6, <1>7 DEF RegistryInv, LoadedAreRegistered

\* So does prolonging one.
LEMMA ProlongShape ==
  ASSUME RegistryInv, NEW i \in Registered, NEW blocks \in Nat, Prolong(i, blocks),
         loaded' = loaded, height' = height
  PROVE  /\ RegistryInv' /\ Registered' = Registered
         /\ \A j \in Registered : models'[j].expires >= models[j].expires
<1>1. i \in Ids /\ models[i] \in Entry
  BY DEF Registered, RegistryInv
<1> DEFINE e == [models[i] EXCEPT !.expires = @ + blocks]
<1>2. e \in Entry /\ e.upload = models[i].upload /\ e.expires >= models[i].expires
  BY <1>1 DEF Entry
<1>3. e # NoModel
  BY <1>2, ConstantFacts
<1>4. models' = [models EXCEPT ![i] = e]
  BY <1>1 DEF Prolong, RegistryInv
<1>5. \A j \in Ids : models'[j] = IF j = i THEN e ELSE models[j]
  BY <1>4 DEF RegistryInv
<1>6. models' \in [Ids -> Entry \cup {NoModel}]
  BY <1>2, <1>4 DEF RegistryInv
<1> HIDE DEF e
<1>7. Registered' = Registered
  BY <1>1, <1>3, <1>5, ConstantFacts DEF Registered
<1>8. \A j \in Registered : models[j] \in Entry
  BY DEF Registered, RegistryInv
<1>9. \A j \in Registered : models'[j].expires >= models[j].expires
  BY <1>2, <1>5, <1>8 DEF Registered, Entry
<1>10. \A n \in Nanos : models'[n] # NoModel => models'[n].upload = 0
  BY <1>1, <1>2, <1>5, ConstantFacts DEF RegistryInv
<1> QED
  BY <1>6, <1>7, <1>9, <1>10 DEF RegistryInv, LoadedAreRegistered

\* The cleanup removes what has expired, from the memory as well.
LEMMA ForgetShape ==
  ASSUME RegistryInv, ForgetExpired
  PROVE  /\ RegistryInv' /\ Registered' = Registered \ Expired
         /\ \A i \in Registered' : models'[i] = models[i] /\ height <= models[i].expires
<1>1. \A i \in Ids : models'[i] = IF i \in Expired THEN NoModel ELSE models[i]
  BY DEF ForgetExpired, RegistryInv
<1>2. models' \in [Ids -> Entry \cup {NoModel}]
  BY DEF ForgetExpired, RegistryInv
<1>3. Registered' = Registered \ Expired
  BY <1>1 DEF Registered
<1>4. \A i \in Registered' : models'[i] = models[i] /\ i \in Registered /\ models[i] \in Entry
  BY <1>1, <1>3 DEF Registered, RegistryInv
<1>5. \A i \in Registered' : height <= models[i].expires
  BY <1>3, <1>4 DEF Expired, Lapsed, Entry, RegistryInv
<1>6. \A n \in Nanos : models'[n] # NoModel => models'[n].upload = 0
  BY <1>1, ConstantFacts DEF RegistryInv
<1> QED
  BY <1>2, <1>3, <1>4, <1>5, <1>6 DEF RegistryInv, LoadedAreRegistered, ForgetExpired

\* Nothing else that a step does touches the registry's promises.
LEMMA RegistryUntouched ==
  ASSUME RegistryInv, models' = models, height' \in Nat, loaded' \subseteq Registered
  PROVE  RegistryInv' /\ Registered' = Registered
BY DEF RegistryInv, LoadedAreRegistered, Registered

\* What RemainingStorageIsKept asks of a step.
Kept == \A i \in Ids : Available(i) =>
  /\ models'[i] # NoModel
  /\ models'[i].expires >= models[i].expires \/ RegisteredAnew(i)

LEMMA UntouchedKeeps ==
  ASSUME RegistryInv, models' = models
  PROVE  Kept
<1>1. \A i \in Registered : models[i] \in Entry
  BY DEF RegistryInv, Registered
<1> QED
  BY <1>1 DEF Kept, Available, Registered, Entry

LEMMA RegisterKeeps ==
  ASSUME RegistryInv, NEW i \in Ids, NEW format, NEW upload, NEW expires,
         RegisterModel(i, format, upload, expires),
         i \in Registered', RegisteredAnew(i) \/ ~Available(i)
  PROVE  Kept
<1>1. \A j \in Ids \ {i} : models'[j] = models[j]
  BY DEF RegisterModel, RegistryInv
<1>2. \A j \in Registered : models[j] \in Entry
  BY DEF RegistryInv, Registered
<1>3. models'[i] # NoModel
  BY DEF Registered
<1>4. \A j \in Registered : models[j].expires >= models[j].expires
  BY <1>2 DEF Entry
<1> SUFFICES ASSUME NEW j \in Ids, Available(j)
             PROVE  /\ models'[j] # NoModel
                    /\ models'[j].expires >= models[j].expires \/ RegisteredAnew(j)
  BY DEF Kept
<1>5. j \in Registered
  BY DEF Available
<1>6. CASE j = i
  BY <1>3, <1>6
<1>7. CASE j # i
  BY <1>1, <1>4, <1>5, <1>7 DEF Registered
<1> QED
  BY <1>6, <1>7

LEMMA RegistryStepKeeps ==
  ASSUME RegistryInv, RegistryStep
  PROVE  /\ RegistryInv' /\ Kept
         /\ Registered \subseteq Registered' /\ Registered' \subseteq Registered \cup Uploads \cup {Stub}
<1>1. CASE \/ Grow
           \/ \E i \in Uploads : PlaceFile(i)
           \/ \E i \in Ids, t \in 1 .. MaxTokens : QueryModel(i, t)
           \/ \E i \in Ids : UnloadModel(i)
  <2>1. models' = models /\ height' \in Nat
    BY <1>1 DEF Grow, PlaceFile, QueryModel, UnloadModel, RegistryInv
  <2>2. loaded' \subseteq Registered
    BY <1>1 DEF Grow, PlaceFile, QueryModel, UnloadModel, Answer, RegistryInv, LoadedAreRegistered
  <2> QED
    BY <2>1, <2>2, RegistryUntouched, UntouchedKeeps
<1>2. CASE BeginRound
  <2>1. RegistryInv' /\ Registered' = Registered \cup {Stub}
    BY <1>2, ConstantFacts, RegisterShape DEF BeginRound, CreateDummyModel
  <2>2. Kept
    BY <1>2 DEF BeginRound, NoneAvailable, Kept
  <2> QED
    BY <2>1, <2>2
<1>3. CASE \E i \in Uploads, b \in Terms : UploadModel(i, b)
  <2>1. PICK i \in Uploads, b \in Terms : UploadModel(i, b)
    BY <1>3
  <2>2. height + b \in Nat /\ height \in Nat /\ i \in Ids /\ i \notin Nanos
    BY ConstantFacts DEF RegistryInv
  <2>3. RegistryInv' /\ Registered' = Registered \cup {i}
    BY <2>1, <2>2, RegisterShape DEF UploadModel
  <2>4. RegisteredAnew(i)
    BY <2>1 DEF RegisteredAnew
  <2>5. Kept
    BY <2>1, <2>2, <2>3, <2>4, RegisterKeeps DEF UploadModel
  <2> QED
    BY <2>3, <2>5
<1>4. CASE \/ \E i \in Ids, b \in Terms, p \in Terms : TopUpModelStorage(i, b, p)
           \/ \E i \in Ids, b \in Terms : ExtendStorage(i, b)
  <2>1. PICK i \in Ids, b \in Terms : (\E p \in Terms : TopUpModelStorage(i, b, p)) \/ ExtendStorage(i, b)
    BY <1>4
  <2>2. i \in Registered /\ Prolong(i, b) /\ loaded' = loaded /\ height' = height /\ b \in Nat
    BY <2>1, ConstantFacts DEF TopUpModelStorage, TopUp, ExtendStorage
  <2>3. /\ RegistryInv' /\ Registered' = Registered
        /\ \A j \in Registered : models'[j].expires >= models[j].expires
    BY <2>2, ProlongShape
  <2>4. Kept
    BY <2>3 DEF Kept, Available, Registered
  <2> QED
    BY <2>3, <2>4
<1> QED
  BY <1>1, <1>2, <1>3, <1>4 DEF RegistryStep

-----------------------------------------------------------------------------
(* The nanochat models                                                      *)

NanochatInv ==
  /\ configs \subseteq Nanos
  /\ jobs \in [Nanos -> Job \cup {NoJob}]
  /\ NanochatIsWhole
  /\ CompletedMeansDone

\* What the other components do: they register no nanochat model, and remove none.
LEMMA NanochatUntouched ==
  ASSUME NanochatInv, UNCHANGED nanochat, Registered' \cap Nanos \subseteq Registered
  PROVE  NanochatInv'
BY DEF NanochatInv, nanochat, NanochatIsWhole, CompletedMeansDone

LEMMA CreateKeeps ==
  ASSUME RegistryInv, NanochatInv, NEW n \in Nanos, NEW b \in Terms, CreateNanochatModel(n, b)
  PROVE  RegistryInv' /\ NanochatInv' /\ Kept /\ Registered' = Registered \cup {n}
<1>1. Stored(b) \in Nat
  BY ConstantFacts DEF Stored
<1>2. /\ RegisterModel(n, "nanochat", 0, Stored(b)) /\ loaded' = loaded /\ height' = height
      /\ configs' = configs \cup {n} /\ n \in Ids
      /\ jobs' = [jobs EXCEPT ![n] = [status |-> "pending", done |-> 0]]
  BY ConstantFacts DEF CreateNanochatModel, CreateModel
<1>3. RegistryInv' /\ Registered' = Registered \cup {n}
  BY <1>1, <1>2, RegisterShape
<1>4. RegisteredAnew(n)
  BY DEF RegisteredAnew
<1>5. Kept
  BY <1>2, <1>3, <1>4, RegisterKeeps
<1>6. [status |-> "pending", done |-> 0] \in Job
  BY DEF Job
<1>7. jobs' \in [Nanos -> Job \cup {NoJob}]
  BY <1>2, <1>6 DEF NanochatInv
<1>8. \A k \in Nanos : jobs'[k] = IF k = n THEN [status |-> "pending", done |-> 0] ELSE jobs[k]
  BY <1>2 DEF NanochatInv
<1>9. NanochatIsWhole'
  BY <1>2, <1>3, <1>6, <1>8, ConstantFacts DEF NanochatInv, NanochatIsWhole
<1>10. CompletedMeansDone'
  BY <1>8, ConstantFacts DEF NanochatInv, CompletedMeansDone
<1> QED
  BY <1>2, <1>3, <1>5, <1>7, <1>9, <1>10 DEF NanochatInv

\* Starts and iterations change a job, and nothing else that matters.
LEMMA TrainingKeeps ==
  ASSUME RegistryInv, NanochatInv, NEW n \in Nanos, StartTraining(n) \/ TrainIteration(n)
  PROVE  RegistryInv' /\ NanochatInv' /\ Kept /\ Registered' = Registered
<1>1. /\ jobs[n] # NoJob /\ configs' = configs
      /\ models' = models /\ loaded' = loaded /\ height' = height
  BY DEF StartTraining, TrainIteration
<1>2. RegistryInv' /\ Registered' = Registered /\ Kept
  BY <1>1, RegistryUntouched, UntouchedKeeps DEF RegistryInv, LoadedAreRegistered
<1>3. jobs[n] \in Job
  BY <1>1 DEF NanochatInv
<1> DEFINE started == [jobs[n] EXCEPT !.status = "training"]
           trained == [jobs[n] EXCEPT !.done = @ + 1,
                         !.status = IF jobs[n].done + 1 >= Total THEN "completed" ELSE @]
<1>4. (jobs' = [jobs EXCEPT ![n] = started] /\ MayStart(n)) \/ jobs' = [jobs EXCEPT ![n] = trained]
  BY <1>3 DEF StartTraining, TrainIteration, NanochatInv
<1>5. started \in Job /\ trained \in Job
  <2>1. started \in Job
    BY <1>3 DEF Job
  <2>2. [jobs[n] EXCEPT !.done = @ + 1] \in Job
    BY <1>3 DEF Job
  <2>3. CASE jobs[n].done + 1 >= Total
    BY <1>3, <2>2, <2>3 DEF Job
  <2>4. CASE ~(jobs[n].done + 1 >= Total)
    BY <1>3, <2>2, <2>4 DEF Job
  <2> QED
    BY <2>1, <2>3, <2>4
<1>6. trained.status = "completed" <=> trained.done >= Total
  BY <1>1, <1>3, ConstantFacts DEF NanochatInv, CompletedMeansDone, Job
<1>7. MayStart(n) => ~(started.status = "completed") /\ ~(started.done >= Total)
  BY <1>1, <1>3 DEF NanochatInv, CompletedMeansDone, MayStart, Job
<1> HIDE DEF started, trained
<1>8. PICK job \in Job : /\ jobs' = [jobs EXCEPT ![n] = job]
                         /\ job.status = "completed" <=> job.done >= Total
  BY <1>4, <1>5, <1>6, <1>7
<1>9. \A k \in Nanos : jobs'[k] = IF k = n THEN job ELSE jobs[k]
  BY <1>8 DEF NanochatInv
<1>10. jobs' \in [Nanos -> Job \cup {NoJob}]
  BY <1>8 DEF NanochatInv
<1>11. NanochatIsWhole' /\ CompletedMeansDone'
  BY <1>1, <1>2, <1>8, <1>9, ConstantFacts DEF NanochatInv, NanochatIsWhole, CompletedMeansDone
<1> QED
  BY <1>1, <1>2, <1>10, <1>11 DEF NanochatInv

\* What the registry keeps is not unpaid, whichever formula is asked.
LEMMA CleanupKeeps ==
  ASSUME RegistryInv, NanochatInv, CleanupExpiredModels
  PROVE  RegistryInv' /\ NanochatInv' /\ Kept /\ Registered' \subseteq Registered
<1>1. /\ RegistryInv' /\ Registered' = Registered \ Expired
      /\ \A i \in Registered' : models'[i] = models[i] /\ height <= models[i].expires
  BY ForgetShape DEF CleanupExpiredModels
<1>2. Kept
  <2> SUFFICES ASSUME NEW i \in Ids, Available(i)
               PROVE  models'[i] # NoModel /\ models'[i].expires >= models[i].expires
    BY DEF Kept
  <2>1. i \in Registered /\ models[i] \in Entry /\ height <= models[i].expires
    BY DEF Available, Registered, RegistryInv
  <2>2. i \in Registered'
    BY <1>1, <2>1 DEF Expired, Lapsed, Entry, RegistryInv
  <2> QED
    BY <1>1, <2>1, <2>2 DEF Registered, Entry
<1>3. \A n \in Nanos \cap Registered' : n \in Registered /\ models'[n].upload = 0 /\ n \notin Unpaid
  <2> SUFFICES ASSUME NEW n \in Nanos, n \in Registered'
               PROVE  n \in Registered /\ models'[n].upload = 0 /\ n \notin Unpaid
    OBVIOUS
  <2>1. models'[n] = models[n] /\ height <= models[n].expires /\ n \in Registered
    BY <1>1
  <2>2. models[n] \in Entry /\ models[n].upload = 0 /\ height \in Nat
    BY <2>1 DEF Registered, RegistryInv
  <2>3. ~(height > 0 + models[n].expires)
    BY <2>1, <2>2 DEF Entry
  <2> QED
    BY <2>1, <2>2, <2>3 DEF Unpaid, StorageExpired
<1>4. /\ configs' = configs \ Unpaid
      /\ jobs' = [n \in Nanos |-> IF n \in Unpaid THEN NoJob ELSE jobs[n]]
  BY DEF CleanupExpiredModels
<1>5. NanochatIsWhole'
  BY <1>1, <1>3, <1>4 DEF NanochatInv, NanochatIsWhole
<1>6. jobs' \in [Nanos -> Job \cup {NoJob}] /\ CompletedMeansDone'
  BY <1>4 DEF NanochatInv, CompletedMeansDone
<1> QED
  BY <1>1, <1>2, <1>4, <1>5, <1>6 DEF NanochatInv

LEMMA NanochatStepKeeps ==
  ASSUME RegistryInv, NanochatInv, NanochatStep
  PROVE  /\ RegistryInv' /\ NanochatInv' /\ Kept
         /\ Registered' \subseteq Registered \cup (Ids \ Tunings)
<1>1. CASE RegistryStep /\ UNCHANGED nanochat
  <2>1. /\ RegistryInv' /\ Kept /\ Registered \subseteq Registered'
        /\ Registered' \subseteq Registered \cup Uploads \cup {Stub}
    BY <1>1, RegistryStepKeeps
  <2>2. NanochatInv'
    BY <1>1, <2>1, ConstantFacts, NanochatUntouched
  <2> QED
    BY <2>1, <2>2, ConstantFacts
<1>2. CASE \E n \in Nanos : \E b \in Terms : CreateNanochatModel(n, b)
  BY <1>2, CreateKeeps, ConstantFacts
<1>3. CASE \E n \in Nanos : StartTraining(n) \/ TrainIteration(n)
  BY <1>3, TrainingKeeps
<1>4. CASE CleanupExpiredModels
  BY <1>4, CleanupKeeps
<1> QED
  BY <1>1, <1>2, <1>3, <1>4 DEF NanochatStep

-----------------------------------------------------------------------------
(* The fine-tuning jobs                                                     *)

\* A job has a time at which it ended only once it completed and left the list; only
\* then is there a model that bears its name.
Finished(t) == tunings[t] = Swept \/ (t \in Jobs /\ tunings[t].status = "completed")

TuningInv ==
  /\ tunings \in [Tunings -> TuningJob \cup {NoJob, Swept}]
  /\ ActiveJobsExist
  /\ \A t \in Jobs : tunings[t].ended => tunings[t].status = "completed" /\ t \notin active
  /\ \A t \in Tunings : t \in Registered => Finished(t)

LEMMA TuningConstants == NoJob \notin TuningJob /\ Swept \notin TuningJob /\ NoJob # Swept
BY NoTuningIsATuning

LEMMA JobsAreTyped ==
  ASSUME TuningInv, NEW t \in Jobs
  PROVE  t \in Tunings /\ tunings[t] \in TuningJob
BY DEF TuningInv, Jobs

LEMMA TuningUntouched ==
  ASSUME TuningInv, UNCHANGED <<tunings, active>>, Registered' \cap Tunings \subseteq Registered
  PROVE  TuningInv'
<1>1. Jobs' = Jobs
  BY DEF Jobs
<1> QED
  BY <1>1 DEF TuningInv, ActiveJobsExist, Finished

\* A step that gives one job a new record.
LEMMA JobChanges ==
  ASSUME TuningInv, NEW t \in Tunings, NEW job \in TuningJob,
         tunings' = [tunings EXCEPT ![t] = job],
         active' \subseteq active \cup {t}, ~Finished(t),
         job.ended => job.status = "completed" /\ t \notin active',
         Registered' \cap Tunings \subseteq Registered
           \/ (job.status = "completed" /\ Registered' \subseteq Registered \cup {t})
  PROVE  TuningInv'
<1>1. \A u \in Tunings : tunings'[u] = IF u = t THEN job ELSE tunings[u]
  BY DEF TuningInv
<1>2. job # NoJob /\ job # Swept
  BY TuningConstants
<1>3. Jobs' = Jobs \cup {t}
  BY <1>1, <1>2 DEF Jobs
<1>4. tunings' \in [Tunings -> TuningJob \cup {NoJob, Swept}]
  BY DEF TuningInv
<1>5. ActiveJobsExist'
  BY <1>3 DEF TuningInv, ActiveJobsExist
<1>6. \A u \in Jobs' : tunings'[u].ended => tunings'[u].status = "completed" /\ u \notin active'
  BY <1>1, <1>3, JobsAreTyped DEF TuningInv
<1>7. \A u \in Tunings : u \in Registered' => Finished(u)'
  <2> SUFFICES ASSUME NEW u \in Tunings, u \in Registered'
               PROVE  Finished(u)'
    OBVIOUS
  <2>1. CASE u = t
    <3>1. t \notin Registered
      BY DEF TuningInv
    <3>2. job.status = "completed"
      BY <2>1, <3>1
    <3> QED
      BY <1>1, <1>3, <2>1, <3>2 DEF Finished
  <2>2. CASE u # t
    <3>1. u \in Registered
      BY <2>2
    <3>2. Finished(u)
      BY <3>1 DEF TuningInv
    <3> QED
      BY <1>1, <1>3, <2>2, <3>2 DEF Finished
  <2> QED
    BY <2>1, <2>2
<1> QED
  BY <1>4, <1>5, <1>6, <1>7 DEF TuningInv

LEMMA StoreUntouched ==
  ASSUME RegistryInv, NanochatInv, UNCHANGED <<models, store>>
  PROVE  RegistryInv' /\ NanochatInv' /\ Kept /\ Registered' = Registered
<1>1. RegistryInv' /\ Registered' = Registered /\ Kept
  BY RegistryUntouched, UntouchedKeeps DEF store, RegistryInv, LoadedAreRegistered
<1>2. NanochatInv'
  BY <1>1, NanochatUntouched DEF store
<1> QED
  BY <1>1, <1>2

\* A job that is created, started or makes a step.
LEMMA JobStepKeeps ==
  ASSUME RegistryInv, NanochatInv, TuningInv, NEW t \in Tunings,
         \/ \E base \in Ids, d \in Datasets : CreateJob(t, base, d)
         \/ StartFineTuning(t) \/ TuningStep(t)
  PROVE  RegistryInv' /\ NanochatInv' /\ TuningInv' /\ Kept
<1>1. RegistryInv' /\ NanochatInv' /\ Kept /\ Registered' = Registered
  BY StoreUntouched DEF CreateJob, StartFineTuning, TuningStep
<1>2. CASE \E base \in Ids, d \in Datasets : CreateJob(t, base, d)
  <2>1. PICK base \in Ids, d \in Datasets : CreateJob(t, base, d)
    BY <1>2
  <2> DEFINE job == [status |-> "pending", base |-> base, data |-> d, step |-> 0, ended |-> FALSE]
  <2>2. job \in TuningJob /\ job.ended = FALSE
    BY DEF TuningJob
  <2>3. tunings' = [tunings EXCEPT ![t] = job] /\ active' = active /\ tunings[t] = NoJob
    BY <2>1 DEF CreateJob
  <2>4. ~Finished(t)
    BY <2>3, TuningConstants DEF Finished, Jobs
  <2> HIDE DEF job
  <2> QED
    BY <1>1, <2>2, <2>3, <2>4, JobChanges
<1>3. CASE StartFineTuning(t)
  <2> DEFINE job == [tunings[t] EXCEPT !.status = "training"]
  <2>1. /\ t \in Jobs /\ tunings[t].status = "pending"
        /\ tunings' = [tunings EXCEPT ![t] = job] /\ active' = active \cup {t}
    BY <1>3 DEF StartFineTuning
  <2>2. tunings[t] \in TuningJob
    BY <2>1, JobsAreTyped
  <2>3. job \in TuningJob /\ job.ended = tunings[t].ended
    BY <2>2 DEF TuningJob
  <2>4. ~Finished(t) /\ ~tunings[t].ended
    BY <2>1, <2>2, TuningConstants DEF Finished, TuningInv
  <2> HIDE DEF job
  <2> QED
    BY <1>1, <2>1, <2>3, <2>4, JobChanges
<1>4. CASE TuningStep(t)
  <2> DEFINE job == [tunings[t] EXCEPT !.step = @ + 1]
  <2>1. /\ t \in Jobs /\ tunings[t].status = "training"
        /\ tunings' = [tunings EXCEPT ![t] = job] /\ active' = active
    BY <1>4 DEF TuningStep
  <2>2. tunings[t] \in TuningJob
    BY <2>1, JobsAreTyped
  <2>3. job \in TuningJob /\ job.ended = tunings[t].ended
    BY <2>2 DEF TuningJob
  <2>4. ~Finished(t) /\ ~tunings[t].ended
    BY <2>1, <2>2, TuningConstants DEF Finished, TuningInv
  <2> HIDE DEF job
  <2> QED
    BY <1>1, <2>1, <2>3, <2>4, JobChanges
<1> QED
  BY <1>2, <1>3, <1>4

\* A job that ends registers a model nobody has registered before.
LEMMA CompleteKeeps ==
  ASSUME RegistryInv, NanochatInv, TuningInv, NEW t \in Tunings, CompleteFineTuning(t)
  PROVE  RegistryInv' /\ NanochatInv' /\ TuningInv' /\ Kept
<1> DEFINE done == [tunings[t] EXCEPT !.step = @ + 1, !.status = "completed", !.ended = TRUE]
           failed == [tunings[t] EXCEPT !.step = @ + 1, !.status = "failed"]
<1>1. t \in Jobs /\ tunings[t].status = "training" /\ UNCHANGED <<datasets, store>>
  BY DEF CompleteFineTuning
<1>2. tunings[t] \in TuningJob
  BY <1>1, JobsAreTyped
<1>3. done \in TuningJob /\ done.status = "completed"
  <2> DEFINE stepped == [tunings[t] EXCEPT !.step = @ + 1]
             changed == [stepped EXCEPT !.status = "completed"]
  <2>1. stepped \in TuningJob
    BY <1>2 DEF TuningJob
  <2> HIDE DEF stepped
  <2>2. changed \in TuningJob /\ changed.status = "completed"
    BY <2>1 DEF TuningJob
  <2> HIDE DEF changed
  <2>3. [changed EXCEPT !.ended = TRUE] \in TuningJob
    BY <2>2 DEF TuningJob
  <2>4. [changed EXCEPT !.ended = TRUE].status = "completed"
    BY <2>2 DEF TuningJob
  <2> USE DEF stepped, changed
  <2> QED
    BY <2>3, <2>4
<1>4. failed \in TuningJob /\ failed.ended = tunings[t].ended
  <2> DEFINE stepped == [tunings[t] EXCEPT !.step = @ + 1]
  <2>1. stepped \in TuningJob /\ stepped.ended = tunings[t].ended
    BY <1>2 DEF TuningJob
  <2> HIDE DEF stepped
  <2>2. /\ [stepped EXCEPT !.status = "failed"] \in TuningJob
        /\ [stepped EXCEPT !.status = "failed"].ended = tunings[t].ended
    BY <2>1 DEF TuningJob
  <2> USE DEF stepped
  <2> QED
    BY <2>2
<1>5. ~Finished(t) /\ ~tunings[t].ended /\ t \notin Registered
  BY <1>1, <1>2, TuningConstants DEF Finished, TuningInv
<1>6. CASE tunings[t].base \in Registered
  <2>1. /\ RegisterModel(t, models[tunings[t].base].format, 0, TunedTerm)
        /\ tunings' = [tunings EXCEPT ![t] = done] /\ active' = active \ {t}
    BY <1>6 DEF CompleteFineTuning
  <2>2. models[tunings[t].base].format \in {"gguf", "nanochat", "pytorch"}
    BY <1>6 DEF Registered, RegistryInv, Entry
  <2>3. t \in Ids /\ loaded' = loaded /\ height' = height /\ 0 \in Nat /\ TunedTerm \in Nat
    BY <1>1, ConstantFacts DEF store
  <2>4. RegistryInv' /\ Registered' = Registered \cup {t}
    BY <2>1, <2>2, <2>3, RegisterShape
  <2>5. Kept
    BY <1>5, <2>1, <2>3, <2>4, RegisterKeeps DEF Available
  <2>6. NanochatInv'
    BY <1>1, <2>4, ConstantFacts, NanochatUntouched DEF store
  <2> HIDE DEF done
  <2>7. TuningInv'
    BY <1>3, <1>5, <2>1, <2>4, JobChanges
  <2> QED
    BY <2>4, <2>5, <2>6, <2>7
<1>7. CASE tunings[t].base \notin Registered
  <2>1. tunings' = [tunings EXCEPT ![t] = failed] /\ UNCHANGED <<models, active>>
    BY <1>7 DEF CompleteFineTuning
  <2>2. RegistryInv' /\ NanochatInv' /\ Kept /\ Registered' = Registered
    BY <1>1, <2>1, StoreUntouched
  <2> HIDE DEF failed
  <2>3. TuningInv'
    BY <1>4, <1>5, <2>1, <2>2, JobChanges
  <2> QED
    BY <2>2, <2>3
<1> QED
  BY <1>6, <1>7

LEMMA SweepKeeps ==
  ASSUME RegistryInv, NanochatInv, TuningInv,
         NEW old \in SUBSET {t \in Jobs : Sweepable(t)}, CleanupCompletedJobs(old)
  PROVE  RegistryInv' /\ NanochatInv' /\ TuningInv' /\ Kept
<1>1. RegistryInv' /\ NanochatInv' /\ Kept /\ Registered' = Registered
  BY StoreUntouched DEF CleanupCompletedJobs
<1>2. \A t \in Tunings : tunings'[t] = IF t \in old THEN Swept ELSE tunings[t]
  BY DEF CleanupCompletedJobs
<1>3. tunings' \in [Tunings -> TuningJob \cup {NoJob, Swept}] /\ active' = active
  BY DEF CleanupCompletedJobs, TuningInv
<1>4. Jobs' = Jobs \ old
  BY <1>2 DEF Jobs
<1>5. \A t \in old : t \notin active
  BY DEF Sweepable, TuningInv
<1>6. \A t \in Tunings : t \in Registered' => Finished(t)'
  BY <1>1, <1>2, <1>4 DEF TuningInv, Finished
<1>7. \A t \in Jobs' : t \in Jobs /\ tunings'[t] = tunings[t]
  BY <1>2, <1>4 DEF Jobs
<1>8. ActiveJobsExist'
  BY <1>3, <1>4, <1>5 DEF TuningInv, ActiveJobsExist
<1>9. \A t \in Jobs' : tunings'[t].ended => tunings'[t].status = "completed" /\ t \notin active'
  BY <1>3, <1>7 DEF TuningInv
<1> QED
  BY <1>1, <1>3, <1>6, <1>8, <1>9 DEF TuningInv

LEMMA FineTuningStepKeeps ==
  ASSUME RegistryInv, NanochatInv, TuningInv, FineTuningStep
  PROVE  RegistryInv' /\ NanochatInv' /\ TuningInv' /\ Kept
<1>1. CASE NanochatStep /\ UNCHANGED tuning
  <2>1. /\ RegistryInv' /\ NanochatInv' /\ Kept
        /\ Registered' \subseteq Registered \cup (Ids \ Tunings)
    BY <1>1, NanochatStepKeeps
  <2>2. TuningInv'
    BY <1>1, <2>1, TuningUntouched DEF tuning
  <2> QED
    BY <2>1, <2>2
<1>2. CASE \E d \in Datasets : RegisterDataset(d)
  <2>1. RegistryInv' /\ NanochatInv' /\ Kept /\ Registered' = Registered
    BY <1>2, StoreUntouched DEF RegisterDataset
  <2>2. TuningInv'
    BY <1>2, <2>1, TuningUntouched DEF RegisterDataset
  <2> QED
    BY <2>1, <2>2
<1>3. CASE \/ \E t \in Tunings, base \in Ids, d \in Datasets : CreateJob(t, base, d)
           \/ \E t \in Tunings : StartFineTuning(t) \/ TuningStep(t)
  BY <1>3, JobStepKeeps
<1>4. CASE \E t \in Tunings : CompleteFineTuning(t)
  BY <1>4, CompleteKeeps
<1>5. CASE \E old \in SUBSET {t \in Jobs : Sweepable(t)} : old # {} /\ CleanupCompletedJobs(old)
  BY <1>5, SweepKeeps
<1> QED
  BY <1>1, <1>2, <1>3, <1>4, <1>5 DEF FineTuningStep

-----------------------------------------------------------------------------
(* The pipelines                                                            *)

PipelineInv ==
  /\ pipelines \in [Pipelines -> Pipeline \cup {NoPipeline}]
  /\ OneLayerAtATime

\* What OneLayerAtATime says of one pipeline.
InOrder(pipe) ==
  \A l \in Layers : /\ pipe.layers[l].status = "active" => l = pipe.at
                    /\ l > pipe.at => pipe.layers[l].status = "pending"

LEMMA ActivatedShape ==
  ASSUME NEW pipe \in Pipeline, NEW l \in Nat
  PROVE  \A k \in Layers :
           /\ Activated(pipe.layers, l)[k].status = IF k = l THEN "active" ELSE pipe.layers[k].status
           /\ Activated(pipe.layers, l)[k].done = pipe.layers[k].done
<1>1. pipe.layers \in [Layers -> [status : {"pending", "active", "completed"}, done : Nat]]
  BY DEF Pipeline
<1> QED
  BY <1>1 DEF Activated

LEMMA ProgressedKeeps ==
  ASSUME NEW pipe \in Pipeline, InOrder(pipe), pipe.at \in Layers
  PROVE  Progressed(pipe) \in Pipeline /\ InOrder(Progressed(pipe))
<1> DEFINE L == [status : {"pending", "active", "completed"}, done : Nat]
           left == Left(pipe.layers, pipe.at)
           next == pipe.at + 1
           layers == Activated(left, next)
           status == IF next \in Layers THEN pipe.status ELSE "completed"
           new == Progressed(pipe)
<1>1. /\ pipe.layers \in [Layers -> L] /\ pipe.at \in Nat
      /\ pipe.status \in {"pending", "training", "completed"}
  BY DEF Pipeline
<1>2. left \in [Layers -> L]
  BY <1>1 DEF Left
<1>3. layers \in [Layers -> L]
  BY <1>2 DEF Activated
<1>4. /\ left[pipe.at].status # "active"
      /\ \A l \in Layers : l # pipe.at => left[l] = pipe.layers[l]
  BY <1>1 DEF Left
<1>5. \A l \in Layers : layers[l].status = IF l = next THEN "active" ELSE left[l].status
  BY <1>2 DEF Activated
<1> HIDE DEF left, layers
<1>6. new = [pipe EXCEPT !.at = next, !.layers = layers, !.status = status]
  BY DEF Progressed, left, layers
<1>7. new = [status |-> status, at |-> next, layers |-> layers]
  BY <1>6 DEF Pipeline
<1>8. new \in Pipeline
  BY <1>1, <1>3, <1>7 DEF Pipeline
<1>9. \A l \in Layers : /\ layers[l].status = "active" => l = next
                        /\ l > next => layers[l].status = "pending"
  <2> SUFFICES ASSUME NEW l \in Layers
               PROVE  /\ layers[l].status = "active" => l = next
                      /\ l > next => layers[l].status = "pending"
    OBVIOUS
  <2>1. l \in Nat
    BY ConstantFacts
  <2>2. CASE l = next
    BY <1>1, <2>1, <2>2
  <2>3. CASE l = pipe.at
    BY <1>1, <1>4, <1>5, <2>3
  <2>4. CASE l # next /\ l # pipe.at
    <3>1. layers[l].status = pipe.layers[l].status
      BY <1>4, <1>5, <2>4
    <3> QED
      BY <1>1, <2>1, <2>4, <3>1 DEF InOrder
  <2> QED
    BY <2>2, <2>3, <2>4
<1> HIDE DEF new, status
<1>10. InOrder(new)
  BY <1>7, <1>9 DEF InOrder
<1> QED
  BY <1>8, <1>10 DEF new

LEMMA PipelineChanges ==
  ASSUME PipelineInv, NEW p \in Pipelines, NEW pipe \in Pipeline, InOrder(pipe),
         pipelines' = [pipelines EXCEPT ![p] = pipe]
  PROVE  PipelineInv'
<1>1. pipelines' \in [Pipelines -> Pipeline \cup {NoPipeline}]
  BY DEF PipelineInv
<1>2. \A q \in Pipelines : pipelines'[q] = IF q = p THEN pipe ELSE pipelines[q]
  BY DEF PipelineInv
<1>3. OneLayerAtATime'
  BY <1>2 DEF PipelineInv, OneLayerAtATime, InOrder
<1> QED
  BY <1>1, <1>3 DEF PipelineInv

LEMMA PipelineFacts ==
  ASSUME PipelineInv, NEW p \in Pipelines, pipelines[p] # NoPipeline
  PROVE  pipelines[p] \in Pipeline /\ InOrder(pipelines[p])
BY DEF PipelineInv, OneLayerAtATime, InOrder

LEMMA PipelineStepKeeps ==
  ASSUME PipelineInv, NEW p \in Pipelines,
         \/ \E base \in Ids : CreatePipeline(p, base)
         \/ StartPipeline(p) \/ TrainLayer(p)
         \/ \E force \in BOOLEAN : ManualProgressLayer(p, force)
  PROVE  PipelineInv'
<1>1. CASE \E base \in Ids : CreatePipeline(p, base)
  <2> DEFINE pipe == [status |-> "pending", at |-> 1,
                      layers |-> [l \in Layers |-> [status |-> "pending", done |-> 0]]]
  <2>1. pipelines' = [pipelines EXCEPT ![p] = pipe]
    BY <1>1 DEF CreatePipeline
  <2>2. pipe \in Pipeline
    BY DEF Pipeline
  <2>3. InOrder(pipe)
    BY DEF InOrder
  <2> HIDE DEF pipe
  <2> QED
    BY <2>1, <2>2, <2>3, PipelineChanges
<1>2. CASE StartPipeline(p)
  <2> DEFINE pipe == [pipelines[p] EXCEPT !.status = "training",
                                          !.layers = Activated(@, pipelines[p].at)]
             layers == Activated(pipelines[p].layers, pipelines[p].at)
  <2>1. /\ pipelines[p] # NoPipeline
        /\ pipelines' = [pipelines EXCEPT ![p] = [pipelines[p] EXCEPT
             !.status = "training", !.layers = Activated(@, pipelines[p].at)]]
    BY <1>2 DEF StartPipeline, PipelineInv
  <2>2. pipelines[p] \in Pipeline /\ InOrder(pipelines[p])
    BY <2>1, PipelineFacts
  <2>3. layers \in [Layers -> [status : {"pending", "active", "completed"}, done : Nat]]
    BY <2>2 DEF Pipeline, Activated
  <2>4. \A l \in Layers : layers[l].status =
          IF l = pipelines[p].at THEN "active" ELSE pipelines[p].layers[l].status
    BY <2>2 DEF Pipeline, Activated
  <2> HIDE DEF layers
  <2>5. pipe = [pipelines[p] EXCEPT !.status = "training", !.layers = layers]
    BY DEF layers
  <2> HIDE DEF pipe
  <2>6. pipe = [status |-> "training", at |-> pipelines[p].at, layers |-> layers]
    BY <2>2, <2>5 DEF Pipeline
  <2>7. pipe \in Pipeline
    BY <2>2, <2>3, <2>6 DEF Pipeline
  <2>8. \A l \in Layers : l \in Nat /\ pipelines[p].at \in Nat
    BY <2>2, ConstantFacts DEF Pipeline
  <2>9. InOrder(pipe)
    BY <2>2, <2>4, <2>6, <2>8 DEF InOrder
  <2>10. pipelines' = [pipelines EXCEPT ![p] = pipe]
    BY <2>1 DEF pipe
  <2> QED
    BY <2>7, <2>9, <2>10, PipelineChanges
<1>3. CASE TrainLayer(p)
  <2> DEFINE l == pipelines[p].at
             trained == [pipelines[p] EXCEPT !.layers[l].done = @ + 1]
  <2>1. /\ pipelines[p] # NoPipeline /\ l \in Layers
        /\ \E met \in MetOf(trained) :
             pipelines' = [pipelines EXCEPT ![p] = IF met THEN Progressed(trained) ELSE trained]
    BY <1>3 DEF TrainLayer
  <2>2. pipelines[p] \in Pipeline /\ InOrder(pipelines[p])
    BY <2>1, PipelineFacts
  <2> DEFINE layers == [pipelines[p].layers EXCEPT ![l].done = @ + 1]
  <2>3. layers \in [Layers -> [status : {"pending", "active", "completed"}, done : Nat]]
    BY <2>1, <2>2 DEF Pipeline
  <2>4. \A k \in Layers : layers[k].status = pipelines[p].layers[k].status
    BY <2>1, <2>2 DEF Pipeline
  <2> HIDE DEF layers
  <2>5. trained = [status |-> pipelines[p].status, at |-> l, layers |-> layers]
    BY <2>2 DEF Pipeline, layers
  <2> HIDE DEF trained
  <2>6. trained \in Pipeline
    BY <2>2, <2>3, <2>5 DEF Pipeline
  <2>7. InOrder(trained)
    BY <2>2, <2>4, <2>5 DEF InOrder
  <2>8. Progressed(trained) \in Pipeline /\ InOrder(Progressed(trained))
    BY <2>1, <2>5, <2>6, <2>7, ProgressedKeeps
  <2> QED
    BY <2>1, <2>6, <2>7, <2>8, PipelineChanges
<1>4. CASE \E force \in BOOLEAN : ManualProgressLayer(p, force)
  <2>1. /\ pipelines[p] # NoPipeline /\ pipelines[p].at \in Layers
        /\ pipelines' = [pipelines EXCEPT ![p] = Progressed(pipelines[p])]
    BY <1>4 DEF ManualProgressLayer, PipelineInv
  <2>2. pipelines[p] \in Pipeline /\ InOrder(pipelines[p])
    BY <2>1, PipelineFacts
  <2> QED
    BY <2>1, <2>2, ProgressedKeeps, PipelineChanges
<1> QED
  BY <1>1, <1>2, <1>3, <1>4

-----------------------------------------------------------------------------
(* The specification                                                        *)

CatalogueInv == RegistryInv /\ NanochatInv /\ TuningInv /\ PipelineInv

LEMMA InitCatalogue == Init => CatalogueInv
<1> SUFFICES ASSUME Init
             PROVE  CatalogueInv
  OBVIOUS
<1>1. Registered = {} /\ Jobs = {}
  BY DEF Init, InitRegistry, InitTuning, Registered, Jobs
<1>2. RegistryInv
  BY <1>1, ConstantFacts DEF Init, InitRegistry, RegistryInv, LoadedAreRegistered
<1>3. NanochatInv
  BY <1>1 DEF Init, InitNanochat, NanochatInv, NanochatIsWhole, CompletedMeansDone
<1>4. TuningInv
  BY <1>1 DEF Init, InitTuning, TuningInv, ActiveJobsExist
<1>5. PipelineInv
  BY DEF Init, PipelineInv, OneLayerAtATime
<1> QED
  BY <1>2, <1>3, <1>4, <1>5 DEF CatalogueInv

LEMMA NextKeepsCatalogue == CatalogueInv /\ [Next]_vars => CatalogueInv' /\ Kept
<1> SUFFICES ASSUME CatalogueInv, [Next]_vars
             PROVE  CatalogueInv' /\ Kept
  OBVIOUS
<1> USE DEF CatalogueInv
<1>1. CASE FineTuningStep /\ UNCHANGED pipelines
  <2>1. PipelineInv'
    BY <1>1 DEF PipelineInv, OneLayerAtATime
  <2> QED
    BY <1>1, <2>1, FineTuningStepKeeps
<1>2. CASE \E p \in Pipelines : \/ \E base \in Ids : CreatePipeline(p, base)
                                \/ StartPipeline(p) \/ TrainLayer(p)
                                \/ \E force \in BOOLEAN : ManualProgressLayer(p, force)
  <2>1. UNCHANGED <<tuning, models, store>>
    BY <1>2 DEF CreatePipeline, StartPipeline, TrainLayer, ManualProgressLayer
  <2>2. RegistryInv' /\ NanochatInv' /\ Kept /\ Registered' = Registered
    BY <2>1, StoreUntouched
  <2>3. TuningInv'
    BY <2>1, <2>2, TuningUntouched DEF tuning
  <2> QED
    BY <1>2, <2>2, <2>3, PipelineStepKeeps
<1>3. CASE UNCHANGED vars
  <2>1. RegistryInv' /\ NanochatInv' /\ Kept /\ Registered' = Registered
    BY <1>3, StoreUntouched DEF vars, registry, nanochat, store
  <2>2. TuningInv'
    BY <1>3, <2>1, TuningUntouched DEF vars, tuning
  <2>3. PipelineInv'
    BY <1>3 DEF vars, PipelineInv, OneLayerAtATime
  <2> QED
    BY <2>1, <2>2, <2>3
<1> QED
  BY <1>1, <1>2, <1>3 DEF Next

LEMMA CatalogueHolds == Spec => []CatalogueInv
BY InitCatalogue, NextKeepsCatalogue, PTL DEF Spec

(* What is loaded is registered, however models expire and are replaced.    *)
THEOREM MemorySafe == Spec => []LoadedAreRegistered
<1>1. CatalogueInv => LoadedAreRegistered
  BY DEF CatalogueInv, RegistryInv
<1> QED
  BY <1>1, CatalogueHolds, PTL

(* A registered nanochat model has its configuration and its job: the two   *)
(* formulas of expiry agree because such a model counts from block 0.       *)
THEOREM NanochatSafe == Spec => [](NanochatIsWhole /\ CompletedMeansDone)
<1>1. CatalogueInv => NanochatIsWhole /\ CompletedMeansDone
  BY DEF CatalogueInv, NanochatInv
<1> QED
  BY <1>1, CatalogueHolds, PTL

(* A job on the active list can be looked up.                               *)
THEOREM JobsSafe == Spec => []ActiveJobsExist
<1>1. CatalogueInv => ActiveJobsExist
  BY DEF CatalogueInv, TuningInv
<1> QED
  BY <1>1, CatalogueHolds, PTL

(* The layers of a pipeline are active one at a time, in order.             *)
THEOREM LayersSafe == Spec => []OneLayerAtATime
<1>1. CatalogueInv => OneLayerAtATime
  BY DEF CatalogueInv, PipelineInv
<1> QED
  BY <1>1, CatalogueHolds, PTL

(* No step but the owner's own takes blocks of storage from a model that    *)
(* has some left.                                                           *)
THEOREM StorageKept == Spec => RemainingStorageIsKept
<1>1. CatalogueInv /\ [Next]_vars => Kept
  BY NextKeepsCatalogue
<1>2. Kept => [\A i \in Ids : Available(i) =>
       /\ models'[i] # NoModel
       /\ models'[i].expires >= models[i].expires \/ RegisteredAnew(i)]_vars
  BY DEF Kept
<1> QED
  BY <1>1, <1>2, CatalogueHolds, PTL DEF Spec, RemainingStorageIsKept
=============================================================================
