--------------------------- MODULE ModelRegistry ---------------------------
(***************************************************************************)
(* The models a node knows of and how long each is stored for              *)
(* (models/model_manager.py), and what its operator pays to upload, query  *)
(* and keep them (runtime/node.py, economics/storage_topup.py).  Money is  *)
(* counted in the price of a block of storage, which is that of a token.   *)
(***************************************************************************)
EXTENDS Integers

CONSTANTS
  Uploads,      \* identifiers of models uploaded from a file (named by its hash)
  OtherIds,     \* identifiers given by the components that register models
  Stub, StubTerm,  \* the default model and its storage_expires
  NoModel,      \* no entry
  Fee,          \* of a transaction
  Savings,      \* what the operator's wallet holds at first
  MaxTokens,    \* max_tokens of a query
  Terms,        \* numbers of blocks that are asked for
  MaxHeight, MaxCalls  \* bounds: the chain's length, the operator's calls

ASSUME RegistryConstants ==
  /\ Terms \subseteq Nat \ {0} /\ Uploads \cap OtherIds = {} /\ Stub \in OtherIds
  /\ {StubTerm, Fee, Savings, MaxTokens, MaxHeight, MaxCalls} \subseteq Nat

VARIABLES
  height,  \* the chain's length
  models,  \* the registry: of each identifier its entry
  loaded,  \* loaded_models
  files,   \* identifiers with a file in the cache
  wallet,  \* what the operator has
  calls    \* calls made so far

registry == <<height, models, loaded, files, wallet, calls>>

Ids == Uploads \cup OtherIds
Entry == [format : {"gguf", "nanochat", "pytorch"}, upload : Nat, expires : Nat]

ASSUME NoModelIsNoEntry == NoModel \notin Entry

Registered == {i \in Ids : models[i] # NoModel}

InitRegistry ==
  /\ height = 0 /\ wallet = Savings /\ calls = 0
  /\ models = [i \in Ids |-> NoModel]
  /\ loaded = {} /\ files = {}

Call == calls < MaxCalls /\ calls' = calls + 1

(* register_model: an entry of the same identifier is replaced.             *)
RegisterModel(i, format, upload, expires) ==
  models' = [models EXCEPT ![i] = [format |-> format, upload |-> upload, expires |-> expires]]

(* is_model_available *)
Available(i) == i \in Registered /\ height <= models[i].expires

-----------------------------------------------------------------------------
(* The chain grows, whoever mines; somebody puts a model file in the cache. *)
Grow ==
  /\ height < MaxHeight
  /\ height' = height + 1
  /\ UNCHANGED <<models, loaded, files, wallet, calls>>

PlaceFile(i) ==
  /\ i \in Uploads \ files
  /\ files' = files \cup {i}
  /\ UNCHANGED <<height, models, loaded, wallet, calls>>

\* Variant: a round begins with the default model.
NoModelOrNot == TRUE

NoneAvailable == \A i \in Ids : ~Available(i)

(* _create_dummy_model: the default model, once more until StubTerm.        *)
CreateDummyModel == RegisterModel(Stub, "pytorch", 0, StubTerm)

(* node.mine_block, before the lottery: models that are available are left  *)
(* as they are.                                                             *)
BeginRound ==
  /\ NoneAvailable
  /\ CreateDummyModel
  /\ UNCHANGED <<height, loaded, files, wallet, calls>>

(* submit_transaction looks at the fee alone.                               *)
Submits == wallet >= Fee

(* node.upload_model *)
UploadModel(i, blocks) ==
  /\ Call
  /\ wallet >= blocks /\ Submits
  /\ RegisterModel(i, "gguf", height, height + blocks)
  /\ wallet' = wallet - blocks - Fee
  /\ UNCHANGED <<height, loaded, files>>

(* _load_model: a file that cannot be read, or a model of another format,   *)
(* answers without being loaded.                                            *)
MayLoad(i) == i \in files /\ models[i].format = "gguf"

(* model_manager.query_model *)
Answer(i) ==
  /\ i \in Registered
  /\ loaded' = loaded \/ (MayLoad(i) /\ loaded' = loaded \cup {i})

(* node.query_model: the balance is compared with the most the query may    *)
(* cost, without the fee.                                                   *)
QueryModel(i, tokens) ==
  /\ Call
  /\ wallet >= MaxTokens
  /\ Answer(i)
  /\ wallet' = wallet - tokens - Fee
  /\ UNCHANGED <<height, models, files>>

UnloadModel(i) ==
  /\ Call
  /\ i \in loaded
  /\ loaded' = loaded \ {i}
  /\ UNCHANGED <<height, models, files, wallet>>

Prolong(i, blocks) == models' = [models EXCEPT ![i].expires = @ + blocks]

(* topup_storage: for at least the price.  Its history and its list of      *)
(* contributors are only reported.                                          *)
TopUp(i, blocks, payment) == payment >= blocks /\ Prolong(i, blocks)

(* node.topup_model_storage: anybody may; nobody looks at the balance.      *)
TopUpModelStorage(i, blocks, payment) ==
  /\ Call
  /\ i \in Registered
  /\ TopUp(i, blocks, payment)
  /\ wallet' = wallet - payment
  /\ UNCHANGED <<height, loaded, files>>

(* model_manager.extend_storage: the payment is compared, and not taken.    *)
ExtendStorage(i, blocks) ==
  /\ Call
  /\ i \in Registered
  /\ Prolong(i, blocks)
  /\ UNCHANGED <<height, loaded, files, wallet>>

Lapsed(i) == height > models[i].expires

(* The registry's part of cleanup_expired_models                            *)
Expired == {i \in Registered : Lapsed(i)}

\* Variant: what is in memory stays there.
ForgetEntriesOnly ==
  /\ models' = [i \in Ids |-> IF i \in Expired THEN NoModel ELSE models[i]]
  /\ UNCHANGED <<loaded, files, height, wallet>>

ForgetExpired ==
  /\ models' = [i \in Ids |-> IF i \in Expired THEN NoModel ELSE models[i]]
  /\ loaded' = loaded \ Expired
  /\ files' = files \ {i \in Expired : models[i].format = "gguf"}
  /\ UNCHANGED <<height, wallet>>

RegistryStep ==
  \/ Grow \/ BeginRound
  \/ \E i \in Uploads : PlaceFile(i) \/ \E b \in Terms : UploadModel(i, b)
  \/ \E i \in Ids, t \in 1 .. MaxTokens : QueryModel(i, t)
  \/ \E i \in Ids : UnloadModel(i)
  \/ \E i \in Ids, b \in Terms, p \in Terms : TopUpModelStorage(i, b, p)
  \/ \E i \in Ids, b \in Terms : ExtendStorage(i, b)
=============================================================================
