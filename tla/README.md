# A TLA+ development of dessin

dessin is a blockchain whose blocks are proofs of gradient optimisation (PoGO):
a miner trains a registered model for a while, publishes the improved weights,
and is paid from an emission and by the model's owner.  This directory models
how nodes replicate the chain, how one node settles, audits and finalises
blocks, which models are trained, what keeps them stored and how their files
travel.  `tlc` checks small instances; `tlapm` proves the main safety
properties for every value of the constants.

Run a check with `tlc -config <run>.cfg <module>` (section 3 names both), a
proof with `tlapm <module>.tla`.

## 1. The system

### Components, state, operations

| component | state | operations that change it |
|---|---|---|
| Chain (`consensus/consensus.py`) | `chain`, strikes, frozen models | create a training block, `add_message`, `gossip_object` |
| Lottery, bootstrap, settlement, finalisation (`consensus/enhanced_pogo_consensus.py`) | miner roster, bootstrap registry, equivocation keys, attestations, training blocks, model versions | register, draw the proposer, settle a block, rank and slash, attest, finalise, answer an equivocation |
| Mining loop (`runtime/node.py`) | `is_mining`, the mining thread, a local wallet | start, stop, one round (`mine_block`), refresh, upload, query, top up |
| Token ledger (`economics/economic_system.py`) | balances, stakes, virtual stakes, unbonding queue, escrows, emission | transfer, mint, unstake, mature, materialise, pay for training, penalise |
| Slashing (`consensus/slashing_mechanism.py`) | events, bans, reputations | propose, apply, check a finalisation |
| Two-phase verification (`consensus/two_phase_verification.py`) | votes of the phases | start a phase, submit a result |
| Spot checks (`consensus/spot_check_verification.py`), commitments (`protocol/`) | strikes, frozen models | record, publish, draw, reveal, replay, accumulate |
| Fee market (`consensus/training_market.py`) | pending tasks, cooldowns, base fee | submit, cancel, select, finalise, expire |
| Block time (`consensus/dynamic_block_time.py`) | slot, timings, proposals, approvals | measure, propose, vote, apply, follow a block |
| Network parameters, operator API (`economics/dynamic_parameters.py`, `networking/node_operator_api.py`) | network prices; own prices, bounds, targets | set, target, lead, adjust, export, import |
| Storage leases (`economics/storage_lease.py`) | leases | create, renew, cancel, end of a block, mark deleted |
| Training scheduler, lifecycle (`models/`) | slots, rotation queue, balances | register, next, record, pay, pause, deprecate, withdraw, remove |
| Model registry (`models/model_manager.py`), nanochat, fine-tuning | entries, loaded models, cached files; configurations and jobs; jobs and pipelines | register, query, extend, expire; train; create, step, progress |
| Distribution (`distribution/`), health monitor (`networking/health_monitor.py`) | active downloads, torrents; observed health | download, distribute, seed, stop, clean up; watch, alert |

`PROJECT.json` lists them all with their status; section 7 says what stays out.

### How they interact

A node is one Python process.  The **mining thread** runs
`DessinNode._mining_loop`: sleep, then `mine_block`, which registers the miner,
asks whether it is eligible and drawn by the lottery, picks a model of the
registry whose owner can pay, trains (for seconds to hours), builds a block,
*settles it on the ledger while building it*, appends it to its own chain and
gossips it.  The **gossip thread** of Chaincraft calls `add_message` for each
block of a peer, and `gossip_object` to answer a peer's digest.  **Operator
threads** (CLI, HTTP) start and stop mining, upload, pay and refresh.
Distribution runs on an **event loop** of its own beside a **monitor thread**.
They share `chain`, the ledger's and the registry's dictionaries; there is no
lock.  Nothing is persisted.  Only blocks a node built itself are settled on its
ledger.

Several components keep their own copy of one fact: three of them an entry of a
model and a formula for its expiry, two of them strikes and freezes, the
scheduler a queue of models it also keeps slots for.  Much of what follows is
about those copies.

### What is hard, and what must hold

* *Chain.*  Height, tip and append are read and written at different moments of
  one round, with gossip appends in between; messages are lost, repeated and
  reordered; a stopped thread may still be training when its node starts
  another; a restart forgets everything.  Chains should agree, hold no block
  twice, keep growing, reach every node, and nobody should be accused who did
  not equivocate.
* *Ledger.*  Funds are checked before training and taken after it; the
  unbonding queue is matured lazily; settlement is a sequence of steps between
  which calls land; genesis runs dry; the bootstrap ends at one height.
* *Finalisation.*  A finalised block is appended again, which shifts every
  height; attestations are neither counted once nor kept apart by verifier; two
  penalties may be computed from one stake.
* *Evidence.*  Verifiers look at drawn steps of a record the miner made; the
  last step and odd levels of a tree are special.
* *Scheduling.*  A queue is rebuilt on some calls and rotated on others while
  slots change under it; bids, urgency, cooldown and expiry race in the market.
* *Parameters.*  Rounded steps near bounds; adjustments that are proposed,
  voted on and applied by different hands and may be repeated.
* *Storage and catalogue.*  What is paid for must stay and what is not must go,
  while payments, expiry and deletion meet at the same block.
* *Distribution.*  Coroutines meet across awaits, a stop does not end what it
  stops, a thread outlives its join.

## 2. Modules

Each component has a module with its state and actions, a `...Props` module
with what it should satisfy (`NetworkPrices`, `DynamicBlockTime` and
`TrainingFreeze` hold their own), and an `MC...` module with the values of an instance.  The proofs are in
eight modules, some of which cover several components.  These extend all of
them, so a module that shares a proof module with another names its own `Init`,
`Next`, `Spec` and `vars` after what it is about (`InitPrices`, `NextLeases`,
`SpecMarket`, `evidenceVars`):

| module | proofs about |
|---|---|
| `SumTheorems` | sums of functions over finite sets, least and greatest elements (lemmas only) |
| `PogoChainProofs` | `PogoChain`, in any deployment and in the synchronised one |
| `EconomicsProofs` | `Economics`, `TrainingFreeze` |
| `PogoFinalityProofs` | `PogoFinality` |
| `ParameterProofs` | `DynamicBlockTime`, `NetworkPrices` |
| `StorageProofs` | `ModelDownloads`, `HealthMonitor`, `StorageLease` |
| `TrainingProofs` | `ModelScheduler`, `TrainingMarket`, `SpotCheck`, `ModelCommitment` |
| `CatalogueProofs` | `TuningPipelines` and what it extends |

The modules of the system:

| module | what it is | extends |
|---|---|---|
| `PogoChain` | nodes, mining threads, gossip | |
| `AgreedLog` | abstract specification: one log, extended by an up-to-date node, copied in order | |
| `Economics` | the ledger of one node and the thread that settles its blocks | |
| `TrainingFreeze` | strikes and freezes of models, mining threads and refreshes that write them | |
| `ModelScheduler` | the training rotation, its payments and the lifecycle of models | |
| `PogoFinality` | verification window, attestations, finalisation, penalties on one node | |
| `TrainingMarket` | the fee market and its leader | |
| `DynamicBlockTime` | the slot length and its adjustments | |
| `NetworkPrices` | network prices, operator's prices and targets, leadership | |
| `StorageLease` | leases and the node that keeps the data | |
| `ModelCommitment` | Merkle trees, proofs, quantisation (operators only) | |
| `SpotCheck` | records, replays, strikes | `ModelCommitment` |
| `ModelDownloads` | coroutines that download and give models | |
| `HealthMonitor` | monitor threads over them | `ModelDownloads` |
| `ModelRegistry` | entries, uploads, queries, expiry, the head of a round | |
| `NanochatJobs` | nanochat models beside the registry | `ModelRegistry` |
| `FineTuning` | datasets and jobs over the registry | `NanochatJobs` |
| `TuningPipelines` | pipelines, and the whole catalogue's `Next` | `FineTuning` |

A definition marked `\* Variant` is never used by a specification: it is what a
plausible slip in the code would make of the definition below it, and
`PROJECT.json` says which property notices.

### PogoChain

`chain[n]` is `self.chain` of node `n`; list position `p` is `chain[n][p + 1]`.
A block keeps what the protocol compares: hash, previous hash, index, miner.
Hashes are fresh numbers (the hashed contents carry a timestamp).  `pc[w]` is
where mining thread `w` stands; a round is cut exactly where the code reads or
writes the shared chain, and so is a delivery: `adding[n]` is the block that the
gossip thread found next and has not appended yet.  A node has one gossip
thread, which handles one message at a time; that is Chaincraft's doing.

| action | code |
|---|---|
| `StartMining`, `StopMining`, `CheckFlag` | `start_mining`, `stop_mining`, the loop's `while self.is_mining` |
| `BeginRound` | the head of `mine_block`: registration, lottery |
| `BeginTraining` / `FinishTraining` | `create_training_block` reads `len(self.chain)` before training, `get_latest_block().hash` after it |
| `FailTraining` | no block from this model; the next one is tried |
| `BeginNoop` / `FinishNoop` | `create_empty_round_block` reads the tip, then the height |
| `AppendOwn`, `Publish` | `chain.append` and the broadcast, which may fail |
| `ReceiveNext`, `AppendReceived` | `add_message` at the expected height: the checks, then the append, between which a mining thread may append |
| `ReceiveConflict` | `add_message` below the expected height |
| `AnswerDigest` | a peer's `gossip_object` |
| `Restart` | a new process with the same keys |

The wire is a set of messages that is never emptied: a message may be received
any number of times, in any order, or never.  The lottery's `SHA256 mod n` is
an uninterpreted constant `Draw`.  Bootstrap eligibility is switched off, as
the code does for `bootstrap_period_blocks <= 0`; it is the subject of
`Economics`.  Received blocks are taken to pass `is_valid`: every block on the
wire was built by a miner's code.  `add_message` on a block above the expected
height, on one that is known, and on a hash-only message changes nothing and is
not a step.

### Economics

Amounts are natural numbers.  `due[a][u]` is the principal of `a`'s unbonding
queue that unlocks at block `u` or earlier, because the code reads the list
only through such sums.  `stage`, `model`, `index` and `todo` are the mining
thread's place in `mine_block` / `_process_block_economics`: `BeginRound`
(registration), `EnterRound` or `SkipRound` (eligibility, lottery, or no
block), `Preflight` (`can_owner_afford_training`), `ReadHeight`, `FailTraining`
or `Settle`, `Materialise` and `EndMaterialisation` (end of the bootstrap),
`RewardMiner`, `PayMiner`, `RankParticipants`, `AppendBlock`.  Everything else
is a call of another thread, possible between any two of them.

`period` is a variable that never changes, so that one run covers nodes with
and without a bootstrap.  `issued` and `burnt` are history: tokens that
`"system"` paid out of nothing (attestation rewards without bootstrap) and
tokens that penalties destroyed.  Each call of the ledger is one step (the code
has no lock, so two calls could also interleave inside one, which is not
modelled), and there is one mining thread; the round may ask for a model more
often than the shuffled list, and for a frozen one; the training lock is left to
`PogoFinality`; `SkipRound` also stands for a failed block.

### TrainingFreeze

`strikes` and `frozen` are the two tables of `PogoConsensus`.  A mining thread
lists what is not frozen (`ListTrainable`), looks again before it trains
(`Train`), and writes what came of it one statement at a time: a strike reads the
count, writes it, reads it again and freezes (`MissImprovement`, `CountStrike`,
`ReadStrikes`, `Freeze`); a published result clears the strikes
(`ClearStrikes`).  Any number of threads do so, since a stopped one may still be
training.  A refresh thaws, then forgets the strikes (`Thaw`, `ForgetStrikes`),
and several may overlap.  What refreshes cost is in `Economics`.  `crossed` is
history: models at which two threads trained at once, or a refresh met a strike.

### PogoFinality

One node, whose own blocks are `Local`; the others are a peer's, whose chain
has `net` blocks.  A mining thread looks at the lock (`BeginBlock`), reads the
height (`TakeHeight`), trains, and records and appends the block whatever
happened in between (`FinishBlock`; the lock does not see a recorded block
before it is appended, so the two are one step).  Any number of threads do so:
a stopped one may outlive its join beside a new one.  `beside` is history: which
blocks were being built when a round passed the lock.  `Receive` and
`AppendReceived` are `add_message` with a block of the next height,
`ReceiveConflict` its equivocation branch.  `SubmitAttestation`, `Finalize`,
`VetoBlock` and `SlashMiner` are `submit_attestation`,
`finalize_block_with_economics` in its two outcomes, and
`slash_miner_with_economics`; as in the code, nobody but an operator or a test
calls the latter two.  `Finalize` holds everything the call does: the second
append, the version, and in `Settle` the offences found, their penalties in one
go (`ApplySlashing`: their amounts were computed before the first was applied)
and then the rewards: liquid and out of nowhere without a bootstrap period, else
into the stake and out of genesis (`autoStake`, `Mints`), which may run short in
the middle of a list of verifiers.  Staked rewards are within reach of later
percentages.  Block rewards, which draw on genesis too, are in `Economics`.  A
percentage of a stake is rounded down to whole tokens, which the code's floats
are not.  `pending` counts attestations by sender and vote; `credit` and
`forgone` are history.

### TrainingMarket, DynamicBlockTime, NetworkPrices, StorageLease

In the market and the leases heights are *relative* to the block in work (age,
time left, rest), so that the chain may grow for ever in a finite model.
`TrainingMarket` is one leader's loop: `SelectTasks`, then `FinalizeBlock`, with
one `Cooldown` for all tasks because the code does not read a task's own, and
`SubmitTask`, `CancelTask` and `ExpireStaleTasks` at any moment; the random
tie-break is any choice.  Urgency and base fee keep the code's formulas in
fractions of integers.

`DynamicBlockTime` keeps, per block, the timings (as how many, and whether they
call for more or less time), the proposals (the last of which alone is looked
at), the approval and the mark the block carries.  Two floors differ in the
code, that of the manager and that of the configuration, and both are kept.

`NetworkPrices` joins the operator API to the dynamic parameters at the point
where the code does: `Lead` is `on_selected_as_block_leader`, which asks the
API for adjustments, applies each to the parameters and counts temporary targets
down.

`StorageLease` has `CreateLease`, `RenewLease`, `CancelLease`, `EndBlock`
(`check_block`), `Delete` and `MarkDeleted`.  `Delete` is the loop over
`deletion_ready` in the manager's docstring (`storage_lease.py:197-200`), which
deletes what it is given without looking at the lease; `MarkDeleted` is
`mark_deleted`, called some time after, which looks at nothing either.  So there
are two gaps in which a lease may be paid for, cancelled or made anew
(`doomed`, `unmarked`), and `overtaken` records the leases whose last payment
fell into one.

### ModelCommitment and SpotCheck

A hash is the term it is the hash of.  Trees, proofs and their check are the
code's, level by level, over the hashes of layers.  Weights are hashed as bytes,
so an array is a record of its weights and their width: the trainer's are 64 bits
wide (`Float64`), `_create_single_commitment` casts them first (`AsFloat32`, with
`Single` the rounding), and `verify_merkle_root` hashes what it is given without
a cast.  `VerifyQuantization` and `VerifyMerkleRoot` are the verifier's
comparisons; `SpotCheck!Committed` hands them the 32-bit model that verifiers
download (`Download`), as the docstring of `quantization_verifier.py:7-8` and the
sketch in `consensus.py:841-848` have it.  In `SpotCheck` a training is
`Steps` applications of `Gradient` and `Apply` to a state; a trace is what
`decoder_lm_training_trace.py` records of it.  The miner publishes any trace and
reveals any witness over the small sets; the checks are structural, statistical
and the replay of the drawn steps, in the code's order and with its treatment of
the last step.  The order of the calls is that of
`e2e/tests/test_spot_check_pipeline.py`, the only place that makes all of them.

### ModelDownloads and HealthMonitor

A step of a coroutine runs from one await to the next; the only await that
yields is the sleep between two looks at a torrent.  `DownloadModel` tries
methods in any order (`Plans`: the success rates that order them are
statistics); `Look` is one turn of the wait, with completion, timeout, fallback
and the `finally` that clears the entry of the model, whoever made it.
`StopDownload` clears it while the coroutine waits on.  `HealthMonitor` adds the
threads: `StopMonitoring` waits five seconds for a thread that may sleep thirty,
so it may be left over.

### ModelRegistry, NanochatJobs, FineTuning, TuningPipelines

One registry, `models`, and the components that read and write it, each with
the state and the actions of its own: rounds that make up a default model when
there is none, uploads, queries (which load a model from its file), top-ups and
extensions, `CleanupExpiredModels` with what nanochat removes and what it does
not; nanochat models and their jobs; tuning jobs, whose completion registers a
model; pipelines with their conditions and manual progress.  Money is counted in
the price of a block of storage.

### ModelScheduler

`order` is the key order of `training_slots`; `balance`, `active`, `paidUp`,
`deprecated` and `inRound` are the fields of a slot, `queue` is
`rotation_queue`.  `Rotation` is the queue `_update_rotation_queue` builds,
`Rebuild` the whole call with its flags, part of each action whose code calls
it.  `training` is the miner of the documented loop: `GetNext`, then
`RecordIteration` or `DropIteration`.  The owners' calls are `RegisterModel`,
`AddPayment`, `SetActive` (pause and resume), `Deprecate`, `Withdraw`,
`RemoveModel` and the periodic `AutoPause`; the ownership checks of
`ModelLifecycleManager` only say who may make them.  `paid`, `spent`, `returned`
and `forfeited` are history.


## 3. Runs

All runs but `SchedulerTier` pass; that one shows a divergence of the code from
its documentation, and TLC must find the violation.  The module of a run is `MC...`, its cfg is `<run>.cfg`.

| run | module | question |
|---|---|---|
| `ChainSynced` | `MCPogoChain` | three nodes with a synchronised roster (what the multi-node tests set up): no fork, a refinement of `AgreedLog`, everybody catches up |
| `ChainChurn` | `MCPogoChain` | two strangers, a stop, a second thread, a restart: what remains true of chains and accusations |
| `Ledger` | `MCEconomics` | the settlement of two blocks against any three calls |
| `Scheduler` | `MCModelScheduler` | one model of each tier, five calls of owners: queue, payments, no starvation |
| `SchedulerTier` | `MCModelScheduler` | two models of the normal tier: `NoModelStarves` fails, the later one is never trained |
| `Finality` | `MCPogoFinality` | two blocks of the node and two of a peer, three calls of verifiers and operators: votes, lock, penalties |
| `Market` | `MCTrainingMarket` | five tasks of four models, submitted and cancelled at will: cooldown, expiry, order |
| `Parameters` | `MCParameters` | one block, timed up to four times, its proposals, votes, applications and mark, between the bounds; every target and configuration of an operator against leaderships |
| `Storage` | `MCStorageLease` | two files, two owners, every boundary of a lease |
| `Distribution` | `MCHealthMonitor` | two coroutines, two torrents of a model, monitors that start and stop |
| `Evidence` | `MCSpotCheck` | every record and every witness of two steps, every draw |
| `Catalogue` | `MCCatalogue` | rounds, uploads, nanochat, tuning jobs and a pipeline over one registry |

### Bounds, and why they are enough

* `ChainSynced`: heights up to 4 give every node several turns and let a node
  lag by more than one block, so that gossip order matters; two models per round
  reach failures, second tries and no-ops.
* `ChainChurn`: three built blocks suffice for two blocks of one miner at one
  height plus a peer's; two threads on one node and one fault, a stop or a
  restart (`MaxFaults`), reach both origins of equivocation: a training thread
  that outlives its stop, and a node that forgot what it built.  No model is
  needed for the drift (`Models = 0` leaves the no-op round, whose index and
  parent are also read apart).  Three blocks also let a peer's block be pushed up
  and its next one be met.  Histories with two faults are beyond the bound.
* `Ledger`: heights up to 3 and periods 0 and 2 cover the bootstrap, its end
  (own block and peer's block) and the time after it; supply 9 runs dry within
  the run; cooldown 1 and three calls let an
  unstake mature between the settlement steps; two accounts with one active
  place make the ranking slash bite.  The tables of strikes are explored while the
  ledger is as it began and the other way round (`MCSpec`), since they share
  neither state nor calls: two threads, two refreshes that may overlap, a cap of
  two, one model, as models do not interact.
* `Scheduler`: one model of each tier, because two normal or three low ones
  starve (section 6); rounds of two iterations, so that the rebuild at the end
  of a round falls inside a turn of the queue; a price equal to the minimum
  balance; five calls register three models and leave two to pause, withdraw,
  pay or remove.
* `Finality`: a window of two blocks with one for each phase; two own blocks of
  one model, a peer's no-op and a peer's block of that model; one block whose
  loss rose, so that a finalisation may find its miner guilty twice; a quorum
  of two thirds and a veto of a third; three calls are two attestations and a
  decision, or a decision and another round of votes.  A reward is two tokens and
  genesis holds three, so that it serves one attestation and a half.  Two threads
  that build side by side are explored with a single call (`MCSpec`): the lock
  reads nothing but chain and blocks.
* `Market`: one slot for four models, two tasks for one model, one task that
  tips nothing, cooldown 2, and an urgency that reaches its cap of 4 after three
  blocks.  A life of 8 blocks satisfies `CrowdFitsLife` (TLC evaluates it, as
  `CrowdIsServed`) with little to spare: a deferred task meets both ends of its
  urgency and comes near its expiry.  Ages are capped where urgency is.
* `Parameters`: bounds 15 to 26 around a step of 4 are reached from both sides
  and hit between steps; the manager's floor of 18 lies inside them.  Adjustments
  of a quarter, rounded, move a price from 8 to 20: targets 8 and 19 are a bound
  and a value no step reaches exactly; four adjustments by other hands.  The
  block timer and the prices share neither state nor calls, so each is explored
  while the other is as it began (`MCSpec`).
* `Storage`: warning and grace of two blocks, renewals of two and three, up to
  five blocks paid ahead and four lapsed: every status is left at, before and
  after its boundary.
* `Distribution`: one model, as models do not interact; two torrents tell a
  renewed one from the old; one stop, one monitor left over.  A download whose
  swarm is too small is given up at its first look (`MaxWait = 0`), any other
  at its second (`Timeout = 2`), so that both ends are met.
* `Evidence`: three states, two steps, two drawn with repetition, so that both
  steps, or one of them twice, are replayed; three layers make the tree odd;
  32 bits hold every other weight, so that one state's weights are changed by
  the cast and two states' are not;
  four loss curves: a dip, none, not a number, a jump.
* `Catalogue`: the default model, one upload, one nanochat model, one job, one
  pipeline of two layers; heights up to 3 against terms of 1, 2 and 3; five
  calls; a dataset too small for one batch.

`CHECK_DEADLOCK FALSE` is set where a bounded run ends; `Market`, `Parameters`
and `Storage` never stop, and TLC checks it.

### Fairness

* *Chain:* weak fairness of each mining thread's round, of the first
  `start_mining`, of receiving a next block that is on the wire and of peers
  answering digests.  Threads are scheduled by the operating system, the loop
  runs until it is stopped, and Chaincraft asks for digests periodically.
  Nothing is assumed of stop, restart or a second start, and `Publish` may lose
  every message: catching up relies on digests alone.
* *Scheduler:* the miner's loop keeps asking, and every training ends, well or
  badly.  Owners need not call.
* *Storage:* blocks keep coming, and a node that was told to delete does.
* *Distribution:* the event loop wakes a coroutine that sleeps, the monitor's
  thread keeps looking while it is to run, and ends once it is not.  Nothing is
  assumed of the swarm, of stops or of clean-ups.

## 4. Properties

*Chain, any deployment.*  `NoBlockTwice`; `OnlyOwnBlocksDisplace` (a block of
another sits above its index only by as many blocks as the node appended itself
between the check and the append of a delivery);
`PeersAccuseJustly` (a node that accuses another has seen two blocks of it for
one height, or has pushed a block of it up itself);
`HonestMinersStayClean` (without stops and restarts only the latter happens, and
nobody accuses itself).  In other histories a node can hold evidence against
*itself* that is not true: the incumbent is looked up by position and a drifted
block of its own meets the wrong one.

*Chain, synchronised.*  `NoFork`, `ImplementsAgreedLog`, `EveryNodeCatchesUp`;
`HashLinked` and `OneProposerPerTip` are proved beside `NoFork`.

*Ledger.*  `Conserved` and `EmissionIsBacked` account for every token;
`UnbondingStaysLocked` and `VirtualStakeIsClaimedOnce` relate claims to heights
and stages; `FrozenWhileStruckOut` relates two
copies of one fact: who stands at the cap is frozen, or a thread or a refresh is
about to change that; who is frozen stands at the cap, unless two threads have
met at the model since it was thawed;
`SomebodyMayMine` says that slashing by rank never empties the active set.

*Scheduler.*  `QueueIsCurrent` relates the queue to the slots it was built from
some calls ago, for models that are alone in a tier; `PaymentsAreAccounted`; `NoModelStarves`.

*Finality.*  `AttestationsCountOnce` follows every attestation, and the reward it
stands for, to its one end: it waits, or its reward is liquid, staked, not to be
had from genesis, lost to a penalty, or dropped by a veto.  (That one verifier
may hand in many is the code's doing, and allowed.)  `AuditedHeadIsSingle` is the
promise of the training lock's docstring as far as the code keeps it: for blocks
that were not built side by side.  `SlashingStaysWithinStake`.

*Market.*  `ModelsRest` and `CompetitiveTasksAreServed` quote the module's
docstring, the first for the configured cooldown, which alone the code looks at
(see 6); `NoTaskIsOvertaken` is the order two tasks may rely on although tips
grow at the rate of their age.

*Parameters.*  `NothingIsAppliedTwice`; `PricesInBounds`; `LeadersApproach`.

*Storage.*  `PaidDataIsKept` is a safety property of node and manager together;
it names the one case in which the code does lose paid data, a payment between
the order to delete and `mark_deleted` (`overtaken`; the run reaches the loss).
`ExpiryIsAnnounced` is an action property of the manager, `LapsedDataIsFreed` the
liveness of both.

*Distribution.*  `OverlapsWereStopped`; `DownloadsEnd`; `ShortageIsSeen`.

*Evidence.*  `HonestEvidencePasses` (completeness of the checks, where the
downloaded 32-bit model is what is compared, and their failure where it is the
record's 64-bit weights),
`FullReplayProvesTraining` (what they would prove if every step were drawn),
`ProofsBindLayers`, `FrozenWhenUseless` (against the history of the blocks).

*Catalogue.*  `RemainingStorageIsKept`, `LoadedAreRegistered`,
`NanochatIsWhole`, `OneLayerAtATime`.

## 5. Proofs

| theorem | shows, for every value of the constants |
|---|---|
| `PogoChainProofs!TypeCorrect` | `[]TypeOK` of the chain model |
| `PogoChainProofs!GossipSafe`, `DisplacementIsOwn` | `NoBlockTwice`, `OnlyOwnBlocksDisplace`, for every deployment |
| `PogoChainProofs!AccusationsAreJust`, `HonestMinersAreClean` | `PeersAccuseJustly` for every deployment, `HonestMinersStayClean` (whose premise is that nothing was stopped or restarted) |
| `PogoChainProofs!SynchronisedSafe` | `[](NoFork /\ HashLinked /\ OneProposerPerTip)` for every synchronised deployment |
| `PogoChainProofs!SynchronisedImplementsAgreedLog` | `ImplementsAgreedLog`, the refinement of `AgreedLog`, for every synchronised deployment with a node |
| `PogoChainProofs!DigestsBringTheNext`, `EveryTipHasAProposer` | `DigestsHelp`, `OneMayPropose`: what `EveryNodeCatchesUp` needs beside fairness |
| `EconomicsProofs!LedgerTypeCorrect` | nothing on the ledger goes negative |
| `EconomicsProofs!MoneySafe`, `EmissionSafe` | `Conserved`, `EmissionIsBacked` |
| `EconomicsProofs!LockHolds`, `ClaimsSafe`, `FreezeSafe` | `UnbondingStaysLocked`, `VirtualStakeIsClaimedOnce`, `FrozenWhileStruckOut` |
| `EconomicsProofs!ActiveSetNeverEmpties` | `SomebodyMayMine` |
| `PogoFinalityProofs!AuditedHeadSafe`, `CountsSafe`, `SlashingSafe` | `AuditedHeadIsSingle`, `AttestationsCountOnce`, `SlashingStaysWithinStake` |
| `ParameterProofs!AdjustmentsSafe`, `SlotsSafe`, `FollowingSafe` | `NothingIsAppliedTwice`, `SlotsInBounds`, `FollowingIsIdempotent` |
| `ParameterProofs!PricesSafe`, `LeadersLead` | `PricesInBounds`, `LeadersApproach` |
| `StorageProofs!PaidDataSafe`, `ExpirySafe` | `PaidDataIsKept`, `ExpiryIsAnnounced` |
| `StorageProofs!LapsedAreDoomed` | `LapsedIsDoomed`: what `LapsedDataIsFreed` needs beside fairness |
| `StorageProofs!DownloadsSafe` | `OverlapsWereStopped` |
| `StorageProofs!WaitsRunOut`, `ShortagesAreLookedFor` | `WaitsAreCounted`, `MonitorIsAlive`, `LooksSeeShortages`: what `DownloadsEnd` and `ShortageIsSeen` need beside fairness |
| `TrainingProofs!BooksSafe`, `QueueSafe` | `PaymentsAreAccounted`, `QueueIsCurrent` |
| `TrainingProofs!TurnsComeNearer` | `TurnComes`: what `NoModelStarves` needs beside fairness and a place in the queue |
| `TrainingProofs!TrainedModelsRested`, `NobodyIsOvertaken` | `ModelsRest`, `NoTaskIsOvertaken` |
| `TrainingProofs!CompetitiveAreServed`, `WaitsAreBounded` | `CompetitiveTasksAreServed` where `CrowdFitsLife`, `WaitsAreShort` |
| `TrainingProofs!HonestSafe`, `ReplaySafe`, `LayersSafe`, `FreezeSafe` | `HonestEvidencePasses`, `FullReplayProvesTraining`, `ProofsBindLayers`, `FrozenWhenUseless` |
| `CatalogueProofs!MemorySafe`, `NanochatSafe`, `JobsSafe`, `LayersSafe`, `StorageKept` | `LoadedAreRegistered`, `NanochatIsWhole /\ CompletedMeansDone`, `ActiveJobsExist`, `OneLayerAtATime`, `RemainingStorageIsKept` |

### Assumptions

Each module names the assumptions on its constants (`ChainConstants`,
`EconomicsConstants`, `FinalityConstants`, ...); TLC evaluates them in the runs.
Some say something about the code's configuration:

* the phases fit into the finalisation window, and the two percentages that one
  finalisation may take add up to at most a hundred;
* a price is counted in a unit so small that a share of it is never rounded to
  nothing (the code's prices are floats);
* the layers whose sizes a model has lie within its weights;
* accounts, blocks, models and coroutines are finitely many, as a process only
  ever knows finitely many.

Beyond them, the two synchronised theorems of `PogoChainProofs` assume `Synchronised` (`SharedRoster =
Nodes`, an injective `Host`, no stops or restarts; nothing about `Draw`), as do
`DigestsBringTheNext` and `EveryTipHasAProposer`, the latter with
`DrawsACandidate`: the draw is an index among the candidates, as a hash modulo
their number is. 

`CompetitiveAreServed` assumes `CrowdFitsLife`, which is a condition on the
configuration and the crowd of owners together and not one the code enforces.  A
task may have to wait `peak` blocks until it is most urgent, and then for
`Delay`: once for each task of another model that tips as much, and for each
other task for its own model a block and the cooldown after it.  `lead` is how
long a fresh task needs to be as urgent as it; within that time, and a cooldown,
nobody who was served is back before it.  With the code's defaults (four slots, cooldown 5, one tenth
more urgent each block up to five times, a life of 200 blocks) `peak` is 40.
Where the condition fails a task can expire although it is competitive: the
property is false, for instance, where the life is shorter than `peak`.

### Arguments

*GossipSafe.*  `NoBlockTwice` alone is not inductive: a miner appends a block
without looking whether the chain already has it.  The invariant adds that
hashes of existing blocks lie below `fresh`, that a draft which is ready is on
no chain, on no wire and in no other thread's hands, and that its index is not
above the height of its node; and that a block which a gossip thread is about to
append is the height of its chain or below it only by the node's own appends.

*AccusationsAreJust.*  `Provenance`: whatever is on a chain, on the wire or ready
to be appended was built by a mining thread, genesis excepted.  A node finds the
incumbent by position and compares miners; if the incumbent of a stranger sits at
its height, both blocks are evidence.  If it does not, `OnlyOwnBlocksDisplace`
puts a block of the node's own right below it, and nothing ever takes either
away again (`PushedUpStays`).

*HonestMinersAreClean.*  While nothing was stopped or restarted (`Quiet`), a node
has one thread, all it built is on its own chain or ready to be put there, and
the next height is read after the last append: of two of its own blocks the
later one has an index at or above the position of the earlier
(`OwnHeightsGrow`), even if both have drifted.  So a block on the wire meets
another of its miner only where that one was pushed up
(`QuietConflictIsPushedUp`), and never on the miner's own chain, although blocks
sit above their heights there.

*SynchronisedSafe.*  The invariant says whose turn each position of a chain was
(`Turn`, a function of the prefix), that each block was mined in turn, that a
miner's blocks are on its own chain, that every chain is a prefix of the longest
one, and that a thread past the lottery holds the longest chain and has the turn
on it.  Then the lottery gives no second thread the turn, the height read before
training is still the height when the block is appended, and a gossip append
copies the longest chain.

*SynchronisedImplementsAgreedLog.*  `Longest` is a choice; `NoFork` makes it the
same sequence whichever longest chain is chosen (`TheLongestIsOne`), and some
chain is a longest one although `Nodes` may be infinite, because one chain grows
by one block at a time (`LongestExists`).  Two actions move a chain: `AppendOwn`
maps to `Propose`, since a thread past the lottery holds the longest chain, and
`AppendReceived` to `Learn`, since the block it appends is held by a longer one
and still fits: while a longer chain exists the node has no thread that appends.

*Ledger.*  Types need `DueGrows` (later sums are not smaller) and
`IndexIsReached` (a block under settlement has an index its chain has reached):
otherwise maturing could go below zero.  `LockHolds` follows step by step from
the same invariant.  `ClaimsSafe` adds that after the materialisation nobody can
register and that the loop's `todo` covers all claims.

*MoneySafe, BooksSafe, CountsSafe again.*  Each says that a sum over all holders,
blocks or models is what the histories make it.  The library defines a sum by a
recursive function, that is, by a `CHOOSE`, and its induction theorems cannot be
instantiated; `SumTheorems` proves what is needed (a sum with one term changed,
taken out, split, cleared) by *smallest counterexamples*: a set of subsets of a
finite set has a minimal member, since inclusion is well-founded there.  The
rest is one step per action that says which terms move, and by how much.
`MoneyInv` needs `LedgerInv` for the types (no debit may go below zero);
`BooksInv` that a model without a slot has left no balance behind, or a new
registration would lose it.

*FreezeSafe (`EconomicsProofs`).*  A count that reaches the cap is looked at again by
the thread that wrote it, which freezes the model unless the count has fallen
meanwhile.  `FreezeInv` says that a frozen model at which nobody met has no
thread and no refresh at work on it, and that a thread which is alone with a
model and about to freeze it still sees its own count.

*ActiveSetNeverEmpties.*  Ranking slashes everybody below the active places: a
participant of greatest stake exists (`GreatestExists`) and is not below them.

*AuditedHeadSafe.*  `LockInv`: what the node appended is on its chain *below* the
chain's length, so that no append can push it out of the lock's sight; and of any
two of its blocks, finished or not, one was being built when the round of the
other began, or one was `Earlier`: appended before that round, below its height
and, if it has the same model, more than both phases away from the height, or
from the end of the chain while the height is not yet read.  Appends by peers and
finalisations only make the distances that the lock measures grow.

*CountsSafe* rests on `SettleShape`: a finalisation adds to stake, liquid balance
and what is forgone exactly what was earned, since the percentages stay within
the stake and what genesis does not pay is forgone.

*SlashingSafe.*  Amounts that are computed from one stake and add up to at most
a hundred percent add up, rounded down, to at most the stake (`TwoShares`), so
nothing is left to be taken from the liquid balance.

*AdjustmentsSafe, SlotsSafe, FollowingSafe.*  `TimerInv`: everything the slot
may be set to is in bounds *when it is recorded*, pending proposals are fresh
(so that a vote approves none that was applied), and what a followed block gave
is what its mark gives again.

*PricesSafe, LeadersLead.*  The bounds are an invariant; the rest is arithmetic
of one step (`OneStepNearer`): an adjustment is at most the share of the price
and at least one unit, and is refused only where it would leave the bounds, so
the distance to a target within them shrinks or is within one adjustment.

*PaidDataSafe, ExpirySafe.*  `LeaseInv`: unless it was overtaken, an open lease
has its data on disk or the deletion is not reported yet, and one that is
condemned, eligible or deleted is past its grace; an active lease that was not
paid for in this block has time left.  A renewal of a long-lapsed lease is the
case that needs the last exception.

*DownloadsSafe.*  The number of waiting coroutines of a model is counted
against its entry: an end takes one of both, or only a coroutine whose stop was
counted.

*QueueSafe.*  What the queue holds cannot be kept by an invariant about the queue
alone: a payment rebuilds it only if it lifts the flag `paidUp`, and withdrawals
leave both as they are.  `QueueInv` puts the flag between them: it is up for
whoever can be trained, and whoever is alone in a tier with the flag up is in
the queue.  `RotationHolds` says what a rebuild makes: of each tier's models
turns only, and the first turn is the tier's first model's, which settles it for
a model that is alone there.

*TrainedModelsRested, NobodyIsOvertaken.*  `RestInv`: what a model still rests
and what it has rested make up a cooldown, and no model of the selected plan
rests.  The order of tasks needs that urgency grows with age and products with
their factors, with the cap of the urgency in between.

*CompetitiveAreServed, WaitsAreBounded.*  That a task is served in time is a
safety property here, because time left is part of the state; but no bound on
its wait is inductive as such.  `LineInv` counts what a task may still wait
for: a slot for each rival that may still come first, for each sibling that may
a block and the cooldown after it, and what its own model still rests.  That
count and the blocks the task has waited since it was most urgent, `MaxSlots`
slots each, never exceed `Delay` (`Promise`).  A block that passes over a task
that is most urgent has filled every slot with tasks that may come first
(`Greedy`), or has trained a sibling; each of them leaves the count, since after
its cooldown it needs another `lead` blocks to beat the waiting one, and that is
later than `wait`.  Cancellations only make the count smaller.  A task that had
waited `peak + wait` blocks would have waited for more than `Delay`.

*DigestsBringTheNext, EveryTipHasAProposer.*  Every chain is a prefix of the
longest one, so what a peer holds at the height a node asks for is the node's
next block, and it passes the checks of `add_message`.  All nodes are candidates
on every tip (`AllAreCandidates`), so the draw names one that runs.

*The other halves of liveness.*  `TurnsComeNearer`: the model given is the first
that can be trained, and the queue is turned round behind it, so who comes later
and can be trained moves up by its place.  `LapsedAreDoomed`: `DoomInv` puts the
status between the time that is over and the node's list, since `check_block`
reports a lease only when its status changes.  `WaitsRunOut`: a method tried
after a wait has no magnet link, so BitTorrent cannot be waited for again.
`ShortagesAreLookedFor`: a thread that outlived its monitor ends only while none
runs, so it cannot be mistaken for the last one.

*FreezeSafe (`TrainingProofs`).*  The strikes are the current run of useless blocks and
the freeze is its longest run since the refresh, compared with the maximum.

*ReplaySafe, HonestSafe.*  A training is a recursive function, which exists
(`TrainingsExist`) and unfolds (`TrainedUnfolds`), again by smallest
counterexamples.  If all steps were replayed, the witness's states and the chain
entries equal those of the training up to the first step where they do not, and
there the replay of that step, or of the one before it, contradicts: the
witness's first state is compared with the block before, the last one's
successor with the block's result.  The leaves of the root that the trainer
commits to are those of its 32-bit model (`RootOfTheDownload`).  Leaves of the
same layers at two widths differ in their first place, the trees over them are
equally high and differ in the first place of every level (`PairedAbreast`,
`TreesAbreast`), so their roots differ (`RootsDiffer`): no 64-bit weights have a
root that was committed to.  A quantised model is close to itself whatever its
levels, hence a model that the cast does not change (`Exact`) passes the 4-bit
comparison with its own commitment.

*LayersSafe.*  A level that is not the root alone is longer than the next
(`LevelsShrink`), so the tree has a root (`TreeHasARoot`); an ancestor's place is
within its level (`PlacesAreNodes`); a node is the hash of the node below and its
sibling, itself if there is none, on the side that the place's parity tells
(`SiblingsCombine`).  So what a leaf and the proof hash to is the ancestor at
every level if the leaf is the layer's, and at none otherwise (`ProofsBind`).

*Catalogue.*  One conjunct per component.  The registry's needs that nanochat
entries are uploaded at block 0, which is why its formula (`upload + expires`)
and the registry's (`expires`) agree; nanochat's says that a registered model
has its job; that of fine-tuning says that the models of jobs are registered by
their completion only, which keeps `StorageKept` true when a job's name is met
again.

### Model-checked only

Liveness under fairness (`EveryNodeCatchesUp`, `NoModelStarves`,
`LapsedDataIsFreed`, `DownloadsEnd`, `ShortageIsSeen`) is beyond the provers.
What is proved of each is its half without fairness: that the state which is to
end offers the step that ends it, and that no other step puts the end off
(`DigestsBringTheNext` and `EveryTipHasAProposer`, `TurnsComeNearer`,
`LapsedAreDoomed`, `WaitsRunOut`, `ShortagesAreLookedFor`).  Two qualifications:
an owner's call that rebuilds the scheduler's queue may change places in it, and
a lease that is renewed or cancelled has not lapsed, for a while or for good.

Everything else that a run checks is proved.  The runs remain worth having: they
check the definitions that the theorems are about, and every invariant was found
by running its candidates.

## 6. Where code and documents part

The models follow the code.  What they reach, against what a document or a
comment says, or against what one might expect:

* **Chain.**  `add_message` never compares `previous_hash` and never replaces an
  incumbent (`consensus.py:1147-1164`).  Two nodes that have not heard of each
  other both pass the lottery and stay forked;
  `docs/POGO_PROTOCOL_SPECIFICATION.md:369` promises safety without the
  synchronised roster that `NoFork` needs.  The drawn proposer has no deadline
  (`enhanced_pogo_consensus.py:472-502`): if it stops, everybody waits, although
  line 371 of the same document promises liveness.  `add_message` compares the
  height and appends in two statements (`consensus.py:1160-1161`): if the node's
  own thread appends in between, the peer's block lands one position too high, and
  the peer's next block is taken for equivocation.  An honest miner that was never
  stopped is then accused and slashed
  (`enhanced_pogo_consensus.py:628-666`), which the run `ChainChurn` reaches
  and `PeersAccuseJustly` and `HonestMinersStayClean` allow; nothing else is
  allowed.
* **Ledger.**  Funds are looked at before training and taken after it, so an
  owner may leave an affordable block unpaid (docstring at
  `enhanced_pogo_consensus.py:707`).  A penalty misses tokens in cooldown
  (`economic_system.py:611`, `docs/chapter_07_economics.md:146`).  A node whose
  peer mines the block that ends the bootstrap never mints virtual stake
  (`enhanced_pogo_consensus.py:1290`, `runtime/config.py:93`).
* **Strikes and freezes.**  The count is written, read again and compared, and the
  freeze is written last (`consensus.py:460-468`), without a lock.  A refresh
  (452-453) or another mining thread's success (475) that falls in between leaves a
  model frozen without a strike; its owner has to pay for another refresh,
  although `enhanced_pogo_consensus.py:1403` says that a refresh clears the
  freeze.  `TrainingFreeze` reaches it, and `FrozenWhileStruckOut` allows it
  only at models where two threads have met.
* **Scheduler.**  Two normal models, or three low ones: one is never queued,
  because the stride of a tier and the index into it are taken from one counter
  (`model_training_scheduler.py:155`); `docs/MODEL_TRAINING_ROTATION.md:13`
  promises that no model is starved.  The run `SchedulerTier` shows it for the
  default priority, and `findings` records it.
  A model dearer than the minimum balance trains unpaid.  `resume_model` revives
  deprecated models (`docs/MODEL_LIFECYCLE.md:29`).
* **Training lock.**  It is asked when a round begins and sees a block once it is
  appended (`enhanced_pogo_consensus.py:239-252`).  `stop_mining` waits two
  seconds for a thread that may train for hours (`node.py:208`), and the next
  `start_mining` starts another: both may pass the lock for one model, so that
  two heads of it are audited at once, against the docstring at line 227.
  `AuditedHeadIsSingle` allows it to blocks built side by side only.
* **Finalisation.**  Nothing in the node calls `finalize_*`.  With auto-staking, a
  verifier whose reward genesis can no longer pay gets a part of it or nothing,
  and is not told (`economic_system.py:585-608`).  One verifier
  counts as often as it attests.  A veto drops the attestations without a
  penalty, and negative attestations are held against their senders.  A no-op
  block counts as invalid when it is finalised, so its miner is slashed.  A
  shorter ban replaces a longer one.  Phase timings are stored under keys that
  nobody looks up.
* **Evidence.**  The spot checks are called by tests only, and
  `verify_merkle_root` by nothing at all; the gate is off by default; nobody consults `is_frozen`, although the documents say that blocks
  of frozen models are rejected.  Draws repeat steps, where the documents speak
  of a sample without replacement.  A dip resets strikes but does not thaw.
  Commitments are hashes of weights cast to 32 bits (`pogo_protocol.py:139`,
  `:201`, `:212`; they are read as 64 bits at `:189`), but `verify_merkle_root`
  hashes at FLOAT32 what it is given (`quantization_verifier.py:308-321`), and the
  trainers' weights are 64 bits wide (`simple_trainer.py:93-99`,
  `decoder_lm_training_trace.py:102-104`): the root check fails on an honest
  record unless its caller casts the weights first.  `HonestEvidencePasses` says
  both halves.  The 4-bit weights are made of the 64-bit ones, too: a weight
  that the cast moves across the middle of two levels differs in the comparison,
  which is promised to weights that the cast does not change.
* **Market.**  A task's own cooldown is never read: `finalize_block` takes the
  configured one (`training_market.py:312-315`), where the comment on
  `cooldown_blocks` says "Minimum gap in blocks before the same model can be
  re-queued" (`training_market.py:73-75`) and
  `docs/chapter_03_training_market.md:125` "The cooldown can be set per-task".
  Who asks for a longer one is trained again too early; `ModelsRest` promises the
  configured cooldown, which is the default of the comment.
  `CompetitiveTasksAreServed` holds of tasks that could win, where
  tasks live long enough for the crowd; the comment that low tips are never
  starved does not hold of the others, which expire.
* **Block time.**  A block's timer fields are not serialised, so peers never
  follow an adjustment.  A miner's proposal judges only the timing it has just
  opened.  Applying an older approval discards a newer proposal.
* **Prices.**  They are local to a node.  `set_block_reward_target` is defined
  twice in `node.py` (1025 and 1155); query-price targets never act; a temporary
  target is used up even if its adjustment is refused.
* **Leases.**  Neither the usage in the module's docstring
  (`storage_lease.py:197-200`) nor `mark_deleted` (408-418) looks at a lease
  again: who pays after `check_block` reported a lease loses the data all the
  same, and its lease is closed with the time paid.  If the owner cancels and
  uploads anew before the report, the report closes the new lease and its data
  stays for ever.  Cancelled data is never deleted.  Nothing in the node uses leases.
* **Distribution.**  Torrents made elsewhere are never seen complete.  A stopped
  download waits on, and its `finally` clears the entry of a newer one.
* **Catalogue.**  The default model is stored until block 1000, counted from
  block 0 (`node.py:274`, `508`): on a longer chain it is expired when it is
  made up, and rounds end in no-ops.  `cleanup_expired_models` has no caller,
  and its call into nanochat comes after the entries are gone and removes
  nothing.  Creating a nanochat model again resets its job but keeps its
  weights.  A dataset smaller than a batch divides by zero in every step.  A
  pipeline may be progressed before it starts.

## 7. Not modelled

* *Numerical work*: training, fine-tuning techniques, language models; the
  models use its outcome and, in `SpotCheck`, its record.
* *I/O*: files and formats, HTTP and command line front ends, chat sessions,
  logging, statistics and event history, signatures.
* *Money of the fee market* (deposits and refunds) and callers that override its
  slot count; two leaders at once.
* *Completion of verification phases*: no step of the node acts on it.
* *Enhanced networking*, which nothing instantiates, and the other distributors:
  wrappers whose failures are caught.
* *Transactions and submission records*: tables without behaviour.
* Two calls of one ledger, registry or market that interleave *inside* a call, and
  a second mining thread that settles blocks on the ledger (second threads are
  modelled where they build blocks, freeze models and pass the training lock).
* Chaincraft, libtorrent and the hub are external, and modelled from how the
  code uses them.
