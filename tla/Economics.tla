----------------------------- MODULE Economics -----------------------------
(***************************************************************************)
(* The token ledger one node keeps (EconomicSystem) and the mining thread  *)
(* that settles the node's own blocks on it (EnhancedPogoConsensus).       *)
(*                                                                         *)
(* The ledger has no lock.  The mining thread checks that a model's owner  *)
(* can pay, trains, and settles the block step by step, while the gossip   *)
(* thread grows the chain and slashes, and the operator's threads unstake, *)
(* stake, pay and refresh.  Amounts are natural numbers of the smallest    *)
(* unit; floats, events and messages are left out.                         *)
(*                                                                         *)
(* due[a][u] is the principal of a's unbonding queue that unlocks at block *)
(* u or earlier: the queue is only ever read through such sums.            *)
(***************************************************************************)
EXTENDS Integers, FiniteSets, Functions

CONSTANTS
  Accounts,     \* ordinary addresses
  Me,           \* the address of the node that keeps this ledger
  Genesis,      \* genesis_address()
  System,       \* the pseudo-account "system"
  Models, Noop, \* models, and NOOP_TRAINING_MODEL_ID
  Owner,        \* model_owners: [Models -> Accounts \cup {System}]
  Cost,         \* [Models -> Nat]: training payment of one block
  Bonus,        \* training bonus of the block reward
  Emission(_, _), \* base reward for a bootstrap period and a height
  Supply,       \* initial_supply
  StartLiquid,  \* liquid tokens a harness moves from genesis to every account
  Periods,      \* the values of bootstrap_period_blocks (0: no bootstrap)
  VirtualStake, Grant, MaxActive, \* bootstrap_virtual_stake, .._grant, .._max_active_nodes
  ShareNum, ShareDen, \* post_bootstrap_min_holdings_fraction
  Cooldown,     \* unstake_cooldown_blocks
  AttestationReward,
  MinFee, MinEscrow, \* training_refresh_min_fee, .._min_escrow_when_frozen
  StartWallet,  \* the node's local wallet
  Amounts,      \* amounts a caller asks for
  MaxHeight,    \* bound: height of the chain
  MaxCalls      \* bound: calls from outside the mining thread

Holders == Accounts \cup {Genesis, System}
Blocks == 0 .. (MaxHeight + Cooldown)

ASSUME EconomicsConstants ==
  /\ IsFiniteSet(Accounts) /\ IsFiniteSet(Models) /\ Me \in Accounts /\ Noop \notin Models
  /\ Genesis \notin Accounts /\ System \notin Accounts /\ Genesis # System
  /\ Owner \in [Models -> Accounts \cup {System}]
  /\ Cost \in [Models -> Nat]
  /\ StartLiquid * Cardinality(Accounts) <= Supply
  /\ {Bonus, Supply, StartLiquid, VirtualStake, Grant, ShareNum, ShareDen, Cooldown,
      AttestationReward, MinFee, MinEscrow, StartWallet, MaxCalls} \subseteq Nat
  /\ {MaxActive, MaxHeight} \subseteq Nat \ {0}
  /\ Periods \subseteq Nat /\ Amounts \subseteq Nat \ {0}
  /\ \A p \in Periods : \A i \in 0 .. MaxHeight : Emission(p, i) \in Nat

VARIABLES
  period,       \* bootstrap_period_blocks, fixed when the node starts
  height,       \* len(self.chain)
  balance, staked, \* balances, staked_amounts
  virtual,      \* bootstrap_virtual_locked
  due,          \* unbonding_queue, as sums
  escrow,       \* model_training_escrow
  emitted,      \* total_tokens_emitted
  wallet,       \* DessinNode.balances[self.address]
  order,        \* bootstrap_registry: rank of registration, 0 for none
  slashed,      \* bootstrap_slashed
  materialised, \* _bootstrap_materialization_done
  stage, model, index, \* where the mining thread stands, on which model, at which height
  todo,         \* survivors the materialisation loop has still to visit
  issued, burnt,  \* history: tokens "system" paid out of nothing; tokens destroyed
  calls         \* bounded counter

tokens == <<balance, staked, virtual, due, escrow, emitted, wallet>>
bootstrap == <<period, order, slashed, materialised>>
job == <<stage, model, index, todo>>
vars == <<tokens, bootstrap, job, height, issued, burnt, calls>>

Smaller(x, y) == IF x <= y THEN x ELSE y
Larger(x, y) == IF x <= y THEN y ELSE x

-----------------------------------------------------------------------------
(* Bootstrap: registry, ranking, eligibility                                *)

InBootstrap(i) == i < period

Registered == {a \in Accounts : order[a] > 0}
Participants == Registered \ slashed

\* Ranked by virtual plus reward stake, then by age of registration.
Effective(a) == virtual[a] + staked[a]
\* Variant: ties outrank each other.
OutranksOrTies(b, a) == Effective(b) >= Effective(a)

Outranks(b, a) ==
  \/ Effective(b) > Effective(a)
  \/ Effective(b) = Effective(a) /\ order[b] < order[a]

Active == {a \in Participants : Cardinality({b \in Participants : Outranks(b, a)}) < MaxActive}

Holdings(a) == balance[a] + staked[a] + virtual[a] + due[a][MaxHeight + Cooldown]

EligibleToMine(a) ==
  \/ period = 0
  \/ InBootstrap(height) /\ a \in Active
  \/ /\ ~InBootstrap(height) /\ a \in Participants
     /\ Holdings(a) > 0 /\ Holdings(a) * ShareDen >= emitted * ShareNum

\* Variant: whoever registers again is granted virtual stake again.
MayRegisterAgain(a) == InBootstrap(height)

MayRegister(a) == InBootstrap(height) /\ order[a] = 0 /\ a \notin slashed

Enroll(a) ==
  /\ order' = [order EXCEPT ![a] = 1 + Cardinality(Registered)]
  /\ virtual' = [virtual EXCEPT ![a] = @ + VirtualStake]

-----------------------------------------------------------------------------
(* The unbonding queue                                                      *)

\* Liquid balance after finalize_matured_unstakes(a, tip).
Liquid(a, tip) == balance[a] + due[a][tip]

\* Variant: the entry of the next block matures too.
FlushedEarly(a, tip) ==
  [due EXCEPT ![a] = [u \in Blocks |-> IF u <= tip + 1 THEN 0 ELSE @[u] - @[tip]]]

\* Variant: what matured is credited but stays queued.
FlushedNever(a, tip) == due

Flushed(a, tip) ==
  [due EXCEPT ![a] = [u \in Blocks |-> IF u <= tip THEN 0 ELSE @[u] - @[tip]]]

\* a spends x at block tip: matured entries become liquid first.
Spend(a, x, tip) ==
  /\ due' = Flushed(a, tip)
  /\ balance' = [balance EXCEPT ![a] = Liquid(a, tip) - x]

\* Variant: the funds are not checked.
PayBlindly(a, b, x, tip) ==
  /\ due' = Flushed(a, tip)
  /\ balance' = [[balance EXCEPT ![a] = Liquid(a, tip) - x] EXCEPT ![b] = @ + x]

\* A payment that may fail: the maturing stays even if the funds do not suffice.
PayOver(a, b, x, tip) ==
  /\ due' = Flushed(a, tip)
  /\ balance' =
       IF Liquid(a, tip) < x THEN [balance EXCEPT ![a] = Liquid(a, tip)]
       ELSE [[balance EXCEPT ![a] = Liquid(a, tip) - x] EXCEPT ![b] = @ + x]

-----------------------------------------------------------------------------
Init ==
  /\ period \in Periods
  /\ height = 1
  /\ balance = [h \in Holders |->
       IF h = Genesis THEN Supply - StartLiquid * Cardinality(Accounts)
       ELSE IF h = System THEN 0 ELSE StartLiquid]
  /\ staked = [a \in Accounts |-> 0]
  /\ virtual = [a \in Accounts |-> 0]
  /\ due = [a \in Accounts |-> [u \in Blocks |-> 0]]
  /\ escrow = [m \in Models |-> 0]
  /\ emitted = 0
  /\ wallet = StartWallet
  /\ order = [a \in Accounts |-> 0]
  /\ slashed = {} /\ materialised = FALSE
  /\ stage = "idle" /\ model = Noop /\ index = 0 /\ todo = {}
  /\ issued = 0 /\ burnt = 0 /\ calls = 0

-----------------------------------------------------------------------------
(* The mining thread                                                        *)

At(from, to) == stage = from /\ stage' = to

(* mine_block registers the miner before anything else.                     *)
BeginRound ==
  /\ At("idle", "joined")
  /\ height < MaxHeight
  /\ IF MayRegister(Me) THEN Enroll(Me) ELSE UNCHANGED <<order, virtual>>
  /\ UNCHANGED <<balance, staked, due, escrow, emitted, wallet, period, slashed, materialised,
                 model, index, todo, height, issued, burnt, calls>>

EnterRound ==
  /\ At("joined", "round")
  /\ EligibleToMine(Me)
  /\ UNCHANGED <<tokens, bootstrap, model, index, todo, height, issued, burnt, calls>>

(* Not eligible, not drawn by the lottery, or no block was made.            *)
SkipRound ==
  /\ stage' = "idle" /\ stage \in {"joined", "round"}
  /\ UNCHANGED <<tokens, bootstrap, model, index, todo, height, issued, burnt, calls>>

\* What process_training_payment can draw from the owner at block i.
Funds(o, i) == Liquid(o, i) + IF InBootstrap(i) THEN staked[o] ELSE 0

(* can_owner_afford_training: matures the owner's queue when it has to look. *)
(* A round may ask here for a model it lists no more, or did not list since   *)
(* it was frozen.                                                           *)
Preflight(m) ==
  LET o == Owner[m]
      rest == Larger(0, Cost[m] - escrow[m])
  IN
  /\ stage = "round"
  /\ model' = m
  /\ IF o = System \/ rest = 0
     THEN stage' = "checked" /\ UNCHANGED <<balance, due>>
     ELSE /\ stage' = IF Funds(o, height) >= rest THEN "checked" ELSE "round"
          /\ Spend(o, 0, height)
  /\ UNCHANGED <<staked, virtual, escrow, emitted, wallet, bootstrap, index, todo,
                 height, issued, burnt, calls>>

(* create_empty_round_block needs no funds.                                 *)
ChooseNoop ==
  /\ At("round", "checked")
  /\ model' = Noop
  /\ UNCHANGED <<tokens, bootstrap, index, todo, height, issued, burnt, calls>>

(* The block's height is read once, before training.                        *)
ReadHeight ==
  /\ At("checked", "training")
  /\ index' = height
  /\ UNCHANGED <<tokens, bootstrap, model, todo, height, issued, burnt, calls>>

(* No salt improved the loss, the result was refused, or training raised an  *)
(* exception; what it does to the model's strikes is in TrainingFreeze.      *)
FailTraining ==
  /\ At("training", "round")
  /\ model # Noop
  /\ UNCHANGED <<tokens, bootstrap, model, index, todo, height, issued, burnt, calls>>

(* Training succeeded: the settlement of _process_block_economics begins.   *)
Settle ==
  LET due_now == period > 0 /\ index = period /\ ~materialised IN
  /\ At("training", IF due_now THEN "mature" ELSE "reward")
  /\ todo' = IF due_now THEN Registered ELSE {}
  /\ UNCHANGED <<tokens, bootstrap, model, index, height, issued, burnt, calls>>

(* _finalize_bootstrap_materialization visits the registry in its order.    *)
Materialise(a) ==
  LET minted == Smaller(virtual[a] + Grant, balance[Genesis]) IN
  /\ stage = "mature" /\ a \in todo /\ \A b \in todo : order[a] <= order[b]
  /\ todo' = todo \ {a}
  /\ IF a \in slashed THEN UNCHANGED <<virtual, balance, emitted, staked>>
     ELSE /\ virtual' = [virtual EXCEPT ![a] = 0]
          /\ balance' = [balance EXCEPT ![Genesis] = @ - minted]
          /\ emitted' = emitted + minted
          /\ staked' = [staked EXCEPT ![a] = @ + minted]
  /\ UNCHANGED <<due, escrow, wallet, bootstrap, stage, model, index, height,
                 issued, burnt, calls>>

EndMaterialisation ==
  /\ At("mature", "reward")
  /\ todo = {}
  /\ materialised' = TRUE
  /\ UNCHANGED <<tokens, period, order, slashed, model, index, todo, height,
                 issued, burnt, calls>>

\* Variant: what was asked for counts as emitted, not what genesis could pay.
MintAsked(a, x, toStake) ==
  LET pay == Smaller(x, balance[Genesis]) IN
  /\ emitted' = emitted + x
  /\ IF toStake
     THEN /\ balance' = [balance EXCEPT ![Genesis] = @ - pay]
          /\ staked' = [staked EXCEPT ![a] = @ + pay]
     ELSE /\ balance' = [balance EXCEPT ![Genesis] = @ - pay, ![a] = @ + pay]
          /\ UNCHANGED staked

(* _mint_from_genesis: what genesis has left, to stake or to liquid.        *)
Mint(a, x, toStake) ==
  LET pay == Smaller(x, balance[Genesis]) IN
  /\ emitted' = emitted + pay
  /\ IF toStake
     THEN /\ balance' = [balance EXCEPT ![Genesis] = @ - pay]
          /\ staked' = [staked EXCEPT ![a] = @ + pay]
     ELSE /\ balance' = [balance EXCEPT ![Genesis] = @ - pay, ![a] = @ + pay]
          /\ UNCHANGED staked

RewardMiner ==
  /\ At("reward", "pay")
  /\ Mint(Me, Emission(period, index) + (IF model = Noop THEN 0 ELSE Bonus), period > 0)
  /\ UNCHANGED <<virtual, due, escrow, wallet, bootstrap, model, index, todo, height,
                 issued, burnt, calls>>

MustPay == model # Noop /\ Owner[model] # System

CanPay ==
  LET rest == Larger(0, Cost[model] - escrow[model])
  IN  rest = 0 \/ Funds(Owner[model], index) >= rest

(* process_training_payment: escrow first, then liquid, then (bootstrap)    *)
(* stake.  A refusal keeps the matured entries and the unwrapped stake.     *)
PayMiner ==
  LET o == Owner[model]
      held == Smaller(escrow[model], Cost[model])
      rest == Cost[model] - held
      short == Larger(0, rest - Liquid(o, index))
      unwrapped == IF rest > 0 /\ InBootstrap(index) THEN Smaller(short, staked[o]) ELSE 0
      liquid == Liquid(o, index) + unwrapped
  IN
  /\ At("pay", "rank")
  /\ IF ~MustPay THEN UNCHANGED <<balance, staked, due, escrow>>
     ELSE /\ staked' = [staked EXCEPT ![o] = @ - unwrapped]
          /\ due' = IF rest > 0 THEN Flushed(o, index) ELSE due
          /\ escrow' = IF CanPay THEN [escrow EXCEPT ![model] = @ - held] ELSE escrow
          /\ balance' =
               IF rest = 0 THEN [balance EXCEPT ![Me] = @ + held]
               ELSE IF CanPay
               THEN [[balance EXCEPT ![o] = liquid - rest] EXCEPT ![Me] = @ + (held + rest)]
               ELSE [balance EXCEPT ![o] = liquid]
  /\ UNCHANGED <<virtual, emitted, wallet, bootstrap, model, index, todo, height,
                 issued, burnt, calls>>

(* _bootstrap_ranking_slash: whoever is outside the active set loses the    *)
(* virtual and the reward stake.                                            *)
RankParticipants ==
  LET out == IF InBootstrap(index) THEN Participants \ Active ELSE {} IN
  /\ At("rank", "append")
  /\ slashed' = slashed \cup out
  /\ virtual' = [a \in Accounts |-> IF a \in out THEN 0 ELSE virtual[a]]
  /\ staked' = [a \in Accounts |-> IF a \in out THEN 0 ELSE staked[a]]
  /\ burnt' = burnt + SumFunctionOnSet(staked, out)
  /\ UNCHANGED <<balance, due, escrow, emitted, wallet, period, order, materialised,
                 model, index, todo, height, issued, calls>>

AppendBlock ==
  /\ At("append", "idle")
  /\ height < MaxHeight /\ height' = height + 1
  /\ UNCHANGED <<tokens, bootstrap, model, index, todo, issued, burnt, calls>>

Mining ==
  \/ BeginRound \/ EnterRound \/ SkipRound \/ ChooseNoop
  \/ \E m \in Models : Preflight(m)
  \/ ReadHeight \/ FailTraining \/ Settle
  \/ \E a \in Accounts : Materialise(a)
  \/ EndMaterialisation \/ RewardMiner \/ PayMiner \/ RankParticipants \/ AppendBlock

-----------------------------------------------------------------------------
(* The gossip thread and the callers of the ledger                          *)

(* A peer's block grows the chain; only own blocks are settled.             *)
ReceiveBlock ==
  /\ height < MaxHeight /\ height' = height + 1
  /\ UNCHANGED <<tokens, bootstrap, job, issued, burnt, calls>>

Call == calls < MaxCalls /\ calls' = calls + 1

Register(a) ==
  /\ Call
  /\ MayRegister(a) /\ Enroll(a)
  /\ UNCHANGED <<balance, staked, due, escrow, emitted, wallet, period, slashed, materialised,
                 job, height, issued, burnt>>

(* submit_unstake_request; a cooldown of zero pays out at once.             *)
RequestUnstake(a, x) ==
  /\ Call
  /\ x <= staked[a]
  /\ staked' = [staked EXCEPT ![a] = @ - x]
  /\ IF Cooldown = 0
     THEN balance' = [balance EXCEPT ![a] = @ + x] /\ UNCHANGED due
     ELSE /\ due' = [due EXCEPT ![a] =
                       [u \in Blocks |-> IF u >= height + Cooldown THEN @[u] + x ELSE @[u]]]
          /\ UNCHANGED balance
  /\ UNCHANGED <<virtual, escrow, emitted, wallet, bootstrap, job, height, issued, burnt>>

(* stake_tokens; callers that give no block index mature nothing.           *)
StakeTokens(a, x, tip) ==
  /\ Call
  /\ IF Liquid(a, tip) < x
     THEN Spend(a, 0, tip) /\ UNCHANGED staked
     ELSE Spend(a, x, tip) /\ staked' = [staked EXCEPT ![a] = @ + x]
  /\ UNCHANGED <<virtual, escrow, emitted, wallet, bootstrap, job, height, issued, burnt>>

(* Query, iteration and storage payments and fees: _transfer.               *)
Pay(a, b, x) ==
  /\ Call
  /\ PayOver(a, b, x, height)
  /\ UNCHANGED <<staked, virtual, escrow, emitted, wallet, bootstrap, job, height,
                 issued, burnt>>

(* DessinNode.refresh_model_training_data: the local wallet covers what the  *)
(* ledger lacks before the request is judged.  A frozen model asks for more.  *)
RefreshTrainingData(m, fee, topup, frozen) ==
  LET total == fee + topup
      liquid == Liquid(Me, height)
      short == Larger(0, total - liquid)
      granted == /\ fee >= MinFee /\ Owner[m] = Me
                 /\ frozen => topup >= MinEscrow
  IN
  /\ Call
  /\ due' = Flushed(Me, height)
  /\ IF short > wallet
     THEN balance' = [balance EXCEPT ![Me] = liquid] /\ UNCHANGED <<wallet, escrow>>
     ELSE /\ wallet' = wallet - short
          /\ IF granted
             THEN /\ balance' = [balance EXCEPT ![Me] = liquid + short - total, ![System] = @ + fee]
                  /\ escrow' = [escrow EXCEPT ![m] = @ + topup]
             ELSE balance' = [balance EXCEPT ![Me] = liquid + short] /\ UNCHANGED escrow
  /\ UNCHANGED <<staked, virtual, emitted, bootstrap, job, height, issued, burnt>>

(* distribute_attestation_rewards, one verifier at a time; without bootstrap *)
(* the reward comes from "system", which is never debited.                  *)
RewardVerifier(a) ==
  /\ Call
  /\ IF period > 0
     THEN Mint(a, AttestationReward, TRUE) /\ UNCHANGED issued
     ELSE /\ balance' = [balance EXCEPT ![a] = @ + AttestationReward]
          /\ issued' = issued + AttestationReward
          /\ UNCHANGED <<emitted, staked>>
  /\ UNCHANGED <<virtual, due, escrow, wallet, bootstrap, job, height, burnt>>

(* process_slashing_penalty: stake first, then liquid balance.              *)
Penalise(a, x) ==
  LET cut == Smaller(x, staked[a] + balance[a])
      fromStake == Smaller(cut, staked[a])
  IN
  /\ Call
  /\ staked' = [staked EXCEPT ![a] = @ - fromStake]
  /\ balance' = [balance EXCEPT ![a] = @ - (cut - fromStake)]
  /\ burnt' = burnt + cut
  /\ UNCHANGED <<virtual, due, escrow, emitted, wallet, bootstrap, job, height, issued>>

Calls ==
  \/ \E a \in Accounts :
       \/ Register(a) \/ RewardVerifier(a)
       \/ \E x \in Amounts :
            \/ RequestUnstake(a, x) \/ Penalise(a, x)
            \/ \E tip \in {0, height} : StakeTokens(a, x, tip)
            \/ \E b \in Accounts \cup {System} : Pay(a, b, x)
  \/ \E m \in Models, fee, topup \in Amounts \cup {0}, frozen \in BOOLEAN :
       RefreshTrainingData(m, fee, topup, frozen)

Next == Mining \/ ReceiveBlock \/ Calls

Spec == Init /\ [][Next]_vars
=============================================================================
