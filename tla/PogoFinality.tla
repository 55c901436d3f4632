---------------------------- MODULE PogoFinality ----------------------------
(***************************************************************************)
(* What one node does with a committed block: verification phases, the     *)
(* training lock, attestations, finalisation, penalties and model versions *)
(* (dessin/consensus/enhanced_pogo_consensus.py, two_phase_verification.py *)
(* and slashing_mechanism.py).                                             *)
(*                                                                         *)
(* The node builds the blocks in Local; the others come from peers, whose  *)
(* chain has `net' blocks.  Finalisation appends the finalised block to    *)
(* the node's own chain once more.  Each call of the API is one step; a    *)
(* mining thread takes several for a block, and a stopped one may live on   *)
(* beside the next, so that several blocks may be under construction.       *)
(***************************************************************************)
EXTENDS Integers, Sequences, FiniteSets, FiniteSetsExt, Functions

CONSTANTS
  Addresses,          \* miners and verifiers
  Models, Noop,       \* registered models, the sentinel of no-op rounds
  Blocks, Genesis,    \* blocks that may be built, the first one
  None,               \* no block about to be appended by the gossip thread
  Local,              \* the blocks this node builds
  Miner, Model, Steps, \* of each block
  Reasonable,         \* blocks whose loss did not rise by more than a tenth
  Weight, TotalStake, \* verifier_stakes and total_stake
  Quorum, Veto,       \* attestation and slashing threshold, in percent
  AttestationWindow,  \* attestation_window_blocks
  LockWindow,         \* finalization_window
  Phase1, Phase2,     \* phase1_window_blocks, phase2_window_blocks
  Penalty, BanTime,   \* of each reason: percent of the stake, duration
  Demerit,            \* of each reason: loss of reputation
  Stakes,             \* what addresses may have staked at the start
  FlatPenalty,        \* penalty_amount of slash_miner_with_economics
  Reward,             \* attestation_reward
  Pots,               \* what genesis may hold
  MaxCalls, MaxTime   \* bounds: API calls and clock

Reasons == {"invalid", "negative", "double"}
Votes == {"positive", "negative"}

ASSUME FinalityConstants ==
  /\ IsFiniteSet(Blocks) /\ IsFiniteSet(Addresses)
  /\ Local \subseteq Blocks /\ Genesis \notin Blocks /\ None \notin Blocks
  /\ Reasonable \subseteq Blocks /\ Noop \notin Models
  /\ Miner \in [Blocks -> Addresses] /\ Model \in [Blocks -> Models \cup {Noop}]
  /\ Steps \in [Blocks -> Nat] /\ Weight \in [Addresses -> Nat]
  /\ {TotalStake, Quorum, Veto, AttestationWindow, LockWindow, Phase1, Phase2} \subseteq Nat
  /\ {FlatPenalty, MaxCalls, MaxTime} \subseteq Nat
  /\ Reward \in Nat \ {0} /\ Pots \subseteq Nat
  /\ Stakes \subseteq [Addresses -> Nat]
  /\ Penalty \in [Reasons -> 0 .. 100] /\ Penalty["invalid"] + Penalty["negative"] <= 100
  /\ BanTime \in [Reasons -> Nat] /\ Demerit \in [Reasons -> Nat]
  /\ Phase1 + Phase2 <= LockWindow

VARIABLES
  chain,       \* self.chain
  net,         \* length of the chain of the peers
  index,       \* of each block; 0 while it does not exist
  drafts,      \* blocks that mining threads are building
  tracked,     \* training_blocks: blocks this node built
  arriving,    \* the peer's block that the gossip thread is about to append
  pending,     \* pending_attestations: how often who voted what
  attached,    \* block.attestations
  iterations,  \* model_versions
  stake,       \* staked tokens of each address
  liquid,      \* tokens of each address that are not staked
  reputation, banned, \* of each address; when its ban ends, 0 without one
  caught,      \* _equivocation_slash_keys
  autoStake,   \* bootstrap_period_blocks > 0: rewards are staked
  pot,         \* balance of genesis, which pays staked rewards
  now,         \* wall clock
  phaseVotes,  \* phase1_verifications and phase2_verifications: how many of each block
  beside,      \* history: <<b, c>> when b was being built as the round of c began
  credit,      \* history: opening stake, and a reward for each attestation handed in
  forgone,     \* history: rewards it missed, and tokens it lost to penalties
  calls        \* API calls so far

blockVars == <<chain, net, index, drafts, tracked, arriving, beside>>
voteVars == <<pending, attached, iterations, credit>>
moneyVars == <<stake, liquid, reputation, banned, caught, forgone, autoStake, pot>>
vars == <<blockVars, voteVars, moneyVars, now, phaseVotes, calls>>

-----------------------------------------------------------------------------
(* Phases                                                                   *)

(* get_current_phase *)
CurrentPhase(h, t) ==
  CASE h - t = 0 -> "training"
    [] h - t # 0 /\ h - t <= Phase1 -> "phase1"
    [] h - t > Phase1 /\ h - t <= Phase1 + Phase2 -> "phase2"
    [] OTHER -> "finalization"

-----------------------------------------------------------------------------
(* The chain                                                                *)

(* get_block_by_hash; nothing ever writes pending_blocks.                   *)
OnChain(b) == \E i \in DOMAIN chain : chain[i] = b

\* Variant: the lock ends with the first phase.
LockedInPhase1(m) ==
  \E b \in tracked : OnChain(b) /\ Model[b] = m /\ m # Noop /\ Steps[b] > 0
                     /\ Len(chain) - 1 - index[b] \in 0 .. Phase1 - 1

(* is_model_training_locked *)
Locked(m) ==
  \E b \in tracked : OnChain(b) /\ Model[b] = m /\ m # Noop /\ Steps[b] > 0
                     /\ Len(chain) - 1 - index[b] \in 0 .. LockWindow

NoVotes == [a \in Addresses |-> [v \in Votes |-> 0]]

Init ==
  /\ chain = <<Genesis>> /\ net = 1
  /\ index = [b \in Blocks |-> 0] /\ drafts = {} /\ tracked = {} /\ arriving = None
  /\ beside = {}
  /\ pending = [b \in Blocks |-> NoVotes] /\ attached = [b \in Blocks |-> NoVotes]
  /\ iterations = [m \in Models |-> 0]
  /\ stake \in Stakes /\ liquid = [a \in Addresses |-> 0]
  /\ reputation = [a \in Addresses |-> 100] /\ banned = [a \in Addresses |-> 0]
  /\ caught = {} /\ now = 1
  /\ phaseVotes = [b \in Blocks |-> 0]
  /\ autoStake \in BOOLEAN /\ pot \in Pots
  /\ credit = stake /\ forgone = [a \in Addresses |-> 0]
  /\ calls = 0

(* A thread begins a round and looks at the lock; other threads may be at work. *)
BeginBlock(b) ==
  /\ b \in Local \ drafts /\ index[b] = 0
  /\ ~Locked(Model[b])
  /\ drafts' = drafts \cup {b}
  /\ beside' = beside \cup {<<d, b>> : d \in drafts}
  /\ UNCHANGED <<chain, net, index, tracked, arriving, voteVars, moneyVars, now, phaseVotes, calls>>

(* create_training_block or create_empty_round_block reads the height.      *)
TakeHeight(b) ==
  /\ b \in drafts /\ index[b] = 0
  /\ index' = [index EXCEPT ![b] = Len(chain)]
  /\ UNCHANGED <<chain, net, drafts, tracked, arriving, beside, voteVars, moneyVars, now, phaseVotes, calls>>

(* The rest of create_enhanced_training_block and of the no-op round, after
   which mine_block appends and gossips; peers take the block that is next.
   The block is recorded before it is appended, but the lock does not see it
   in between.                                                              *)
FinishBlock(b) ==
  /\ b \in drafts /\ index[b] # 0
  /\ drafts' = drafts \ {b}
  /\ tracked' = tracked \cup {b}
  /\ chain' = Append(chain, b)
  /\ net' = IF index[b] = net THEN net + 1 ELSE net
  /\ UNCHANGED <<index, arriving, beside, voteVars, moneyVars, now, phaseVotes, calls>>

(* A peer builds on its chain; a restarted one may do so again at a height. *)
PeerMines(b, h) ==
  /\ b \in Blocks \ Local /\ index[b] = 0
  /\ h > 0 /\ h \in {net - 1, net}
  /\ index' = [index EXCEPT ![b] = h]
  /\ net' = IF h = net THEN net + 1 ELSE net
  /\ UNCHANGED <<chain, drafts, tracked, arriving, beside, voteVars, moneyVars, now, phaseVotes, calls>>

-----------------------------------------------------------------------------
(* Penalties                                                                *)

IsBanned(a) == banned[a] # 0 /\ now <= banned[a]

\* Variant: the percentage is taken for a factor.
AmountUnscaled(a, reason) == Penalty[reason] * stake[a]

(* What propose_slashing would take, rounded down.                          *)
Amount(a, reason) == (Penalty[reason] * stake[a]) \div 100

(* propose_slashing refuses the banned and those without stake.             *)
MayPropose(a) == ~IsBanned(a) /\ stake[a] > 0

Smaller(x, y) == IF x < y THEN x ELSE y
Larger(x, y) == IF x > y THEN x ELSE y

(* What the events of an address come to.                                   *)
Sum(of, events) ==
  LET share(r) == IF r \in events THEN of[r] ELSE 0
  IN  share("invalid") + share("negative") + share("double")

(* The event that is applied last decides how long the ban lasts.           *)
Ban(events) == BanTime[CHOOSE r \in events : r = "negative" \/ "negative" \notin events]

(* process_slashing_penalty: stake first, then the liquid balance.          *)
FromStake(a, x) == Smaller(x, stake[a])
FromLiquid(a, x) == Smaller(x - FromStake(a, x), liquid[a])

Zero == [a \in Addresses |-> 0]

(* apply_slashing of every proposed event: `hit[a]' are the reasons.  Their
   amounts were computed before the first one was applied.  Afterwards every
   address is paid in liquid tokens or in stake, or misses its reward.       *)
ApplySlashing(hit, paid, staked, missed) ==
  LET owed(a) == Sum([r \in Reasons |-> Amount(a, r)], hit[a])
  IN  /\ stake' = [a \in Addresses |-> stake[a] - FromStake(a, owed(a)) + staked[a]]
      /\ liquid' = [a \in Addresses |-> liquid[a] - FromLiquid(a, owed(a)) + paid[a]]
      /\ forgone' = [a \in Addresses |->
           forgone[a] + FromStake(a, owed(a)) + FromLiquid(a, owed(a)) + missed[a]]
      /\ reputation' = [a \in Addresses |-> Larger(0, reputation[a] - Sum(Demerit, hit[a]))]
      /\ banned' = [a \in Addresses |-> IF hit[a] = {} THEN banned[a] ELSE now + Ban(hit[a])]

(* _handle_potential_equivocation: once for a miner and a height; who has no
   stake is banned.                                                         *)
Equivocation(a, h) ==
  IF <<a, h>> \in caught THEN UNCHANGED moneyVars
  ELSE /\ caught' = caught \cup {<<a, h>>}
       /\ UNCHANGED <<autoStake, pot>>
       /\ IF MayPropose(a)
          THEN ApplySlashing([x \in Addresses |-> IF x = a THEN {"double"} ELSE {}], Zero, Zero, Zero)
          ELSE /\ banned' = IF stake[a] = 0 /\ ~IsBanned(a)
                            THEN [banned EXCEPT ![a] = now + BanTime["double"]] ELSE banned
               /\ UNCHANGED <<stake, liquid, forgone, reputation>>

(* add_message with a peer's block that conflicts with the one at its height. *)
ReceiveConflict(b) ==
  /\ b \in Blocks \ Local /\ index[b] # 0 /\ arriving = None
  /\ index[b] < Len(chain)
  /\ chain[index[b] + 1] \notin {b, Genesis} /\ Miner[chain[index[b] + 1]] = Miner[b]
  /\ Equivocation(Miner[b], index[b])
  /\ UNCHANGED <<blockVars, voteVars, now, phaseVotes, calls>>

(* add_message finds a peer's block unknown and at the next height ...      *)
Receive(b) ==
  /\ b \in Blocks \ Local /\ index[b] # 0 /\ arriving = None
  /\ index[b] = Len(chain) /\ ~OnChain(b)
  /\ arriving' = b
  /\ UNCHANGED <<chain, net, index, drafts, tracked, beside, voteVars, moneyVars, now, phaseVotes, calls>>

(* ... and appends it, wherever the chain ends by then.                     *)
AppendReceived ==
  /\ arriving # None
  /\ chain' = Append(chain, arriving)
  /\ arriving' = None
  /\ UNCHANGED <<net, index, drafts, tracked, beside, voteVars, moneyVars, now, phaseVotes, calls>>

-----------------------------------------------------------------------------
(* Attestations                                                             *)

Call == calls < MaxCalls /\ calls' = calls + 1

(* submit_attestation: any sender, as often as it likes.  Verifiers know of
   blocks that were mined.                                                  *)
SubmitAttestation(b, a, v) ==
  /\ Call
  /\ index[b] # 0 /\ b \notin drafts
  /\ pending' = [pending EXCEPT ![b][a][v] = @ + 1]
  /\ credit' = [credit EXCEPT ![a] = @ + Reward]
  /\ UNCHANGED <<blockVars, attached, iterations, moneyVars, now, phaseVotes>>

StakeBehind(b, v) == MapThenSumSet(LAMBDA a : pending[b][a][v] * Weight[a], Addresses)

(* check_finalization_eligibility *)
Eligible(b) == OnChain(b) /\ Len(chain) - index[b] >= AttestationWindow

(* aggregate_attestations *)
Finalises(b) == TotalStake > 0 /\ 100 * StakeBehind(b, "positive") >= Quorum * TotalStake
Vetoed(b) == TotalStake > 0 /\ 100 * StakeBehind(b, "negative") >= Veto * TotalStake

Cast(tally, a) == tally[a]["positive"] + tally[a]["negative"]

(* _validate_block_basic *)
Valid(b) == b \in Reasonable /\ Steps[b] > 0 /\ Steps[b] <= 1000

(* check_block_validity and check_negative_attestations: the events of a
   finalisation.  The second looks at the senders of the attestations.      *)
Offences(b) ==
  [a \in Addresses |-> IF ~MayPropose(a) THEN {} ELSE
     {r \in {"invalid", "negative"} :
        CASE r = "invalid" -> a = Miner[b] /\ ~Valid(b)
          [] r = "negative" -> /\ pending[b][a]["negative"] > 0
                               /\ 100 * pending[b][a]["negative"] >= Veto * Cast(pending[b], a)}]

(* _update_model_version_tracking *)
Versioned(b) ==
  IF Model[b] = Noop \/ Steps[b] = 0 THEN iterations
  ELSE [iterations EXCEPT ![Model[b]] = @ + Steps[b]]

(* What the senders of a block's attestations have earned.                  *)
Earned(b) == [a \in Addresses |-> Reward * Cast(pending[b], a)]

Total(pay) == SumFunctionOnSet(pay, Addresses)

(* _mint_from_genesis_to_stake, attestation after attestation in the order
   they came in (any order of their senders): the last one that genesis can
   still serve gets what is left, the others nothing.                       *)
Mints(b) ==
  {pay \in [Addresses -> 0 .. pot] :
     /\ \A a \in Addresses : pay[a] <= Earned(b)[a]
     /\ Total(pay) = Smaller(pot, Total(Earned(b)))
     /\ \A a, c \in Addresses : pay[a] % Reward # 0 /\ pay[c] % Reward # 0 => a = c}

(* _check_and_apply_slashing and then distribute_attestation_rewards: from
   nowhere into the liquid balances, or from genesis into the stakes.        *)
Settle(b) ==
  /\ UNCHANGED <<caught, autoStake>>
  /\ \/ /\ ~autoStake
        /\ ApplySlashing(Offences(b), Earned(b), Zero, Zero)
        /\ UNCHANGED pot
     \/ /\ autoStake
        /\ \E pay \in Mints(b) :
             /\ ApplySlashing(Offences(b), Zero, pay, [a \in Addresses |-> Earned(b)[a] - pay[a]])
             /\ pot' = pot - Total(pay)

\* Variant: what was counted stays pending.
FinalizeAndKeep(b) ==
  /\ Call
  /\ Eligible(b) /\ Finalises(b)
  /\ attached' = [attached EXCEPT ![b] = pending[b]]
  /\ chain' = Append(chain, b)
  /\ iterations' = Versioned(b)
  /\ Settle(b)
  /\ UNCHANGED <<pending, net, index, drafts, tracked, arriving, beside, credit, now, phaseVotes>>

(* finalize_block_with_economics when the positive stake suffices: the block
   is appended again, its model's version moves, offenders are slashed, and
   every attestation earns its sender one reward.                           *)
Finalize(b) ==
  /\ Call
  /\ Eligible(b) /\ Finalises(b)
  /\ attached' = [attached EXCEPT ![b] = pending[b]]
  /\ chain' = Append(chain, b)
  /\ pending' = [pending EXCEPT ![b] = NoVotes]
  /\ iterations' = Versioned(b)
  /\ Settle(b)
  /\ UNCHANGED <<net, index, drafts, tracked, arriving, beside, credit, now, phaseVotes>>

(* The same call when the negative stake suffices: attestations are dropped
   and nobody is penalised.                                                 *)
VetoBlock(b) ==
  /\ Call
  /\ Eligible(b) /\ ~Finalises(b) /\ Vetoed(b)
  /\ pending' = [pending EXCEPT ![b] = NoVotes]
  /\ forgone' = [a \in Addresses |-> forgone[a] + Earned(b)[a]]
  /\ UNCHANGED <<blockVars, attached, iterations, credit, stake, liquid, reputation, banned, caught,
                 autoStake, pot, now, phaseVotes>>

(* slash_miner_with_economics *)
SlashMiner(b) ==
  LET a == Miner[b]
      x == FromStake(a, FlatPenalty)
      y == FromLiquid(a, FlatPenalty)
  IN  /\ Call
      /\ OnChain(b)
      /\ stake' = [stake EXCEPT ![a] = @ - x]
      /\ liquid' = [liquid EXCEPT ![a] = @ - y]
      /\ forgone' = [forgone EXCEPT ![a] = @ + x + y]
      /\ UNCHANGED <<blockVars, voteVars, reputation, banned, caught, autoStake, pot, now, phaseVotes>>

(* start_phase*_verification and submit_phase*_verification_result; neither
   looks whether the phase is open or the verifier has voted.  Summaries
   report the counts; no step of the node reads them.                       *)
SubmitPhaseVote(b) ==
  /\ Call
  /\ OnChain(b) /\ b \in tracked
  /\ phaseVotes' = [phaseVotes EXCEPT ![b] = @ + 1]
  /\ UNCHANGED <<blockVars, voteVars, moneyVars, now>>

(* Time is looked at only while somebody is banned.                         *)
Tick ==
  /\ \E a \in Addresses : banned[a] # 0
  /\ now < MaxTime /\ now' = now + 1
  /\ UNCHANGED <<blockVars, voteVars, moneyVars, phaseVotes, calls>>

Mining == \E b \in Local : BeginBlock(b) \/ TakeHeight(b) \/ FinishBlock(b)

Peers ==
  \/ \E b \in Blocks :
       (\E h \in 1 .. Cardinality(Blocks) : PeerMines(b, h)) \/ Receive(b) \/ ReceiveConflict(b)
  \/ AppendReceived

Operators ==
  \E b \in Blocks :
    \/ \E a \in Addresses, v \in Votes : SubmitAttestation(b, a, v)
    \/ Finalize(b) \/ VetoBlock(b) \/ SlashMiner(b) \/ SubmitPhaseVote(b)

Next == Mining \/ Peers \/ Operators \/ Tick

Spec == Init /\ [][Next]_vars
=============================================================================
