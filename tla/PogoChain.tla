----------------------------- MODULE PogoChain -----------------------------
(***************************************************************************)
(* Chain replication of the PoGO network.                                  *)
(*                                                                         *)
(* Every node keeps `self.chain` (PogoConsensus) and is driven by two      *)
(* kinds of threads that share it without a lock:                          *)
(*                                                                         *)
(*   - mining threads, which run DessinNode._mining_loop / mine_block: they *)
(*     read the height, train for a long time, read the tip, build a block *)
(*     and append it unconditionally;                                      *)
(*   - the gossip thread, which runs PogoConsensus.add_message for one       *)
(*     message at a time.                                                  *)
(*                                                                         *)
(* A mining round and a delivery are therefore split at each point where   *)
(* they read or write the chain.  The gossip layer (Chaincraft, external) may lose,    *)
(* duplicate and reorder messages.                                         *)
(*                                                                         *)
(* Bootstrap eligibility is switched off here, as the code does for        *)
(* bootstrap_period_blocks <= 0: every address may mine and enter the      *)
(* proposer lottery.                                                       *)
(***************************************************************************)
EXTENDS Integers, Sequences

CONSTANTS
  Nodes,            \* addresses of the nodes
  GenesisMiner,     \* the miner recorded in the canonical genesis block
  Workers,          \* mining threads, over the whole life of all nodes
  Host,             \* [Workers -> Nodes]: the node a mining thread belongs to
  SharedRoster,     \* addresses every node knows at start (test harness sync)
  Draw(_, _, _),    \* Draw(candidates, tip miner, hash): SHA256 mod n, uninterpreted
  Models,           \* most models a round may try before its no-op block
  MaxHeight,        \* bound: no round begins on a chain of this height
  MaxBlocks,        \* bound: blocks built in a behaviour
  MaxRestarts,      \* bound: process restarts in a behaviour
  MaxStops,         \* bound: calls of stop_mining in a behaviour
  MaxFaults         \* bound: restarts and stops together

ASSUME ChainConstants ==
  /\ GenesisMiner \notin Nodes
  /\ Host \in [Workers -> Nodes]
  /\ SharedRoster \subseteq Nodes
  /\ {Models, MaxHeight, MaxBlocks, MaxRestarts, MaxStops,
      MaxFaults} \subseteq Nat

VARIABLES
  chain,    \* chain[n]: sequence of blocks; position p of the list is chain[n][p + 1]
  roster,   \* roster[n]: _training_miner_roster
  accused,  \* accused[n]: _equivocation_slash_keys, pairs <<miner, height>>
  mining,   \* mining[n]: is_mining
  pc,       \* pc[w]: where mining thread w stands in _mining_loop / mine_block
  left,     \* left[w]: models of the round that are still to be tried
  draft,    \* draft[w]: the block w is building
  adding,   \* adding[n]: block the gossip thread found next and has not appended yet
  wire,     \* full blocks that were put on the gossip layer
  built,    \* history: every block that was built
  fresh,    \* the hash of the next block (contents carry a timestamp)
  restarts, stops \* bounded counters

nodeVars == <<chain, roster, accused>>
workerVars == <<pc, left, draft>>
vars == <<chain, roster, accused, mining, pc, left, draft, adding, wire, built,
          fresh, restarts, stops>>

ZeroHash == 0
Genesis == [hash |-> 1, prev |-> ZeroHash, index |-> 0, miner |-> GenesisMiner]
NoDraft == Genesis
Nothing == Genesis

\* A block under construction; hash and parent are filled in as they are known.
Sketch(h, p, i, n) == [hash |-> h, prev |-> p, index |-> i, miner |-> n]

Block == [hash : Nat, prev : Nat, index : Nat, miner : Nodes \cup {GenesisMiner}]
Steps == {"off", "check", "sleep", "selected", "training", "noop", "ready", "publish"}

Last(s) == s[Len(s)]
Tip(n) == Last(chain[n])
Knows(n, h) == \E p \in DOMAIN chain[n] : chain[n][p].hash = h

-----------------------------------------------------------------------------
(* The proposer lottery: training_leader_candidates, expected_training_leader *)

Candidates(n) ==
  (roster[n] \cup {chain[n][p].miner : p \in DOMAIN chain[n]} \cup {n})
    \ {GenesisMiner}

\* The empty set stands for None: with fewer than two candidates (the node
\* itself) the first finisher wins.
ExpectedLeader(n) ==
  LET c == chain[n]
      h == IF Len(c) >= 2 THEN c[Len(c) - 1].hash ELSE c[1].hash
  IN  IF Candidates(n) = {n} THEN {} ELSE {Draw(Candidates(n), Tip(n).miner, h)}

\* Variant: every candidate may propose.
MayProposeAlways(n) == n \in Candidates(n)

MayPropose(n) == ExpectedLeader(n) \subseteq {n}

-----------------------------------------------------------------------------
Init ==
  /\ chain = [n \in Nodes |-> <<Genesis>>]
  /\ roster = [n \in Nodes |-> SharedRoster]
  /\ accused = [n \in Nodes |-> {}]
  /\ mining = [n \in Nodes |-> FALSE]
  /\ pc = [w \in Workers |-> "off"]
  /\ left = [w \in Workers |-> 0]
  /\ draft = [w \in Workers |-> NoDraft]
  /\ adding = [n \in Nodes |-> Nothing]
  /\ wire = {}
  /\ built = {}
  /\ fresh = 2
  /\ restarts = 0
  /\ stops = 0

Goto(w, from, to) == pc[w] = from /\ pc' = [pc EXCEPT ![w] = to]

\* append + observe_committed_training_block
Extend(n, b) ==
  /\ chain' = [chain EXCEPT ![n] = Append(@, b)]
  /\ roster' = [roster EXCEPT ![n] = @ \cup ({b.miner} \ {GenesisMiner})]

(* start_mining: a second call while is_mining is set does nothing.         *)
StartMining(w) ==
  LET n == Host[w] IN
  /\ ~mining[n]
  /\ mining' = [mining EXCEPT ![n] = TRUE]
  /\ roster' = [roster EXCEPT ![n] = @ \cup {n}]
  /\ Goto(w, "off", "check")
  /\ UNCHANGED <<chain, accused, left, draft, adding, wire, built, fresh, restarts, stops>>

(* stop_mining clears the flag and waits at most two seconds: a thread that *)
(* is training outlives the call.                                           *)
StopMining(n) ==
  /\ mining[n] /\ stops < MaxStops /\ restarts + stops < MaxFaults
  /\ mining' = [mining EXCEPT ![n] = FALSE]
  /\ stops' = stops + 1
  /\ UNCHANGED <<nodeVars, workerVars, adding, wire, built, fresh, restarts>>

(* while self.is_mining: sleep for the block time, or leave the loop.       *)
CheckFlag(w) ==
  /\ IF mining[Host[w]] THEN Goto(w, "check", "sleep") ELSE Goto(w, "check", "off")
  /\ UNCHANGED <<nodeVars, mining, left, draft, adding, wire, built, fresh, restarts, stops>>

(* The head of mine_block, entered when the sleep ends, also when it ends   *)
(* early because is_mining was cleared: register, then the lottery.         *)
BeginRound(w) ==
  LET n == Host[w] IN
  /\ Len(chain[n]) <= MaxHeight
  /\ roster' = [roster EXCEPT ![n] = @ \cup {n}]
  /\ IF MayPropose(n)
     THEN /\ Goto(w, "sleep", "selected")
          /\ \E k \in 0 .. Models : left' = [left EXCEPT ![w] = k]
     ELSE /\ Goto(w, "sleep", "check")
          /\ UNCHANGED left
  /\ UNCHANGED <<chain, accused, mining, draft, adding, wire, built, fresh, restarts, stops>>

NextIndex(n) == Len(chain[n])

(* create_training_block up to the training run: block_index is read first. *)
BeginTraining(w) ==
  /\ left[w] > 0
  /\ Goto(w, "selected", "training")
  /\ left' = [left EXCEPT ![w] = @ - 1]
  /\ draft' = [draft EXCEPT ![w] = Sketch(ZeroHash, ZeroHash, NextIndex(Host[w]), Host[w])]
  /\ UNCHANGED <<nodeVars, mining, adding, wire, built, fresh, restarts, stops>>

(* No salt improved the loss, or the result failed verification.            *)
FailTraining(w) ==
  /\ Goto(w, "training", "selected")
  /\ draft' = [draft EXCEPT ![w] = NoDraft]
  /\ UNCHANGED <<nodeVars, mining, left, adding, wire, built, fresh, restarts, stops>>

Seal(w, b) ==
  /\ fresh <= MaxBlocks + 1
  /\ draft' = [draft EXCEPT ![w] = b]
  /\ built' = built \cup {b}
  /\ fresh' = fresh + 1

(* Training succeeded: the parent is the tip of this moment.                *)
FinishTraining(w) ==
  LET n == Host[w] IN
  /\ Goto(w, "training", "ready")
  /\ Seal(w, Sketch(fresh, Tip(n).hash, draft[w].index, n))
  /\ UNCHANGED <<nodeVars, mining, left, adding, wire, restarts, stops>>

(* create_empty_round_block reads the tip, then the height.                 *)
BeginNoop(w) ==
  /\ left[w] = 0
  /\ Goto(w, "selected", "noop")
  /\ draft' = [draft EXCEPT ![w] = Sketch(ZeroHash, Tip(Host[w]).hash, 0, Host[w])]
  /\ UNCHANGED <<nodeVars, mining, left, adding, wire, built, fresh, restarts, stops>>

FinishNoop(w) ==
  LET n == Host[w] IN
  /\ Goto(w, "noop", "ready")
  /\ Seal(w, Sketch(fresh, draft[w].prev, NextIndex(n), n))
  /\ UNCHANGED <<nodeVars, mining, left, adding, wire, restarts, stops>>

(* The miner appends its own block without looking at the chain again.      *)
AppendOwn(w) ==
  /\ Goto(w, "ready", "publish")
  /\ Extend(Host[w], draft[w])
  /\ UNCHANGED <<accused, mining, left, draft, adding, wire, built, fresh, restarts, stops>>

(* The full block is gossiped; serialisation or network errors leave the    *)
(* peers with nothing or with a hash they ignore.                           *)
Publish(w) ==
  /\ Goto(w, "publish", "check")
  /\ wire' \in {wire, wire \cup {draft[w]}}
  /\ draft' = [draft EXCEPT ![w] = NoDraft]
  /\ UNCHANGED <<nodeVars, mining, left, adding, built, fresh, restarts, stops>>

-----------------------------------------------------------------------------
(* The gossip thread.  A message that changes nothing is not a step.        *)

\* Variants of IsNext: the height is compared with the tip's index.
IsTipOrNext(n, b) == b.index \in {Tip(n).index, Len(chain[n])}
IsAboveTip(n, b) == b.index > Tip(n).index /\ ~Knows(n, b.hash)

IsNext(n, b) == b.index = Len(chain[n]) /\ ~Knows(n, b.hash)

Idle(n) == adding[n] = Nothing

(* add_message finds the block unknown and at the expected height ...       *)
ReceiveNext(n, b) ==
  /\ Idle(n)
  /\ IsNext(n, b)
  /\ adding' = [adding EXCEPT ![n] = b]
  /\ UNCHANGED <<nodeVars, mining, workerVars, wire, built, fresh, restarts, stops>>

(* ... and appends it, wherever the chain ends by then: no lock keeps the   *)
(* mining thread out, and the parent is not compared.                       *)
AppendReceived(n) ==
  /\ ~Idle(n)
  /\ Extend(n, adding[n])
  /\ adding' = [adding EXCEPT ![n] = Nothing]
  /\ UNCHANGED <<accused, mining, workerVars, wire, built, fresh, restarts, stops>>

\* The incumbent is found by position.
Displaces(n, b) == b.index < Len(chain[n]) /\ chain[n][b.index + 1].hash # b.hash

\* Variants of IsEquivocation: the hash, or the miner, is not compared.
IsSameMiner(n, b) == b.index < Len(chain[n]) /\ chain[n][b.index + 1].miner = b.miner
IsDisplaced(n, b) == Displaces(n, b)

IsEquivocation(n, b) == Displaces(n, b) /\ chain[n][b.index + 1].miner = b.miner

(* add_message below the tip: another block of the same miner is equivocation. *)
ReceiveConflict(n, b) ==
  /\ Idle(n)
  /\ IsEquivocation(n, b)
  /\ accused' = [accused EXCEPT ![n] = @ \cup {<<b.miner, b.index>>}]
  /\ UNCHANGED <<chain, roster, mining, workerVars, adding, wire, built, fresh, restarts, stops>>

\* Variant: the scan stops at the block after the digest.
AfterNext(s, h) ==
  {s[p] : p \in {q \in DOMAIN s : \A r \in DOMAIN s : s[r].hash = h => r + 1 < q}}

(* gossip_object(digest of n) at peer m: every block after the digest, or   *)
(* the whole chain when the digest is unknown.                              *)
After(s, h) ==
  {s[p] : p \in {q \in DOMAIN s : \A r \in DOMAIN s : s[r].hash = h => r < q}}

AnswerDigest(m, n) ==
  /\ wire' = wire \cup After(chain[m], Tip(n).hash)
  /\ UNCHANGED <<nodeVars, mining, workerVars, adding, built, fresh, restarts, stops>>

(* The process dies and is started again with the same keys: the chain and  *)
(* every table lived in memory only.                                        *)
Restart(n) ==
  LET own(w) == Host[w] = n IN
  /\ restarts < MaxRestarts /\ restarts + stops < MaxFaults
  /\ restarts' = restarts + 1
  /\ chain' = [chain EXCEPT ![n] = <<Genesis>>]
  /\ roster' = [roster EXCEPT ![n] = {}]
  /\ accused' = [accused EXCEPT ![n] = {}]
  /\ mining' = [mining EXCEPT ![n] = FALSE]
  /\ adding' = [adding EXCEPT ![n] = Nothing]
  /\ pc' = [w \in Workers |-> IF own(w) THEN "off" ELSE pc[w]]
  /\ left' = [w \in Workers |-> IF own(w) THEN 0 ELSE left[w]]
  /\ draft' = [w \in Workers |-> IF own(w) THEN NoDraft ELSE draft[w]]
  /\ UNCHANGED <<wire, built, fresh, stops>>

Round(w) ==
  \/ CheckFlag(w) \/ BeginRound(w)
  \/ BeginTraining(w) \/ FailTraining(w) \/ FinishTraining(w)
  \/ BeginNoop(w) \/ FinishNoop(w)
  \/ AppendOwn(w) \/ Publish(w)

Gossip(n) ==
  \/ \E b \in wire : ReceiveNext(n, b) \/ ReceiveConflict(n, b)
  \/ AppendReceived(n)
  \/ \E m \in Nodes : AnswerDigest(m, n)

Next ==
  \/ \E w \in Workers : StartMining(w) \/ Round(w)
  \/ \E n \in Nodes : StopMining(n) \/ Gossip(n) \/ Restart(n)

Spec == Init /\ [][Next]_vars

\* Threads are scheduled, peers keep asking for what follows their tip, and a
\* message that is sent again and again is received once.  Nobody is obliged to
\* call start_mining again, stop_mining or to restart.
Fairness ==
  /\ \A w \in Workers : WF_vars(Round(w)) /\ WF_vars(stops = 0 /\ StartMining(w))
  /\ \A n \in Nodes :
       /\ WF_vars(AppendReceived(n) \/ \E b \in wire : ReceiveNext(n, b))
       /\ \A m \in Nodes : WF_vars(AnswerDigest(m, n))

FairSpec == Spec /\ Fairness
=============================================================================
