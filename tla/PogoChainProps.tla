--------------------------- MODULE PogoChainProps ---------------------------
(***************************************************************************)
(* What the replicated chain promises, and what it only promises under the *)
(* deployment the tests use (synchronised roster, one mining thread per    *)
(* node that is never stopped).                                            *)
(***************************************************************************)
EXTENDS PogoChain, FiniteSets

TypeOK ==
  /\ chain \in [Nodes -> Seq(Block)]
  /\ \A n \in Nodes : Len(chain[n]) > 0
  /\ roster \in [Nodes -> SUBSET Nodes]
  /\ accused \in [Nodes -> SUBSET ((Nodes \cup {GenesisMiner}) \X Nat)]
  /\ mining \in [Nodes -> BOOLEAN]
  /\ pc \in [Workers -> Steps]
  /\ left \in [Workers -> 0 .. Models]
  /\ draft \in [Workers -> Block]
  /\ adding \in [Nodes -> Block]
  /\ wire \in SUBSET Block
  /\ built \in SUBSET Block
  /\ fresh \in Nat /\ fresh >= 2
  /\ restarts \in Nat /\ stops \in Nat

-----------------------------------------------------------------------------
(* Safety of every deployment                                               *)

\* No chain ever holds the same block twice, however gossip repeats blocks
\* and wherever a miner's own append lands (add_message, consensus.py:1133-1164).
NoBlockTwice ==
  \A n \in Nodes : \A p, q \in DOMAIN chain[n] :
    chain[n][p].hash = chain[n][q].hash => p = q

\* No block lies below its height, and a block of another miner lies above it only
\* by blocks the node mined itself: those its own threads appended between the
\* height check and the append of add_message (consensus.py:1160-1161).
OnlyOwnBlocksDisplace ==
  \A n \in Nodes : \A p \in DOMAIN chain[n] :
    LET b == chain[n][p] IN
    /\ b.index <= p - 1
    /\ b.miner # n => \A q \in (b.index + 1) .. (p - 1) : chain[n][q].miner = n

\* The block a node holds at the height of an equivocation key is an older block
\* of that miner, which an append of the node's own pushed up there.
PushedUp(n, k) ==
  /\ k[2] + 1 \in DOMAIN chain[n]
  /\ chain[n][k[2] + 1].miner = k[1] /\ chain[n][k[2] + 1].index < k[2]
  /\ chain[n][k[2]].miner = n

\* A node that holds an equivocation key against ANOTHER node's address has seen
\* it build two different blocks for that height (_handle_potential_equivocation),
\* or has itself pushed an older block of that miner up to it: nothing a third
\* node does, and no loss, repetition or reordering, turns a miner into a culprit.
\* Against its own address a node may hold keys for neither reason.
PeersAccuseJustly ==
  \A n \in Nodes : \A k \in accused[n] : k[1] # n =>
    \/ \E b, c \in built :
         b # c /\ b.miner = k[1] /\ c.miner = k[1] /\ b.index = k[2] /\ c.index = k[2]
    \/ PushedUp(n, k)

\* Without stop_mining and without restarts a miner has one mining thread and its
\* heights grow strictly: no node ever accuses itself, and another one only for an
\* older block the accuser has pushed up between two lines of add_message.
HonestMinersStayClean ==
  (restarts = 0 /\ stops = 0) =>
    \A n \in Nodes : \A k \in accused[n] : k[1] # n /\ PushedUp(n, k)

-----------------------------------------------------------------------------
(* Safety of the synchronised deployment                                    *)

\* Two nodes never hold different blocks at the same height.
NoFork ==
  \A n, m \in Nodes : \A p \in DOMAIN chain[n] \cap DOMAIN chain[m] :
    chain[n][p] = chain[m][p]

\* A block's index is its position and its previous_hash is its parent's hash.
HashLinked ==
  \A n \in Nodes : \A p \in DOMAIN chain[n] :
    /\ chain[n][p].index = p - 1
    /\ p > 1 => chain[n][p].prev = chain[n][p - 1].hash

\* At most one thread of the whole network is past the lottery and able to
\* extend any given chain.
OneProposerPerTip ==
  \A v, w \in Workers :
    /\ {pc[v], pc[w]} \subseteq {"selected", "training", "noop", "ready"}
    /\ chain[Host[v]] = chain[Host[w]]
    => v = w

\* The nodes replicate one agreed log: every append of a miner extends the
\* longest chain of the network and every gossip append copies its next block.
Longest == chain[CHOOSE n \in Nodes : \A m \in Nodes : Len(chain[m]) <= Len(chain[n])]
Agreed == INSTANCE AgreedLog WITH log <- Longest, copy <- chain
ImplementsAgreedLog == Agreed!Spec

-----------------------------------------------------------------------------
(* Liveness                                                                 *)

\* Every node, however often gossip loses its copy, eventually holds every height.
EveryNodeCatchesUp == \A n \in Nodes : <>(Len(chain[n]) > MaxHeight)
=============================================================================
