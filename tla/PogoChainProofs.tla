-------------------------- MODULE PogoChainProofs --------------------------
(***************************************************************************)
(* Proofs about PogoChain for any number of nodes, threads, blocks, stops  *)
(* and restarts.                                                           *)
(***************************************************************************)
EXTENDS PogoChainProps, TLAPS

USE ChainConstants

\* Appending keeps every earlier block where it is and puts the new one at the end.
LEMMA AppendShape ==
  ASSUME NEW S, NEW s \in Seq(S), NEW e \in S
  PROVE  /\ Append(s, e) \in Seq(S)
         /\ Len(Append(s, e)) = Len(s) + 1
         /\ \A p \in 1 .. Len(s) : Append(s, e)[p] = s[p]
         /\ Append(s, e)[Len(s) + 1] = e
         /\ DOMAIN s = 1 .. Len(s)
         /\ DOMAIN Append(s, e) = 1 .. (Len(s) + 1)
OBVIOUS

\* The chain of a node that has just started holds one block.
LEMMA SingletonShape ==
  ASSUME NEW e
  PROVE  Len(<<e>>) = 1 /\ DOMAIN <<e>> = {1} /\ <<e>>[1] = e
OBVIOUS

\* An append or a gossip receipt lengthens one chain by one block and nothing else.
LEMMA ExtendShape ==
  ASSUME TypeOK, NEW n \in Nodes, NEW b \in Block, Extend(n, b)
  PROVE  /\ Len(chain[n]) \in Nat /\ Len(chain[n]) > 0
         /\ Len(chain'[n]) = Len(chain[n]) + 1
         /\ chain'[n][Len(chain[n]) + 1] = b
         /\ \A m \in Nodes \ {n} : chain'[m] = chain[m]
         /\ \A m \in Nodes :
              /\ Len(chain[m]) \in Nat /\ Len(chain'[m]) \in Nat
              /\ Len(chain[m]) <= Len(chain'[m])
              /\ DOMAIN chain[m] = 1 .. Len(chain[m])
              /\ DOMAIN chain'[m] = 1 .. Len(chain'[m])
              /\ \A p \in 1 .. Len(chain[m]) : chain'[m][p] = chain[m][p]
<1>1. \A m \in Nodes \ {n} : chain'[m] = chain[m]
  BY DEF Extend, TypeOK
<1>2. chain[n] \in Seq(Block) /\ chain'[n] = Append(chain[n], b)
  BY DEF Extend, TypeOK
<1>3. Len(chain[n]) \in Nat /\ Len(chain[n]) > 0
  BY DEF TypeOK
<1>4. /\ DOMAIN chain[n] = 1 .. Len(chain[n])
      /\ DOMAIN chain'[n] = 1 .. (Len(chain[n]) + 1)
      /\ \A p \in 1 .. Len(chain[n]) : chain'[n][p] = chain[n][p]
      /\ chain'[n][Len(chain[n]) + 1] = b
      /\ Len(chain'[n]) = Len(chain[n]) + 1
  BY <1>2, AppendShape
<1>5. \A m \in Nodes : Len(chain[m]) \in Nat /\ DOMAIN chain[m] = 1 .. Len(chain[m])
  BY DEF TypeOK
<1>6. ASSUME NEW m \in Nodes
      PROVE  /\ Len(chain[m]) \in Nat /\ Len(chain'[m]) \in Nat
             /\ Len(chain[m]) <= Len(chain'[m])
             /\ DOMAIN chain[m] = 1 .. Len(chain[m])
             /\ DOMAIN chain'[m] = 1 .. Len(chain'[m])
             /\ \A p \in 1 .. Len(chain[m]) : chain'[m][p] = chain[m][p]
  <2>1. CASE m = n
    BY <1>3, <1>4, <2>1
  <2>2. CASE m # n
    BY <1>1, <1>5, <2>2
  <2> QED
    BY <2>1, <2>2
<1> QED
  BY <1>1, <1>3, <1>4, <1>6

\* The canonical genesis block is a block.
LEMMA GenesisIsABlock == Genesis \in Block
BY DEF Genesis, Block, ZeroHash

\* Every state has the shape the code's tables have.
THEOREM TypeCorrect == Spec => []TypeOK
<1>1. Init => TypeOK
  BY GenesisIsABlock DEF Init, TypeOK, NoDraft, Nothing, Steps
<1>2. TypeOK /\ [Next]_vars => TypeOK'
  <2> SUFFICES ASSUME TypeOK, [Next]_vars PROVE TypeOK'
    OBVIOUS
  <2>a. \A n \in Nodes : Tip(n) \in Block /\ Len(chain[n]) \in Nat
    BY DEF TypeOK, Tip, Last
  <2>b. ASSUME NEW n \in Nodes, NEW b \in Block, Extend(n, b)
        PROVE  /\ chain' \in [Nodes -> Seq(Block)]
               /\ \A m \in Nodes : Len(chain'[m]) > 0
               /\ roster' \in [Nodes -> SUBSET Nodes]
    <3>1. {b.miner} \ {GenesisMiner} \subseteq Nodes
      BY DEF Block
    <3> QED
      BY <2>b, <3>1, AppendShape DEF Extend, TypeOK
  <2>c. ASSUME NEW h \in Nat, NEW q \in Nat, NEW i \in Nat, NEW n \in Nodes
        PROVE  Sketch(h, q, i, n) \in Block
    BY DEF Sketch, Block
  <2>d. \A w \in Workers : Host[w] \in Nodes /\ draft[w].index \in Nat /\ draft[w].prev \in Nat
    BY DEF TypeOK, Block
  <2>e. \A n \in Nodes : Tip(n).hash \in Nat
    BY <2>a DEF Block
  <2>1. ASSUME NEW w \in Workers, StartMining(w) PROVE TypeOK'
    BY <2>1 DEF StartMining, Goto, TypeOK, Steps
  <2>2. ASSUME NEW w \in Workers, CheckFlag(w) PROVE TypeOK'
    BY <2>2 DEF CheckFlag, Goto, TypeOK, Steps, nodeVars
  <2>3. ASSUME NEW w \in Workers, BeginRound(w) PROVE TypeOK'
    <3>1. \E to \in {"selected", "check"} : pc' = [pc EXCEPT ![w] = to]
      BY <2>3 DEF BeginRound, Goto
    <3>2. pc' \in [Workers -> Steps]
      BY <3>1 DEF TypeOK, Steps
    <3>3. left' = left \/ \E k \in 0 .. Models : left' = [left EXCEPT ![w] = k]
      BY <2>3 DEF BeginRound
    <3>4. left' \in [Workers -> 0 .. Models]
      BY <3>3 DEF TypeOK
    <3>5. roster' \in [Nodes -> SUBSET Nodes]
      BY <2>3, <2>d DEF BeginRound, TypeOK
    <3> QED
      BY <2>3, <3>2, <3>4, <3>5 DEF BeginRound, TypeOK
  <2>4. ASSUME NEW w \in Workers, BeginTraining(w) PROVE TypeOK'
    <3>1. Sketch(ZeroHash, ZeroHash, NextIndex(Host[w]), Host[w]) \in Block
      BY <2>a, <2>c, <2>d DEF NextIndex, ZeroHash
    <3> QED
      BY <2>4, <3>1, SMTT(30) DEF BeginTraining, Goto, TypeOK, Steps, nodeVars
  <2>5. ASSUME NEW w \in Workers, FailTraining(w) PROVE TypeOK'
    BY <2>5, GenesisIsABlock DEF FailTraining, Goto, TypeOK, Steps, nodeVars, NoDraft
  <2>6. ASSUME NEW w \in Workers, FinishTraining(w) PROVE TypeOK'
    <3>1. fresh \in Nat /\ Sketch(fresh, Tip(Host[w]).hash, draft[w].index, Host[w]) \in Block
      BY <2>c, <2>d, <2>e DEF TypeOK
    <3> QED
      BY <2>6, <3>1, SMTT(30) DEF FinishTraining, Goto, TypeOK, Steps, nodeVars, Seal
  <2>7. ASSUME NEW w \in Workers, BeginNoop(w) PROVE TypeOK'
    <3>1. Sketch(ZeroHash, Tip(Host[w]).hash, 0, Host[w]) \in Block
      BY <2>c, <2>d, <2>e DEF ZeroHash
    <3> QED
      BY <2>7, <3>1 DEF BeginNoop, Goto, TypeOK, Steps, nodeVars
  <2>8. ASSUME NEW w \in Workers, FinishNoop(w) PROVE TypeOK'
    <3>1. fresh \in Nat /\ Sketch(fresh, draft[w].prev, NextIndex(Host[w]), Host[w]) \in Block
      BY <2>a, <2>c, <2>d DEF NextIndex, TypeOK
    <3> QED
      BY <2>8, <3>1, SMTT(30) DEF FinishNoop, Goto, TypeOK, Steps, nodeVars, Seal
  <2>9. ASSUME NEW w \in Workers, AppendOwn(w) PROVE TypeOK'
    <3>1. Extend(Host[w], draft[w]) /\ Host[w] \in Nodes /\ draft[w] \in Block
      BY <2>9 DEF AppendOwn, TypeOK
    <3> QED
      BY <2>9, <2>b, <3>1 DEF AppendOwn, Goto, TypeOK, Steps
  <2>10. ASSUME NEW w \in Workers, Publish(w) PROVE TypeOK'
    BY SMTT(30), <2>10, GenesisIsABlock DEF Publish, Goto, TypeOK, Steps, nodeVars, NoDraft
  <2>11. ASSUME NEW n \in Nodes, StopMining(n) PROVE TypeOK'
    BY SMTT(30), <2>11 DEF StopMining, TypeOK, nodeVars, workerVars
  <2>12. ASSUME NEW n \in Nodes, Restart(n) PROVE TypeOK'
    BY SMTT(30), <2>12, GenesisIsABlock DEF Restart, TypeOK, NoDraft, Nothing, Steps
  <2>13. ASSUME NEW n \in Nodes, NEW b \in wire, ReceiveNext(n, b) PROVE TypeOK'
    BY <2>13 DEF ReceiveNext, TypeOK, nodeVars, workerVars
  <2>17. ASSUME NEW n \in Nodes, AppendReceived(n) PROVE TypeOK'
    <3>1. Extend(n, adding[n]) /\ adding[n] \in Block
      BY <2>17 DEF AppendReceived, TypeOK
    <3> QED
      BY <2>17, <2>b, <3>1, GenesisIsABlock DEF AppendReceived, Nothing, TypeOK, workerVars
  <2>14. ASSUME NEW n \in Nodes, NEW b \in wire, ReceiveConflict(n, b) PROVE TypeOK'
    <3>1. <<b.miner, b.index>> \in (Nodes \cup {GenesisMiner}) \X Nat
      BY DEF TypeOK, Block
    <3> QED
      BY <2>14, <3>1 DEF ReceiveConflict, TypeOK, workerVars
  <2>15. ASSUME NEW n \in Nodes, NEW m \in Nodes, AnswerDigest(m, n) PROVE TypeOK'
    BY <2>15 DEF AnswerDigest, TypeOK, After, workerVars, nodeVars
  <2>16. CASE UNCHANGED vars
    BY <2>16 DEF vars, TypeOK
  <2> QED
    BY <2>1, <2>2, <2>3, <2>4, <2>5, <2>6, <2>7, <2>8, <2>9, <2>10, <2>11, <2>12,
       <2>13, <2>14, <2>15, <2>16, <2>17 DEF Next, Round, Gossip
<1> QED
  BY <1>1, <1>2, PTL DEF Spec

-----------------------------------------------------------------------------
(* Any deployment: a block under construction is unknown to every chain and *)
(* to the gossip layer until its miner appends it, and it was sketched at a *)
(* height the chain had already reached.                                    *)

Sealed(w) == pc[w] \in {"ready", "publish"}

HashesAreUsed ==
  /\ \A n \in Nodes : \A p \in DOMAIN chain[n] : chain[n][p].hash < fresh
  /\ \A b \in wire : b.hash < fresh

DraftsAreOwn ==
  \A w \in Workers : Sealed(w) => draft[w].hash < fresh /\ draft[w].miner = Host[w]

DraftsAreBelowTip ==
  \A w \in Workers :
    pc[w] \in {"training", "ready"} => draft[w].index <= Len(chain[Host[w]])

DraftsAreUnknown ==
  \A w \in Workers : pc[w] = "ready" =>
    /\ \A n \in Nodes : \A p \in DOMAIN chain[n] : chain[n][p].hash # draft[w].hash
    /\ \A b \in wire : b.hash # draft[w].hash

DraftsAreDistinct ==
  \A v, w \in Workers : v # w /\ Sealed(v) /\ Sealed(w) => draft[v].hash # draft[w].hash

\* The block the gossip thread is about to append is still unknown, and since its
\* height was checked only the node's own threads have appended.
AddingIsNext ==
  \A n \in Nodes : ~Idle(n) =>
    LET b == adding[n] IN
    /\ b \in wire /\ ~Knows(n, b.hash) /\ b.index <= Len(chain[n])
    /\ \A q \in (b.index + 1) .. Len(chain[n]) : chain[n][q].miner = n

ChainsStartAtGenesis == \A n \in Nodes : chain[n][1] = Genesis

GossipInv ==
  /\ TypeOK /\ ChainsStartAtGenesis
  /\ HashesAreUsed /\ DraftsAreOwn /\ DraftsAreBelowTip
  /\ DraftsAreUnknown /\ DraftsAreDistinct
  /\ AddingIsNext /\ NoBlockTwice /\ OnlyOwnBlocksDisplace

\* The invariant that makes the unchecked append of mine_block and the height
\* check of add_message safe together, whatever the interleaving.
LEMMA GossipInvariant == Spec => []GossipInv
<1> USE DEF Sealed
<1>1. Init => GossipInv
  <2> SUFFICES ASSUME Init PROVE GossipInv
    OBVIOUS
  <2>1. TypeOK
    BY GenesisIsABlock DEF Init, TypeOK, NoDraft, Nothing, Steps
  <2>2. \A n \in Nodes : DOMAIN chain[n] = {1} /\ chain[n][1] = Genesis
    BY SingletonShape DEF Init
  <2> QED
    BY <2>1, <2>2 DEF Init, GossipInv, ChainsStartAtGenesis, HashesAreUsed, DraftsAreOwn, DraftsAreBelowTip,
      DraftsAreUnknown, DraftsAreDistinct, NoBlockTwice, OnlyOwnBlocksDisplace, AddingIsNext, Idle, Nothing, Genesis
<1>2. GossipInv /\ TypeOK' /\ [Next]_vars => GossipInv'
  <2> SUFFICES ASSUME GossipInv, TypeOK', [Next]_vars PROVE GossipInv'
    OBVIOUS
  <2> USE DEF GossipInv
  <2>a. ASSUME UNCHANGED <<chain, wire, draft, fresh, adding>>,
               \A v \in Workers : pc'[v] \in {"training", "ready", "publish"} => pc'[v] = pc[v]
        PROVE  GossipInv'
    BY <2>a DEF HashesAreUsed, DraftsAreOwn, DraftsAreBelowTip,
      DraftsAreUnknown, DraftsAreDistinct, NoBlockTwice, OnlyOwnBlocksDisplace,
      AddingIsNext, Idle, Knows, ChainsStartAtGenesis
  <2>b. ASSUME NEW w \in Workers, UNCHANGED <<chain, wire, fresh, adding>>,
               \A v \in Workers \ {w} : pc'[v] = pc[v] /\ draft'[v] = draft[v],
               pc'[w] \notin {"ready", "publish"},
               pc'[w] = "training" => draft'[w].index <= Len(chain[Host[w]])
        PROVE  GossipInv'
    BY <2>b DEF HashesAreUsed, DraftsAreOwn, DraftsAreBelowTip,
      DraftsAreUnknown, DraftsAreDistinct, NoBlockTwice, OnlyOwnBlocksDisplace,
      AddingIsNext, Idle, Knows, ChainsStartAtGenesis
  <2>c. ASSUME NEW w \in Workers, UNCHANGED <<chain, wire, adding>>, fresh' = fresh + 1,
               \A v \in Workers \ {w} : pc'[v] = pc[v] /\ draft'[v] = draft[v],
               pc'[w] = "ready", draft'[w].hash = fresh, draft'[w].miner = Host[w],
               draft'[w].index <= Len(chain[Host[w]])
        PROVE  GossipInv'
    <3>1. \A v \in Workers \ {w} : pc'[v] = pc[v] /\ draft'[v] = draft[v]
      BY <2>c
    <3>2. fresh \in Nat /\ \A n \in Nodes : \A p \in DOMAIN chain[n] : chain[n][p].hash \in Nat
      <4>1. \A n \in Nodes : \A p \in DOMAIN chain[n] : chain[n][p] \in Block
        BY SMTT(30) DEF TypeOK
      <4> QED
        BY <4>1 DEF TypeOK, Block
    <3>3. \A b \in wire : b.hash \in Nat
      BY DEF TypeOK, Block
    <3>4. \A v \in Workers : draft[v].hash \in Nat
      BY DEF TypeOK, Block
    <3>5. HashesAreUsed'
      BY <2>c, <3>2, <3>3 DEF HashesAreUsed
    <3>6. DraftsAreOwn'
      BY <2>c, <3>1, <3>2, <3>4 DEF DraftsAreOwn
    <3>7. DraftsAreBelowTip'
      BY <2>c, <3>1 DEF DraftsAreBelowTip
    <3>8. DraftsAreUnknown'
      BY <2>c, <3>1, <3>2, <3>3 DEF DraftsAreUnknown, HashesAreUsed
    <3>9. DraftsAreDistinct'
      BY <2>c, <3>1, <3>2, <3>4, SMTT(30) DEF DraftsAreDistinct, DraftsAreOwn
    <3> QED
      BY <2>c, <3>5, <3>6, <3>7, <3>8, <3>9 DEF NoBlockTwice, OnlyOwnBlocksDisplace,
        AddingIsNext, Idle, Knows, ChainsStartAtGenesis
  <2>d. ASSUME NEW n \in Nodes, NEW b \in Block, Extend(n, b), UNCHANGED <<wire, draft, fresh>>,
               b.hash < fresh, ~Knows(n, b.hash), b.index <= Len(chain[n]),
               b.miner # n => \A q \in (b.index + 1) .. Len(chain[n]) : chain[n][q].miner = n,
               \A m \in Nodes \ {n} : adding'[m] = adding[m],
               \/ adding'[n] = Nothing
               \/ adding'[n] = adding[n] /\ b.miner = n /\ \A c \in wire : c.hash # b.hash,
               \A v \in Workers : pc'[v] = pc[v] \/ (pc'[v] = "publish" /\ pc[v] = "ready"),
               \A v \in Workers : pc'[v] = "ready" => draft[v].hash # b.hash
        PROVE  GossipInv'
    <3>1. \A m \in Nodes \ {n} : chain'[m] = chain[m]
      BY <2>d, ExtendShape
    <3>2. Len(chain[n]) \in Nat /\ Len(chain[n]) > 0
      BY <2>d, ExtendShape
    <3>3. /\ DOMAIN chain[n] = 1 .. Len(chain[n])
          /\ DOMAIN chain'[n] = 1 .. (Len(chain[n]) + 1)
          /\ \A p \in 1 .. Len(chain[n]) : chain'[n][p] = chain[n][p]
          /\ chain'[n][Len(chain[n]) + 1] = b
          /\ Len(chain'[n]) = Len(chain[n]) + 1
      BY <2>d, ExtendShape
    <3>4. \A m \in Nodes : \A p \in DOMAIN chain'[m] :
            \/ p \in DOMAIN chain[m] /\ chain'[m][p] = chain[m][p]
            \/ m = n /\ p = Len(chain[n]) + 1 /\ chain'[m][p] = b
      <4> SUFFICES ASSUME NEW m \in Nodes, NEW p \in DOMAIN chain'[m]
                   PROVE  \/ p \in DOMAIN chain[m] /\ chain'[m][p] = chain[m][p]
                          \/ m = n /\ p = Len(chain[n]) + 1 /\ chain'[m][p] = b
        OBVIOUS
      <4>1. CASE m # n
        BY <3>1, <4>1
      <4>2. CASE m = n
        <5>1. Len(chain[n]) \in Nat
          BY <3>2
        <5>2. p \in 1 .. Len(chain[n]) \/ p = Len(chain[n]) + 1
          BY <3>3, <4>2, <5>1, SMTT(30)
        <5> QED
          BY <3>3, <4>2, <5>2
      <4> QED
        BY <4>1, <4>2
    <3>5. HashesAreUsed'
      BY <2>d, <3>4 DEF HashesAreUsed
    <3>6. DraftsAreOwn'
      BY <2>d DEF DraftsAreOwn
    <3>7. DraftsAreDistinct'
      BY <2>d DEF DraftsAreDistinct
    <3>8. DraftsAreBelowTip'
      <4>1. \A m \in Nodes : Len(chain[m]) \in Nat /\ Len(chain'[m]) \in Nat
                             /\ Len(chain[m]) <= Len(chain'[m])
        BY <2>d, ExtendShape
      <4>2. \A v \in Workers : Host[v] \in Nodes /\ draft[v].index \in Nat
        BY DEF TypeOK, Block
      <4> SUFFICES ASSUME NEW v \in Workers, pc'[v] \in {"training", "ready"}
                   PROVE  draft'[v].index <= Len(chain'[Host[v]])
        BY DEF DraftsAreBelowTip
      <4>3. pc[v] \in {"training", "ready"} /\ draft'[v] = draft[v]
        BY <2>d
      <4>4. draft[v].index <= Len(chain[Host[v]])
        BY <4>3 DEF DraftsAreBelowTip
      <4> QED
        BY <4>1, <4>2, <4>3, <4>4
    <3>9. DraftsAreUnknown'
      <4>1. \A v \in Workers : pc'[v] = "ready" => pc[v] = "ready" /\ draft[v].hash # b.hash
        BY <2>d
      <4> QED
        BY <2>d, <3>4, <4>1 DEF DraftsAreUnknown
    <3>10. NoBlockTwice'
      <4>1. \A p \in DOMAIN chain[n] : chain[n][p].hash # b.hash
        BY <2>d DEF Knows
      <4> SUFFICES ASSUME NEW m \in Nodes, NEW p \in DOMAIN chain'[m], NEW q \in DOMAIN chain'[m],
                          chain'[m][p].hash = chain'[m][q].hash
                   PROVE  p = q
        BY DEF NoBlockTwice
      <4> QED
        BY <3>4, <4>1 DEF NoBlockTwice
    <3>11. OnlyOwnBlocksDisplace'
      <4> SUFFICES ASSUME NEW m \in Nodes, NEW p \in DOMAIN chain'[m]
                   PROVE  /\ chain'[m][p].index <= p - 1
                          /\ chain'[m][p].miner # m =>
                               \A q \in (chain'[m][p].index + 1) .. (p - 1) : chain'[m][q].miner = m
        BY DEF OnlyOwnBlocksDisplace
      <4>1. CASE p \in DOMAIN chain[m] /\ chain'[m][p] = chain[m][p]
        <5>1. /\ chain[m][p].index <= p - 1
              /\ chain[m][p].miner # m =>
                   \A q \in (chain[m][p].index + 1) .. (p - 1) : chain[m][q].miner = m
          BY <4>1 DEF OnlyOwnBlocksDisplace
        <5>2. chain[m][p].index \in Nat
          <6>1. chain[m][p] \in Block
            BY <4>1 DEF TypeOK
          <6> QED
            BY <6>1 DEF Block
        <5>3. ASSUME NEW q \in (chain[m][p].index + 1) .. (p - 1) PROVE chain'[m][q] = chain[m][q]
          <6>1. DOMAIN chain[m] = 1 .. Len(chain[m]) /\ Len(chain[m]) \in Nat
            BY DEF TypeOK
          <6>2. chain[m][p].index + 1 <= q /\ q <= p - 1 /\ q \in Int /\ p \in 1 .. Len(chain[m])
            BY <4>1, <6>1
          <6>4. q \in 1 .. Len(chain[m])
            <7> DEFINE i == chain[m][p].index
                       k == Len(chain[m])
            <7>1. i \in Nat /\ k \in Nat /\ p \in 1 .. k /\ i + 1 <= q /\ q <= p - 1 /\ q \in Int
              BY <5>2, <6>1, <6>2
            <7> HIDE DEF i, k
            <7>2. q \in 1 .. k
              BY <7>1
            <7> QED
              BY <7>2 DEF k
          <6> QED
            BY <2>d, <6>4, ExtendShape
        <5> QED
          BY <4>1, <5>1, <5>3
      <4>2. CASE m = n /\ p = Len(chain[n]) + 1 /\ chain'[m][p] = b
        <5>1. Len(chain[n]) \in Nat /\ b.index \in Nat
          BY <3>2 DEF Block
        <5>2. p - 1 = Len(chain[n]) /\ b.index <= p - 1
          BY <2>d, <4>2, <5>1
        <5>3. ASSUME b.miner # n, NEW q \in (b.index + 1) .. Len(chain[n])
              PROVE  chain'[n][q].miner = n
          <6>1. q \in 1 .. Len(chain[n])
            BY <5>1
          <6> QED
            BY <2>d, <3>3, <5>3, <6>1
        <5> QED
          BY <4>2, <5>2, <5>3
      <4> QED
        BY <3>4, <4>1, <4>2
    <3>13. AddingIsNext'
      <4> SUFFICES ASSUME NEW m \in Nodes, adding'[m] # Nothing
                   PROVE  /\ adding'[m] \in wire /\ adding'[m].index <= Len(chain'[m])
                          /\ \A p \in DOMAIN chain'[m] : chain'[m][p].hash # adding'[m].hash
                          /\ \A q \in (adding'[m].index + 1) .. Len(chain'[m]) : chain'[m][q].miner = m
        <5>1. wire' = wire
          BY <2>d
        <5> QED
          BY <5>1 DEF AddingIsNext, Idle, Nothing, Knows
      <4>0. adding'[m] = adding[m] /\ adding[m] # Nothing
        BY <2>d
      <4>1. PICK c : c = adding[m] /\ c = adding'[m]
        BY <4>0
      <4>2. /\ c \in wire /\ c.index <= Len(chain[m])
            /\ \A p \in DOMAIN chain[m] : chain[m][p].hash # c.hash
            /\ \A q \in (c.index + 1) .. Len(chain[m]) : chain[m][q].miner = m
        BY <4>0, <4>1 DEF AddingIsNext, Idle, Knows
      <4>3. CASE m # n
        <5>1. chain'[m] = chain[m]
          BY <3>1, <4>3
        <5> QED
          BY <4>1, <4>2, <5>1
      <4>4. CASE m = n
        <5>1. b.miner = n /\ b.hash # c.hash
          BY <2>d, <4>0, <4>2, <4>4
        <5>2. \A p \in DOMAIN chain'[n] : chain'[n][p].hash # c.hash
          BY <3>4, <4>2, <4>4, <5>1
        <5>3. c.index \in Nat
          BY <4>2 DEF TypeOK, Block
        <5>4. c.index <= Len(chain'[n])
          BY <3>2, <3>3, <4>2, <4>4, <5>3
        <5>5. ASSUME NEW q \in (c.index + 1) .. Len(chain'[n]) PROVE chain'[n][q].miner = n
          <6>1. q \in (c.index + 1) .. Len(chain[n]) \/ q = Len(chain[n]) + 1
            BY <3>2, <3>3, <5>3
          <6>2. CASE q \in (c.index + 1) .. Len(chain[n])
            <7>1. q \in 1 .. Len(chain[n])
              BY <3>2, <5>3, <6>2
            <7> QED
              BY <3>3, <4>2, <4>4, <6>2, <7>1
          <6>3. CASE q = Len(chain[n]) + 1
            BY <3>3, <5>1, <6>3
          <6> QED
            BY <6>1, <6>2, <6>3
        <5> QED
          BY <4>1, <4>2, <4>4, <5>2, <5>4, <5>5
      <4> QED
        BY <4>3, <4>4
    <3>12. ChainsStartAtGenesis'
      BY <3>1, <3>2, <3>3, SMTT(30) DEF ChainsStartAtGenesis
    <3> QED
      BY <3>5, <3>6, <3>7, <3>8, <3>9, <3>10, <3>11, <3>12, <3>13
  <2>1. ASSUME NEW w \in Workers, StartMining(w) PROVE GossipInv'
    BY <2>1, <2>a DEF StartMining, Goto, TypeOK
  <2>2. ASSUME NEW w \in Workers, CheckFlag(w) PROVE GossipInv'
    BY <2>2, <2>a DEF CheckFlag, Goto, TypeOK, nodeVars
  <2>3. ASSUME NEW w \in Workers, BeginRound(w) PROVE GossipInv'
    BY <2>3, <2>a, SMTT(30) DEF BeginRound, Goto, TypeOK
  <2>4. ASSUME NEW w \in Workers, BeginTraining(w) PROVE GossipInv'
    BY <2>4, <2>b, SMTT(30) DEF BeginTraining, Goto, TypeOK, nodeVars, Sketch, NextIndex
  <2>5. ASSUME NEW w \in Workers, FailTraining(w) PROVE GossipInv'
    BY <2>5, <2>b DEF FailTraining, Goto, TypeOK, nodeVars
  <2>6. ASSUME NEW w \in Workers, FinishTraining(w) PROVE GossipInv'
    BY <2>6, <2>c DEF FinishTraining, Seal, Sketch, Goto, TypeOK, nodeVars, DraftsAreBelowTip
  <2>7. ASSUME NEW w \in Workers, BeginNoop(w) PROVE GossipInv'
    BY <2>7, <2>b DEF BeginNoop, Goto, TypeOK, nodeVars
  <2>8. ASSUME NEW w \in Workers, FinishNoop(w) PROVE GossipInv'
    BY <2>8, <2>c, SMTT(30) DEF FinishNoop, Seal, Sketch, NextIndex, Goto, TypeOK, nodeVars
  <2>9. ASSUME NEW w \in Workers, AppendOwn(w) PROVE GossipInv'
    <3>1. /\ Host[w] \in Nodes /\ draft[w] \in Block /\ Extend(Host[w], draft[w])
          /\ pc[w] = "ready" /\ UNCHANGED <<wire, draft, fresh, adding>>
          /\ pc' = [pc EXCEPT ![w] = "publish"]
      BY <2>9 DEF AppendOwn, Goto, TypeOK
    <3>2. ~Knows(Host[w], draft[w].hash)
      BY <3>1 DEF DraftsAreUnknown, Knows
    <3>3. /\ draft[w].index <= Len(chain[Host[w]]) /\ draft[w].hash < fresh
          /\ draft[w].miner = Host[w]
      BY <3>1 DEF DraftsAreOwn, DraftsAreBelowTip
    <3>4. \A v \in Workers : pc'[v] = "ready" => draft[v].hash # draft[w].hash
      BY <3>1 DEF DraftsAreDistinct, TypeOK
    <3>5. \A v \in Workers : pc'[v] = pc[v] \/ (pc'[v] = "publish" /\ pc[v] = "ready")
      BY <3>1 DEF TypeOK
    <3>6. \A c \in wire : c.hash # draft[w].hash
      BY <3>1 DEF DraftsAreUnknown
    <3> QED
      BY <2>d, <3>1, <3>2, <3>3, <3>4, <3>5, <3>6
  <2>10. ASSUME NEW w \in Workers, Publish(w) PROVE GossipInv'
    <3>1. /\ pc[w] = "publish" /\ pc' = [pc EXCEPT ![w] = "check"]
          /\ draft' = [draft EXCEPT ![w] = NoDraft]
          /\ \A b \in wire' : b \in wire \/ b = draft[w]
          /\ wire \subseteq wire' /\ UNCHANGED <<chain, fresh, adding>>
      BY <2>10 DEF Publish, Goto, nodeVars
    <3>2. HashesAreUsed'
      BY <3>1 DEF HashesAreUsed, DraftsAreOwn
    <3>3. DraftsAreUnknown'
      BY <3>1 DEF DraftsAreUnknown, DraftsAreDistinct, TypeOK
    <3>4. AddingIsNext'
      BY <3>1 DEF AddingIsNext, Idle, Knows
    <3> QED
      BY SMTT(30), <3>1, <3>2, <3>3, <3>4 DEF DraftsAreOwn, DraftsAreBelowTip, DraftsAreDistinct,
        NoBlockTwice, OnlyOwnBlocksDisplace, ChainsStartAtGenesis, TypeOK
  <2>11. ASSUME NEW n \in Nodes, StopMining(n) PROVE GossipInv'
    BY <2>11, <2>a DEF StopMining, nodeVars, workerVars
  <2>12. ASSUME NEW n \in Nodes, Restart(n) PROVE GossipInv'
    <3>1. /\ \A m \in Nodes \ {n} : chain'[m] = chain[m]
          /\ chain'[n] = <<Genesis>>
          /\ \A v \in Workers : Host[v] # n => pc'[v] = pc[v] /\ draft'[v] = draft[v]
          /\ \A v \in Workers : Host[v] = n => pc'[v] = "off"
          /\ \A m \in Nodes \ {n} : adding'[m] = adding[m]
          /\ adding'[n] = Nothing /\ UNCHANGED <<wire, fresh>>
      BY <2>12 DEF Restart, TypeOK
    <3>2. DOMAIN chain'[n] = {1} /\ chain'[n][1] = Genesis
      BY <3>1, SingletonShape
    <3>a. 1 \in DOMAIN chain[n] /\ chain[n][1] = Genesis
      BY SMTT(30) DEF TypeOK, ChainsStartAtGenesis
    <3>b. \A m \in Nodes : \A p \in DOMAIN chain'[m] :
            p \in DOMAIN chain[m] /\ chain'[m][p] = chain[m][p]
      BY <3>1, <3>2, <3>a
    <3>3. HashesAreUsed'
      BY <3>1, <3>b DEF HashesAreUsed
    <3>4. DraftsAreUnknown'
      <4>1. \A v \in Workers : pc'[v] = "ready" => pc[v] = "ready" /\ draft'[v] = draft[v]
        BY <3>1
      <4> QED
        BY <3>1, <3>b, <4>1 DEF DraftsAreUnknown
    <3>5. NoBlockTwice'
      BY <3>b DEF NoBlockTwice
    <3>8. OnlyOwnBlocksDisplace'
      <4>1. ASSUME NEW m \in Nodes, m # n, NEW p \in DOMAIN chain'[m]
            PROVE  /\ chain'[m][p].index <= p - 1
                   /\ chain'[m][p].miner # m =>
                        \A q \in (chain'[m][p].index + 1) .. (p - 1) : chain'[m][q].miner = m
        BY <3>1, <4>1 DEF OnlyOwnBlocksDisplace
      <4>2. ASSUME NEW p \in DOMAIN chain'[n]
            PROVE  p = 1 /\ chain'[n][p].index = 0
        BY <3>2 DEF Genesis
      <4>3. \A p \in DOMAIN chain'[n] :
              /\ chain'[n][p].index <= p - 1
              /\ chain'[n][p].miner # n =>
                   \A q \in (chain'[n][p].index + 1) .. (p - 1) : chain'[n][q].miner = n
        BY <4>2
      <4> QED
        BY <4>1, <4>3 DEF OnlyOwnBlocksDisplace
    <3>9. AddingIsNext'
      <4>1. ASSUME NEW m \in Nodes, adding'[m] # Nothing
            PROVE  m # n /\ chain'[m] = chain[m] /\ adding'[m] = adding[m]
        BY <3>1, <4>1
      <4>2. ASSUME NEW m \in Nodes, adding'[m] # Nothing
            PROVE  /\ adding'[m] \in wire' /\ adding'[m].index <= Len(chain'[m])
                   /\ \A p \in DOMAIN chain'[m] : chain'[m][p].hash # adding'[m].hash
                   /\ \A q \in (adding'[m].index + 1) .. Len(chain'[m]) : chain'[m][q].miner = m
        BY SMTT(30), <3>1, <4>1, <4>2 DEF AddingIsNext, Idle, Knows
      <4> QED
        BY <4>2 DEF AddingIsNext, Idle, Nothing, Knows
    <3>6. ChainsStartAtGenesis'
      BY <3>1, <3>2 DEF ChainsStartAtGenesis
    <3>7. DraftsAreBelowTip'
      BY <3>1 DEF DraftsAreBelowTip
    <3> QED
      BY <3>1, <3>3, <3>4, <3>5, <3>6, <3>7, <3>8, <3>9 DEF DraftsAreOwn, DraftsAreDistinct
  <2>13. ASSUME NEW n \in Nodes, NEW b \in wire, ReceiveNext(n, b) PROVE GossipInv'
    <3>1. /\ UNCHANGED <<chain, pc, wire, draft, fresh>> /\ b \in Block
          /\ ~Knows(n, b.hash) /\ b.index = Len(chain[n]) /\ b.index \in Nat
          /\ adding'[n] = b /\ \A m \in Nodes \ {n} : adding'[m] = adding[m]
      BY <2>13 DEF ReceiveNext, IsNext, TypeOK, Block, nodeVars, workerVars
    <3>2. AddingIsNext'
      <4> SUFFICES ASSUME NEW m \in Nodes, adding'[m] # Nothing
                   PROVE  /\ adding'[m] \in wire /\ adding'[m].index <= Len(chain[m])
                          /\ \A p \in DOMAIN chain[m] : chain[m][p].hash # adding'[m].hash
                          /\ \A q \in (adding'[m].index + 1) .. Len(chain[m]) : chain[m][q].miner = m
        BY <3>1 DEF AddingIsNext, Idle, Nothing, Knows
      <4>1. CASE m = n
        <5>1. \A q \in (b.index + 1) .. Len(chain[n]) : FALSE
          BY <3>1
        <5> QED
          BY SMTT(30), <3>1, <4>1, <5>1 DEF Knows
      <4>2. CASE m # n
        BY <3>1, <4>2 DEF AddingIsNext, Idle, Knows
      <4> QED
        BY <4>1, <4>2
    <3> QED
      BY <3>1, <3>2 DEF HashesAreUsed, DraftsAreOwn, DraftsAreBelowTip, DraftsAreUnknown,
        DraftsAreDistinct, NoBlockTwice, OnlyOwnBlocksDisplace, ChainsStartAtGenesis
  <2>17. ASSUME NEW n \in Nodes, AppendReceived(n) PROVE GossipInv'
    <3> DEFINE b == adding[n]
    <3>1. /\ Extend(n, b) /\ UNCHANGED <<wire, draft, fresh, pc>> /\ adding'[n] = Nothing
          /\ \A m \in Nodes \ {n} : adding'[m] = adding[m]
      BY <2>17 DEF AppendReceived, TypeOK, workerVars
    <3>2. /\ b \in wire /\ ~Knows(n, b.hash) /\ b.index <= Len(chain[n])
          /\ \A q \in (b.index + 1) .. Len(chain[n]) : chain[n][q].miner = n
      BY <2>17 DEF AppendReceived, AddingIsNext
    <3>3. b \in Block /\ b.hash < fresh
      BY <3>2 DEF TypeOK, HashesAreUsed
    <3>4. \A v \in Workers : pc[v] = "ready" => draft[v].hash # b.hash
      BY <3>2 DEF DraftsAreUnknown
    <3> HIDE DEF b
    <3> QED
      BY <2>d, <3>1, <3>2, <3>3, <3>4
  <2>14. ASSUME NEW n \in Nodes, NEW b \in wire, ReceiveConflict(n, b) PROVE GossipInv'
    BY <2>14, <2>a DEF ReceiveConflict, workerVars
  <2>15. ASSUME NEW n \in Nodes, NEW m \in Nodes, AnswerDigest(m, n) PROVE GossipInv'
    <3>1. /\ UNCHANGED <<chain, pc, draft, fresh, adding>> /\ wire \subseteq wire'
          /\ \A b \in wire' : b \in wire \/ \E p \in DOMAIN chain[m] : b = chain[m][p]
      BY <2>15 DEF AnswerDigest, After, nodeVars, workerVars
    <3> QED
      BY <3>1 DEF HashesAreUsed, DraftsAreOwn, DraftsAreBelowTip,
        DraftsAreUnknown, DraftsAreDistinct, NoBlockTwice, OnlyOwnBlocksDisplace,
      AddingIsNext, Idle, Knows, ChainsStartAtGenesis
  <2>16. CASE UNCHANGED vars
    BY <2>16, <2>a DEF vars
  <2> QED
    BY <2>1, <2>2, <2>3, <2>4, <2>5, <2>6, <2>7, <2>8, <2>9, <2>10, <2>11, <2>12,
       <2>13, <2>14, <2>15, <2>16, <2>17 DEF Next, Round, Gossip
<1> QED
  BY <1>1, <1>2, TypeCorrect, PTL DEF Spec

\* No block is ever twice on a chain, however often gossip repeats it and wherever a
\* miner's own append lands (mine_block, the duplicate check of add_message).
THEOREM GossipSafe == Spec => []NoBlockTwice
<1>1. GossipInv => NoBlockTwice
  BY DEF GossipInv
<1> QED
  BY <1>1, GossipInvariant, PTL

\* No block sits below its height, and the blocks between the height of a peer's
\* block and its place are the node's own (the append of mine_block, the height
\* check and the later append of add_message).
THEOREM DisplacementIsOwn == Spec => []OnlyOwnBlocksDisplace
<1>1. GossipInv => OnlyOwnBlocksDisplace
  BY DEF GossipInv
<1> QED
  BY <1>1, GossipInvariant, PTL

-----------------------------------------------------------------------------
(* Evidence.  Whatever sits on a chain or on the gossip layer was built by a *)
(* mining thread, the canonical genesis block excepted, so two blocks that   *)
(* meet at one height are two blocks their miner built.                      *)

Provenance ==
  /\ \A n \in Nodes : \A p \in DOMAIN chain[n] : chain[n][p] \in built \cup {Genesis}
  /\ wire \subseteq built \cup {Genesis}
  /\ \A w \in Workers : Sealed(w) => draft[w] \in built
  /\ \A b \in built : b.miner # GenesisMiner

EvidenceInv == Provenance /\ PeersAccuseJustly

\* What a node finds at the height of a peer's block is that peer's block of the
\* same height, or an older one that an append of the node itself pushed up.
LEMMA IncumbentIsOlder ==
  ASSUME GossipInv, NEW n \in Nodes, NEW b \in wire, IsEquivocation(n, b), b.miner # n
  PROVE  chain[n][b.index + 1].index = b.index \/ PushedUp(n, <<b.miner, b.index>>)
<1> DEFINE q == b.index + 1
           c == chain[n][q]
<1>1. /\ b.index < Len(chain[n]) /\ c.miner = b.miner /\ b.index \in Nat
      /\ Len(chain[n]) \in Nat /\ DOMAIN chain[n] = 1 .. Len(chain[n])
  BY DEF IsEquivocation, Displaces, GossipInv, TypeOK, Block
<1>2. q \in DOMAIN chain[n] /\ q - 1 = b.index
  BY SMTT(30), <1>1
<1>3. c.index \in Nat
  <2>1. c \in Block
    BY <1>2 DEF GossipInv, TypeOK
  <2> QED
    BY <2>1 DEF Block
<1>4. c.index <= b.index /\ \A r \in (c.index + 1) .. b.index : chain[n][r].miner = n
  BY SMTT(30), <1>1, <1>2 DEF GossipInv, OnlyOwnBlocksDisplace
<1>5. ASSUME c.index # b.index PROVE PushedUp(n, <<b.miner, b.index>>)
  <2>1. c.index < b.index /\ b.index \in (c.index + 1) .. b.index
    BY SMTT(30), <1>1, <1>3, <1>4, <1>5
  <2> QED
    BY <1>1, <1>2, <1>4, <2>1 DEF PushedUp
<1> QED
  BY <1>5

\* A block stays pushed up: chains only grow.
LEMMA PushedUpStays ==
  ASSUME TypeOK, NEW n \in Nodes, NEW b \in Block, Extend(n, b),
         NEW m \in Nodes, NEW k \in accused[m], PushedUp(m, k)
  PROVE  PushedUp(m, k)'
<1>1. k[2] \in Nat
  BY DEF TypeOK
<1>2. k[2] + 1 \in 1 .. Len(chain[m]) /\ Len(chain[m]) \in Nat
  BY ExtendShape DEF PushedUp
<1>3. chain[m][k[2] + 1].index \in Nat
  <2>1. chain[m][k[2] + 1] \in Block
    BY <1>2 DEF TypeOK
  <2> QED
    BY <2>1 DEF Block
<1>4. k[2] \in 1 .. Len(chain[m])
  <2>1. chain[m][k[2] + 1].index < k[2]
    BY DEF PushedUp
  <2> QED
    BY SMTT(30), <1>1, <1>2, <1>3, <2>1
<1>5. /\ chain'[m][k[2]] = chain[m][k[2]] /\ chain'[m][k[2] + 1] = chain[m][k[2] + 1]
      /\ k[2] + 1 \in DOMAIN chain'[m]
  <2>1. /\ \A p \in 1 .. Len(chain[m]) : chain'[m][p] = chain[m][p]
        /\ Len(chain[m]) <= Len(chain'[m]) /\ Len(chain'[m]) \in Nat
        /\ DOMAIN chain'[m] = 1 .. Len(chain'[m])
    BY ExtendShape
  <2>2. k[2] + 1 \in 1 .. Len(chain'[m])
    BY SMTT(30), <1>1, <1>2, <2>1
  <2> QED
    BY <1>2, <1>4, <2>1, <2>2
<1> QED
  BY <1>5 DEF PushedUp

\* A block a node counts as equivocation of somebody else, and the block it
\* displaces, were both built by that miner for that height, or the node pushed
\* the latter up there.
LEMMA ConflictIsEvidence ==
  ASSUME GossipInv, Provenance,
         NEW n \in Nodes, NEW b \in wire, IsEquivocation(n, b), b.miner # n
  PROVE  \/ \E c, d \in built :
              c # d /\ c.miner = b.miner /\ d.miner = b.miner /\ c.index = b.index /\ d.index = b.index
         \/ PushedUp(n, <<b.miner, b.index>>)
<1> DEFINE q == b.index + 1
           c == chain[n][q]
<1>1. /\ b.index < Len(chain[n]) /\ c.hash # b.hash /\ c.miner = b.miner
      /\ b \in Block /\ b.index \in Nat
  BY DEF IsEquivocation, Displaces, GossipInv, TypeOK, Block
<1>2. Len(chain[n]) \in Nat /\ DOMAIN chain[n] = 1 .. Len(chain[n])
  BY DEF GossipInv, TypeOK
<1>3. q \in DOMAIN chain[n] /\ q - 1 = b.index
  BY <1>1, <1>2
<1>4. c.index = b.index \/ PushedUp(n, <<b.miner, b.index>>)
  BY IncumbentIsOlder
<1>5. c \in built \cup {Genesis} /\ b \in built \cup {Genesis}
  BY <1>3 DEF Provenance
<1>6. c \in built /\ b \in built
  <2>1. Genesis.miner = GenesisMiner
    BY DEF Genesis
  <2>2. c # b
    BY <1>1
  <2> QED
    BY <1>1, <1>5, <2>1, <2>2 DEF Provenance
<1>7. c # b
  BY <1>1
<1> QED
  BY <1>1, <1>4, <1>6, <1>7

\* Provenance, and with it the justice of accusations, survives every step.
LEMMA EvidenceInvariant == Spec => []EvidenceInv
<1> USE DEF Sealed
<1>1. Init => EvidenceInv
  <2> SUFFICES ASSUME Init PROVE EvidenceInv
    OBVIOUS
  <2>1. \A n \in Nodes : DOMAIN chain[n] = {1} /\ chain[n][1] = Genesis
    BY SingletonShape DEF Init
  <2> QED
    BY <2>1 DEF Init, EvidenceInv, Provenance, PeersAccuseJustly
<1>2. EvidenceInv /\ GossipInv /\ [Next]_vars => EvidenceInv'
  <2> SUFFICES ASSUME EvidenceInv, GossipInv, [Next]_vars PROVE EvidenceInv'
    OBVIOUS
  <2> USE DEF EvidenceInv
  <2>t. TypeOK
    BY DEF GossipInv
  <2>a. ASSUME UNCHANGED <<chain, wire, built, accused>>,
               \A v \in Workers : Sealed(v)' => Sealed(v) /\ draft'[v] = draft[v]
        PROVE  EvidenceInv'
    BY <2>a DEF Provenance, PeersAccuseJustly, PushedUp
  <2>b. ASSUME NEW w \in Workers, UNCHANGED <<chain, wire, accused>>,
               built' = built \cup {draft'[w]}, draft'[w].miner # GenesisMiner,
               \A v \in Workers \ {w} : Sealed(v)' => Sealed(v) /\ draft'[v] = draft[v]
        PROVE  EvidenceInv'
    <3>1. Provenance'
      BY <2>b DEF Provenance
    <3>2. built \subseteq built'
      BY <2>b
    <3> QED
      BY <2>b, <3>1, <3>2 DEF PeersAccuseJustly, PushedUp
  <2>c. ASSUME NEW n \in Nodes, NEW b \in Block, Extend(n, b), b \in built \cup {Genesis},
               UNCHANGED <<wire, built, accused, draft>>,
               \A v \in Workers : Sealed(v)' => Sealed(v)
        PROVE  EvidenceInv'
    <3>1. \A m \in Nodes : \A p \in DOMAIN chain'[m] : chain'[m][p] \in built \cup {Genesis}
      <4> SUFFICES ASSUME NEW m \in Nodes, NEW p \in DOMAIN chain'[m]
                   PROVE  chain'[m][p] \in built \cup {Genesis}
        OBVIOUS
      <4>1. CASE m # n
        BY <2>c, <2>t, <4>1, ExtendShape DEF Provenance
      <4>2. CASE m = n
        <5>1. /\ Len(chain[n]) \in Nat /\ Len(chain'[n]) = Len(chain[n]) + 1
              /\ DOMAIN chain[n] = 1 .. Len(chain[n]) /\ DOMAIN chain'[n] = 1 .. Len(chain'[n])
              /\ chain'[n][Len(chain[n]) + 1] = b
              /\ \A q \in 1 .. Len(chain[n]) : chain'[n][q] = chain[n][q]
          BY <2>c, <2>t, ExtendShape
        <5>2. p \in 1 .. Len(chain[n]) \/ p = Len(chain[n]) + 1
          BY <4>2, <5>1, SMTT(30)
        <5> QED
          BY <2>c, <4>2, <5>1, <5>2 DEF Provenance
      <4> QED
        BY <4>1, <4>2
    <3>2. Provenance'
      BY <2>c, <3>1 DEF Provenance
    <3>3. PeersAccuseJustly'
      <4> SUFFICES ASSUME NEW m \in Nodes, NEW k \in accused[m], k[1] # m
                   PROVE  \/ \E e, f \in built : e # f /\ e.miner = k[1] /\ f.miner = k[1]
                                                /\ e.index = k[2] /\ f.index = k[2]
                          \/ PushedUp(m, k)'
        BY <2>c DEF PeersAccuseJustly
      <4>1. PushedUp(m, k) => PushedUp(m, k)'
        BY <2>c, <2>t, PushedUpStays
      <4> QED
        BY <4>1 DEF PeersAccuseJustly
    <3> QED
      BY <3>2, <3>3
  <2>d. \A w \in Workers : Host[w] \in Nodes /\ Host[w] # GenesisMiner
    OBVIOUS
  <2>1. ASSUME NEW w \in Workers, StartMining(w) PROVE EvidenceInv'
    BY <2>1, <2>a, <2>t DEF StartMining, Goto, TypeOK
  <2>2. ASSUME NEW w \in Workers, CheckFlag(w) PROVE EvidenceInv'
    BY <2>2, <2>a, <2>t DEF CheckFlag, Goto, TypeOK, nodeVars
  <2>3. ASSUME NEW w \in Workers, BeginRound(w) PROVE EvidenceInv'
    BY <2>3, <2>a, <2>t, SMTT(30) DEF BeginRound, Goto, TypeOK
  <2>4. ASSUME NEW w \in Workers, BeginTraining(w) PROVE EvidenceInv'
    BY <2>4, <2>a, <2>t, SMTT(30) DEF BeginTraining, Goto, TypeOK, nodeVars
  <2>5. ASSUME NEW w \in Workers, FailTraining(w) PROVE EvidenceInv'
    BY <2>5, <2>a, <2>t, SMTT(30) DEF FailTraining, Goto, TypeOK, nodeVars
  <2>6. ASSUME NEW w \in Workers, FinishTraining(w) PROVE EvidenceInv'
    BY <2>6, <2>b, <2>d, <2>t, SMTT(30) DEF FinishTraining, Seal, Sketch, Goto, TypeOK, nodeVars
  <2>7. ASSUME NEW w \in Workers, BeginNoop(w) PROVE EvidenceInv'
    BY <2>7, <2>a, <2>t, SMTT(30) DEF BeginNoop, Goto, TypeOK, nodeVars
  <2>8. ASSUME NEW w \in Workers, FinishNoop(w) PROVE EvidenceInv'
    BY <2>8, <2>b, <2>d, <2>t, SMTT(30) DEF FinishNoop, Seal, Sketch, Goto, TypeOK, nodeVars
  <2>9. ASSUME NEW w \in Workers, AppendOwn(w) PROVE EvidenceInv'
    <3>1. /\ Host[w] \in Nodes /\ draft[w] \in Block /\ Extend(Host[w], draft[w])
          /\ draft[w] \in built /\ UNCHANGED <<wire, built, accused, draft>>
          /\ \A v \in Workers : Sealed(v)' => Sealed(v)
      BY <2>9, <2>t DEF AppendOwn, Goto, TypeOK, Provenance
    <3> QED
      BY <2>c, <3>1
  <2>10. ASSUME NEW w \in Workers, Publish(w) PROVE EvidenceInv'
    <3>1. /\ draft[w] \in built /\ UNCHANGED <<chain, built, accused>>
          /\ \A b \in wire' : b \in wire \/ b = draft[w]
          /\ \A v \in Workers : Sealed(v)' => Sealed(v) /\ draft'[v] = draft[v]
      BY <2>10, <2>t DEF Publish, Goto, TypeOK, Provenance, nodeVars
    <3> QED
      BY <3>1 DEF Provenance, PeersAccuseJustly, PushedUp
  <2>11. ASSUME NEW n \in Nodes, StopMining(n) PROVE EvidenceInv'
    BY <2>11, <2>a DEF StopMining, nodeVars, workerVars
  <2>12. ASSUME NEW n \in Nodes, Restart(n) PROVE EvidenceInv'
    <3>1. /\ \A m \in Nodes \ {n} : chain'[m] = chain[m] /\ accused'[m] = accused[m]
          /\ chain'[n] = <<Genesis>> /\ accused'[n] = {}
          /\ \A v \in Workers : Sealed(v)' => Sealed(v) /\ draft'[v] = draft[v]
          /\ UNCHANGED <<wire, built>>
      BY <2>12, <2>t DEF Restart, TypeOK
    <3>2. DOMAIN chain'[n] = {1} /\ chain'[n][1] = Genesis
      BY <3>1, SingletonShape
    <3>3. Provenance'
      BY <3>1, <3>2 DEF Provenance
    <3>4. PeersAccuseJustly'
      BY <3>1 DEF PeersAccuseJustly, PushedUp
    <3> QED
      BY <3>3, <3>4
  <2>13. ASSUME NEW n \in Nodes, NEW b \in wire, ReceiveNext(n, b) PROVE EvidenceInv'
    BY <2>13, <2>a DEF ReceiveNext, nodeVars, workerVars
  <2>17. ASSUME NEW n \in Nodes, AppendReceived(n) PROVE EvidenceInv'
    <3>1. adding[n] \in wire
      BY <2>17 DEF AppendReceived, GossipInv, AddingIsNext
    <3>2. /\ adding[n] \in Block /\ Extend(n, adding[n]) /\ adding[n] \in built \cup {Genesis}
          /\ UNCHANGED <<wire, built, accused, draft, pc>>
      BY <2>17, <2>t, <3>1 DEF AppendReceived, TypeOK, workerVars, Provenance
    <3> QED
      BY <2>c, <3>2
  <2>14. ASSUME NEW n \in Nodes, NEW b \in wire, ReceiveConflict(n, b) PROVE EvidenceInv'
    <3>1. /\ IsEquivocation(n, b) /\ UNCHANGED <<chain, wire, built, pc, draft>>
          /\ \A m \in Nodes \ {n} : accused'[m] = accused[m]
          /\ accused'[n] = accused[n] \cup {<<b.miner, b.index>>}
      BY <2>14, <2>t DEF ReceiveConflict, workerVars, TypeOK
    <3>2. Provenance'
      BY <3>1 DEF Provenance
    <3>3. b.miner # n =>
            \/ \E c, d \in built : c # d /\ c.miner = b.miner /\ d.miner = b.miner
                                  /\ c.index = b.index /\ d.index = b.index
            \/ PushedUp(n, <<b.miner, b.index>>)
      BY <3>1, ConflictIsEvidence
    <3>4. PeersAccuseJustly'
      <4> SUFFICES ASSUME NEW m \in Nodes, NEW k \in accused'[m], k[1] # m
                   PROVE  \/ \E c, d \in built : c # d /\ c.miner = k[1] /\ d.miner = k[1]
                                                /\ c.index = k[2] /\ d.index = k[2]
                          \/ PushedUp(m, k)
        BY <3>1 DEF PeersAccuseJustly, PushedUp
      <4>1. CASE k \in accused[m]
        BY <4>1 DEF PeersAccuseJustly
      <4>2. CASE m = n /\ k = <<b.miner, b.index>>
        BY <3>3, <4>2
      <4> QED
        BY <3>1, <4>1, <4>2
    <3> QED
      BY <3>2, <3>4
  <2>15. ASSUME NEW n \in Nodes, NEW m \in Nodes, AnswerDigest(m, n) PROVE EvidenceInv'
    <3>1. /\ UNCHANGED <<chain, pc, draft, built, accused>>
          /\ \A b \in wire' : b \in wire \/ \E p \in DOMAIN chain[m] : b = chain[m][p]
      BY <2>15 DEF AnswerDigest, After, nodeVars, workerVars
    <3> QED
      BY <3>1 DEF Provenance, PeersAccuseJustly, PushedUp
  <2>16. CASE UNCHANGED vars
    BY <2>16, <2>a DEF vars
  <2> QED
    BY <2>1, <2>2, <2>3, <2>4, <2>5, <2>6, <2>7, <2>8, <2>9, <2>10, <2>11, <2>12,
       <2>13, <2>14, <2>15, <2>16, <2>17 DEF Next, Round, Gossip
<1> QED
  BY <1>1, <1>2, GossipInvariant, PTL DEF Spec

\* A node that accuses another address has seen it build two blocks for one
\* height, or has itself pushed an older block of it up to that height, through
\* every restart, stop, loss and repetition (add_message and
\* _handle_potential_equivocation).
THEOREM AccusationsAreJust == Spec => []PeersAccuseJustly
<1>1. EvidenceInv => PeersAccuseJustly
  BY DEF EvidenceInv
<1> QED
  BY <1>1, EvidenceInvariant, PTL

-----------------------------------------------------------------------------
(* Honest miners.  Until somebody stops a miner or restarts a node, a node   *)
(* has one mining thread, whose next height is read after its last append:   *)
(* its heights grow, so two of its blocks meet at one height only where a    *)
(* node's own append pushed the older one up.                                *)

Quiet == restarts = 0 /\ stops = 0

OneThreadPerNode ==
  /\ \A w \in Workers : pc[w] # "off" => mining[Host[w]]
  /\ \A v, w \in Workers : Host[v] = Host[w] /\ pc[v] # "off" /\ pc[w] # "off" => v = w

BuiltIsKeptOrReady ==
  \A b \in built :
    \/ \E p \in DOMAIN chain[b.miner] : chain[b.miner][p] = b
    \/ \E w \in Workers : pc[w] = "ready" /\ draft[w] = b

OwnHeightsGrow ==
  \A n \in Nodes : \A p, q \in DOMAIN chain[n] :
    p < q /\ chain[n][p].miner = n /\ chain[n][q].miner = n => p <= chain[n][q].index

DraftsAreAboveOwn ==
  \A w \in Workers : pc[w] \in {"training", "ready"} =>
    \A p \in DOMAIN chain[Host[w]] :
      chain[Host[w]][p].miner = Host[w] => p <= draft[w].index

AccusedArePushedUp == \A n \in Nodes : \A k \in accused[n] : k[1] # n /\ PushedUp(n, k)

Honest ==
  /\ OneThreadPerNode /\ BuiltIsKeptOrReady
  /\ OwnHeightsGrow /\ DraftsAreAboveOwn
  /\ AccusedArePushedUp

HonestInv == Quiet => Honest

\* While the network is quiet, a block of the gossip layer contradicts a chain only
\* at another miner's block that the holder of the chain has pushed up.
LEMMA QuietConflictIsPushedUp ==
  ASSUME GossipInv, Provenance, Honest, NEW n \in Nodes, NEW b \in wire, IsEquivocation(n, b)
  PROVE  b.miner # n /\ PushedUp(n, <<b.miner, b.index>>)
<1> SUFFICES ASSUME b.miner = n \/ ~PushedUp(n, <<b.miner, b.index>>) PROVE FALSE
  OBVIOUS
<1> USE DEF Sealed
<1>t. TypeOK
  BY DEF GossipInv
<1> DEFINE r == b.index + 1
           c == chain[n][r]
           m == b.miner
<1>1. /\ b.index < Len(chain[n]) /\ c.hash # b.hash /\ c.miner = m /\ b \in Block /\ b.index \in Nat
  BY <1>t DEF IsEquivocation, Displaces, TypeOK, Block
<1>2. Len(chain[n]) \in Nat /\ DOMAIN chain[n] = 1 .. Len(chain[n])
  BY <1>t DEF TypeOK
<1>3. r \in DOMAIN chain[n] /\ r - 1 = b.index /\ r \in Nat
  BY <1>1, <1>2, SMTT(30)
<1>4. c \in built /\ b \in built /\ m # GenesisMiner
  <2>1. c \in built \cup {Genesis} /\ b \in built \cup {Genesis} /\ c # b
    BY <1>1, <1>3 DEF Provenance
  <2>2. Genesis.miner = GenesisMiner
    BY DEF Genesis
  <2> QED
    BY <1>1, <2>1, <2>2 DEF Provenance
<1>5. m \in Nodes
  BY <1>1, <1>4 DEF Block
<1>6. \E q \in DOMAIN chain[m] : chain[m][q] = b
  BY <1>4 DEF Honest, BuiltIsKeptOrReady, GossipInv, DraftsAreUnknown
<1>7. PICK q \in DOMAIN chain[m] : chain[m][q] = b
  BY <1>6
<1>8. DOMAIN chain[m] = 1 .. Len(chain[m]) /\ Len(chain[m]) \in Nat
  BY <1>5, <1>t DEF TypeOK
<1>9. q \in Nat
  BY <1>7, <1>8
<1>10. b.index <= q - 1
  BY <1>5, <1>7 DEF GossipInv, OnlyOwnBlocksDisplace
<1>11. \E p \in DOMAIN chain[m] : chain[m][p] = c
  <2>1. CASE \E w \in Workers : pc[w] = "ready" /\ draft[w] = c
    BY <1>3, <2>1 DEF GossipInv, DraftsAreUnknown
  <2> QED
    BY <1>1, <1>4, <2>1 DEF Honest, BuiltIsKeptOrReady
<1>12. PICK p \in DOMAIN chain[m] : chain[m][p] = c
  BY <1>11
<1>13. p \in Nat /\ p # q /\ c.index <= p - 1 /\ c.index \in Nat
  <2>1. c \in Block
    BY <1>4, <1>t DEF TypeOK
  <2>2. p \in Nat
    BY <1>8, <1>12
  <2>5. p # q
    <3>1. chain[m][p].hash # chain[m][q].hash
      BY <1>1, <1>7, <1>12
    <3> QED
      BY <3>1, Zenon
  <2>3. c.index \in Nat
    BY <2>1 DEF Block
  <2>4. c.index <= p - 1
    BY <1>5, <1>12 DEF GossipInv, OnlyOwnBlocksDisplace
  <2> QED
    BY <2>2, <2>3, <2>4, <2>5
<1>14. p < q => p <= b.index
  BY <1>1, <1>5, <1>7, <1>12 DEF Honest, OwnHeightsGrow
<1>15. q < p => q <= c.index
  BY <1>1, <1>5, <1>7, <1>12 DEF Honest, OwnHeightsGrow
<1>16. CASE m = n
  <2>1. p = r
    BY <1>1, <1>3, <1>12, <1>16 DEF GossipInv, NoBlockTwice
  <2> QED
    BY <1>1, <1>3, <1>9, <1>10, <1>13, <1>14, <2>1, SMTT(30)
<1>17. CASE m # n
  <2>1. c.index = b.index
    BY <1>17, IncumbentIsOlder
  <2> QED
    BY SMTT(30), <1>1, <1>9, <1>10, <1>13, <1>14, <1>15, <2>1
<1> QED
  BY <1>16, <1>17

\* Without stop_mining and without restarts no node ever records equivocation
\* against itself, and against a peer only at a block of the peer that an append of
\* the accuser pushed up, whatever gossip loses, repeats or reorders.
THEOREM HonestMinersAreClean == Spec => []HonestMinersStayClean
<1>1. Init => HonestInv
  <2> SUFFICES ASSUME Init PROVE Honest
    BY DEF HonestInv
  <2>1. \A n \in Nodes : DOMAIN chain[n] = {1}
    BY SingletonShape DEF Init
  <2> QED
    BY <2>1 DEF Init, Honest, OneThreadPerNode, BuiltIsKeptOrReady, OwnHeightsGrow,
      DraftsAreAboveOwn, AccusedArePushedUp
<1>2. HonestInv /\ EvidenceInv /\ GossipInv /\ TypeOK' /\ [Next]_vars => HonestInv'
  <2> SUFFICES ASSUME HonestInv, EvidenceInv, GossipInv, TypeOK', [Next]_vars, Quiet'
               PROVE  Honest'
    BY DEF HonestInv
  <2>t. TypeOK
    BY DEF GossipInv
  <2>p. Provenance
    BY DEF EvidenceInv
  <2>q. /\ Quiet
        /\ \A n \in Nodes : ~StopMining(n) /\ ~Restart(n)
    <3>1. restarts \in Nat /\ stops \in Nat
      BY <2>t DEF TypeOK
    <3>2. \A n \in Nodes : StopMining(n) => stops' = stops + 1
      BY DEF StopMining
    <3>3. \A n \in Nodes : Restart(n) => restarts' = restarts + 1
      BY DEF Restart
    <3>4. \A n \in Nodes : ~StopMining(n) /\ ~Restart(n)
      BY <3>1, <3>2, <3>3 DEF Quiet
    <3>5. UNCHANGED <<restarts, stops>>
      <4>1. \A w \in Workers : StartMining(w) \/ Round(w) => UNCHANGED <<restarts, stops>>
        BY DEF StartMining, Round, CheckFlag, BeginRound, BeginTraining, FailTraining,
          FinishTraining, BeginNoop, FinishNoop, AppendOwn, Publish
      <4>2. \A n \in Nodes : Gossip(n) => UNCHANGED <<restarts, stops>>
        BY DEF Gossip, ReceiveNext, AppendReceived, ReceiveConflict, AnswerDigest
      <4>3. UNCHANGED vars => UNCHANGED <<restarts, stops>>
        BY DEF vars
      <4> QED
        BY <3>4, <4>1, <4>2, <4>3 DEF Next
    <3> QED
      BY <3>4, <3>5 DEF Quiet
  <2>h. Honest
    BY <2>q DEF HonestInv
  <2>d. \A w \in Workers : Host[w] \in Nodes
    OBVIOUS
  <2> DEFINE Unmoved(w) == \A v \in Workers \ {w} : pc'[v] = pc[v] /\ draft'[v] = draft[v]
  <2>a. ASSUME NEW w \in Workers, Unmoved(w), UNCHANGED <<chain, built, accused, mining>>,
               pc[w] # "off", pc[w] # "ready",
               pc'[w] = "training" =>
                 \/ pc[w] = "training" /\ draft'[w] = draft[w]
                 \/ draft'[w].index = Len(chain[Host[w]]),
               pc'[w] # "ready"
        PROVE  Honest'
    <3>1. OneThreadPerNode'
      BY <2>a, <2>h DEF Honest, OneThreadPerNode
    <3>2. BuiltIsKeptOrReady'
      BY <2>a, <2>h DEF Honest, BuiltIsKeptOrReady
    <3>3. DraftsAreAboveOwn'
      <4>1. \A p \in DOMAIN chain[Host[w]] : p <= Len(chain[Host[w]])
        BY <2>d, <2>t DEF TypeOK
      <4> QED
        BY <2>a, <2>h, <4>1 DEF Honest, DraftsAreAboveOwn
    <3> QED
      BY <2>a, <2>h, <3>1, <3>2, <3>3 DEF Honest, OwnHeightsGrow, AccusedArePushedUp, PushedUp
  <2>b. ASSUME NEW w \in Workers, Unmoved(w), UNCHANGED <<chain, accused, mining>>,
               built' = built \cup {draft'[w]}, pc[w] # "off", pc[w] # "ready", pc'[w] = "ready",
               \/ pc[w] = "training" /\ draft'[w].index = draft[w].index
               \/ draft'[w].index = Len(chain[Host[w]])
        PROVE  Honest'
    <3>1. OneThreadPerNode'
      BY <2>b, <2>h DEF Honest, OneThreadPerNode
    <3>2. BuiltIsKeptOrReady'
      BY <2>b, <2>h DEF Honest, BuiltIsKeptOrReady
    <3>3. DraftsAreAboveOwn'
      <4>1. \A p \in DOMAIN chain[Host[w]] : p <= Len(chain[Host[w]])
        BY <2>d, <2>t DEF TypeOK
      <4> QED
        BY <2>b, <2>h, <4>1 DEF Honest, DraftsAreAboveOwn
    <3> QED
      BY <2>b, <2>h, <3>1, <3>2, <3>3 DEF Honest, OwnHeightsGrow, AccusedArePushedUp, PushedUp
  <2>1. ASSUME NEW w \in Workers, StartMining(w) PROVE Honest'
    <3>1. /\ ~mining[Host[w]] /\ mining' = [mining EXCEPT ![Host[w]] = TRUE]
          /\ pc' = [pc EXCEPT ![w] = "check"] /\ UNCHANGED <<chain, draft, built, accused>>
          /\ pc[w] = "off"
      BY <2>1 DEF StartMining, Goto
    <3>2. OneThreadPerNode'
      BY <2>d, <2>h, <2>t, <3>1 DEF Honest, OneThreadPerNode, TypeOK
    <3>3. AccusedArePushedUp'
      BY <2>h, <3>1 DEF Honest, AccusedArePushedUp, PushedUp
    <3> QED
      BY <2>h, <2>t, <3>1, <3>2, <3>3 DEF Honest, BuiltIsKeptOrReady, OwnHeightsGrow,
        DraftsAreAboveOwn, TypeOK
  <2>2. ASSUME NEW w \in Workers, CheckFlag(w) PROVE Honest'
    <3>1. \E to \in {"sleep", "off"} : Goto(w, "check", to)
      BY <2>2 DEF CheckFlag
    <3>2. UNCHANGED <<nodeVars, mining, left, draft, wire, built, fresh, restarts, stops>>
      BY <2>2 DEF CheckFlag
    <3> QED
      BY <2>a, <2>t, <3>1, <3>2 DEF Goto, TypeOK, nodeVars
  <2>3. ASSUME NEW w \in Workers, BeginRound(w) PROVE Honest'
    <3>1. \E to \in {"selected", "check"} : Goto(w, "sleep", to)
      BY <2>3 DEF BeginRound
    <3>2. UNCHANGED <<chain, accused, mining, draft, built>>
      BY <2>3 DEF BeginRound
    <3> QED
      BY <2>a, <2>t, <3>1, <3>2 DEF Goto, TypeOK
  <2>4. ASSUME NEW w \in Workers, BeginTraining(w) PROVE Honest'
    <3>1. /\ pc[w] = "selected" /\ pc'[w] = "training" /\ Unmoved(w)
          /\ draft'[w].index = Len(chain[Host[w]])
          /\ UNCHANGED <<chain, built, accused, mining>>
      BY <2>4, <2>t DEF BeginTraining, Goto, TypeOK, nodeVars, Sketch, NextIndex
    <3> QED
      BY <3>1, <2>a
  <2>5. ASSUME NEW w \in Workers, FailTraining(w) PROVE Honest'
    <3>1. /\ pc[w] = "training" /\ pc'[w] = "selected" /\ Unmoved(w)
          /\ UNCHANGED <<chain, built, accused, mining>>
      BY <2>5, <2>t DEF FailTraining, Goto, TypeOK, nodeVars
    <3> QED
      BY <3>1, <2>a
  <2>6. ASSUME NEW w \in Workers, FinishTraining(w) PROVE Honest'
    <3>1. /\ pc[w] = "training" /\ pc'[w] = "ready" /\ Unmoved(w)
          /\ built' = built \cup {draft'[w]} /\ draft'[w].index = draft[w].index
          /\ UNCHANGED <<chain, accused, mining>>
      BY <2>6, <2>t DEF FinishTraining, Seal, Sketch, Goto, TypeOK, nodeVars
    <3> QED
      BY <3>1, <2>b
  <2>7. ASSUME NEW w \in Workers, BeginNoop(w) PROVE Honest'
    <3>1. /\ pc[w] = "selected" /\ pc'[w] = "noop" /\ Unmoved(w)
          /\ UNCHANGED <<chain, built, accused, mining>>
      BY <2>7, <2>t DEF BeginNoop, Goto, TypeOK, nodeVars
    <3> QED
      BY <3>1, <2>a
  <2>8. ASSUME NEW w \in Workers, FinishNoop(w) PROVE Honest'
    <3>1. /\ pc[w] = "noop" /\ pc'[w] = "ready" /\ Unmoved(w)
          /\ built' = built \cup {draft'[w]} /\ draft'[w].index = Len(chain[Host[w]])
          /\ UNCHANGED <<chain, accused, mining>>
      BY <2>8, <2>t DEF FinishNoop, Seal, Sketch, NextIndex, Goto, TypeOK, nodeVars
    <3> QED
      BY <3>1, <2>b
  <2>9. ASSUME NEW w \in Workers, AppendOwn(w) PROVE Honest'
    <3> DEFINE n == Host[w]
               b == draft[w]
    <3>1. /\ n \in Nodes /\ b \in Block /\ Extend(n, b) /\ b.miner = n
          /\ pc[w] = "ready" /\ pc' = [pc EXCEPT ![w] = "publish"]
          /\ UNCHANGED <<built, accused, mining, draft>>
      BY <2>9, <2>t DEF AppendOwn, Goto, TypeOK, GossipInv, DraftsAreOwn, Sealed
    <3>2. /\ Len(chain[n]) \in Nat /\ Len(chain'[n]) = Len(chain[n]) + 1
          /\ chain'[n][Len(chain[n]) + 1] = b
          /\ \A m \in Nodes \ {n} : chain'[m] = chain[m]
          /\ \A m \in Nodes : \A p \in DOMAIN chain[m] : p \in DOMAIN chain'[m] /\ chain'[m][p] = chain[m][p]
          /\ DOMAIN chain[n] = 1 .. Len(chain[n]) /\ DOMAIN chain'[n] = 1 .. Len(chain'[n])
      <4>1. /\ Len(chain[n]) \in Nat /\ Len(chain'[n]) = Len(chain[n]) + 1
            /\ chain'[n][Len(chain[n]) + 1] = b
            /\ \A m \in Nodes \ {n} : chain'[m] = chain[m]
            /\ DOMAIN chain[n] = 1 .. Len(chain[n]) /\ DOMAIN chain'[n] = 1 .. Len(chain'[n])
            /\ \A p \in 1 .. Len(chain[n]) : chain'[n][p] = chain[n][p]
        BY <2>t, <3>1, ExtendShape
      <4>2. \A p \in DOMAIN chain[n] : p \in DOMAIN chain'[n] /\ chain'[n][p] = chain[n][p]
        BY <4>1
      <4> QED
        BY <4>1, <4>2
    <3>3. OneThreadPerNode'
      BY <2>h, <2>t, <3>1 DEF Honest, OneThreadPerNode, TypeOK
    <3>4. BuiltIsKeptOrReady'
      <4> SUFFICES ASSUME NEW e \in built
                   PROVE  \/ \E p \in DOMAIN chain'[e.miner] : chain'[e.miner][p] = e
                          \/ \E v \in Workers : pc'[v] = "ready" /\ draft[v] = e
        BY <3>1 DEF BuiltIsKeptOrReady
      <4>1. CASE e = b
        <5>1. Len(chain[n]) + 1 \in DOMAIN chain'[n]
          BY <3>2
        <5> QED
          BY <3>1, <3>2, <4>1, <5>1, ZenonT(60)
      <4>2. CASE e # b /\ \E v \in Workers : pc[v] = "ready" /\ draft[v] = e
        BY <2>t, <3>1, <4>2 DEF TypeOK
      <4>3. CASE \E p \in DOMAIN chain[e.miner] : chain[e.miner][p] = e
        <5>1. e.miner \in Nodes
          BY <2>p, <2>t DEF TypeOK, Block, Provenance
        <5> QED
          BY <3>2, <4>3, <5>1
      <4> QED
        BY <2>h, <4>1, <4>2, <4>3 DEF Honest, BuiltIsKeptOrReady
    <3>5. OwnHeightsGrow'
      <4> SUFFICES ASSUME NEW m \in Nodes, NEW p \in DOMAIN chain'[m], NEW q \in DOMAIN chain'[m],
                          p < q, chain'[m][p].miner = m, chain'[m][q].miner = m
                   PROVE  p <= chain'[m][q].index
        BY DEF OwnHeightsGrow
      <4>1. CASE m # n
        BY <2>h, <3>2, <4>1 DEF Honest, OwnHeightsGrow
      <4>2. CASE m = n
        <5>l. /\ Len(chain[n]) \in Nat /\ DOMAIN chain[n] = 1 .. Len(chain[n])
              /\ DOMAIN chain'[n] = 1 .. (Len(chain[n]) + 1)
          BY <3>2
        <5>1. p \in DOMAIN chain[n] /\ chain'[n][p] = chain[n][p]
          <6>1. p \in 1 .. Len(chain[n])
            BY <4>2, <5>l, SMTT(30)
          <6> QED
            BY <3>2, <5>l, <6>1
        <5>2. q \in DOMAIN chain[n] \/ q = Len(chain[n]) + 1
          BY <4>2, <5>l, SMTT(30)
        <5>3. CASE q \in DOMAIN chain[n]
          <6>1. chain'[n][q] = chain[n][q]
            BY <3>2, <5>3
          <6> QED
            BY <2>h, <3>1, <4>2, <5>1, <5>3, <6>1 DEF Honest, OwnHeightsGrow
        <5>4. CASE q = Len(chain[n]) + 1
          <6>1. chain'[m][q] = b
            BY <3>2, <4>2, <5>4
          <6>2. chain[n][p].miner = n
            BY <4>2, <5>1
          <6>3. p <= b.index
            BY <2>h, <3>1, <5>1, <6>2 DEF Honest, DraftsAreAboveOwn
          <6> QED
            BY <6>1, <6>3
        <5> QED
          BY <5>2, <5>3, <5>4
      <4> QED
        BY <4>1, <4>2
    <3>6. DraftsAreAboveOwn'
      <4> SUFFICES ASSUME NEW v \in Workers, pc'[v] \in {"training", "ready"},
                          NEW p \in DOMAIN chain'[Host[v]], chain'[Host[v]][p].miner = Host[v]
                   PROVE  p <= draft[v].index
        BY <3>1 DEF DraftsAreAboveOwn
      <4>1. v # w /\ pc[v] \in {"training", "ready"}
        BY <2>t, <3>1 DEF TypeOK
      <4>2. Host[v] # n
        BY <2>h, <3>1, <4>1 DEF Honest, OneThreadPerNode
      <4> QED
        BY <2>d, <2>h, <3>2, <4>1, <4>2 DEF Honest, DraftsAreAboveOwn
    <3>7. AccusedArePushedUp'
      BY <2>h, <2>t, <3>1, PushedUpStays DEF Honest, AccusedArePushedUp
    <3> QED
      BY <3>3, <3>4, <3>5, <3>6, <3>7 DEF Honest
  <2>10. ASSUME NEW w \in Workers, Publish(w) PROVE Honest'
    <3>1. /\ pc[w] = "publish" /\ pc'[w] = "check" /\ Unmoved(w)
          /\ UNCHANGED <<chain, built, accused, mining>>
      BY <2>10, <2>t DEF Publish, Goto, TypeOK, nodeVars
    <3> QED
      BY <3>1, <2>a
  <2>13. ASSUME NEW n \in Nodes, NEW b \in wire, ReceiveNext(n, b) PROVE Honest'
    BY <2>13, <2>h DEF ReceiveNext, nodeVars, workerVars, Honest, OneThreadPerNode,
      BuiltIsKeptOrReady, OwnHeightsGrow, DraftsAreAboveOwn, AccusedArePushedUp, PushedUp
  <2>17. ASSUME NEW n \in Nodes, AppendReceived(n) PROVE Honest'
    <3> DEFINE b == adding[n]
    <3>0. b \in wire /\ ~Knows(n, b.hash)
      BY <2>17 DEF AppendReceived, GossipInv, AddingIsNext
    <3>1. /\ b \in Block /\ Extend(n, b) /\ ~Knows(n, b.hash)
          /\ UNCHANGED <<built, accused, mining, draft, pc>>
      BY <2>17, <2>t, <3>0 DEF AppendReceived, TypeOK, workerVars
    <3> HIDE DEF b
    <3>2. /\ Len(chain[n]) \in Nat /\ Len(chain'[n]) = Len(chain[n]) + 1
          /\ chain'[n][Len(chain[n]) + 1] = b
          /\ \A m \in Nodes \ {n} : chain'[m] = chain[m]
          /\ DOMAIN chain[n] = 1 .. Len(chain[n]) /\ DOMAIN chain'[n] = 1 .. Len(chain'[n])
          /\ \A p \in 1 .. Len(chain[n]) : chain'[n][p] = chain[n][p]
      BY <2>t, <3>1, ExtendShape
    <3>3. \A m \in Nodes : \A p \in DOMAIN chain[m] : p \in DOMAIN chain'[m] /\ chain'[m][p] = chain[m][p]
      BY <3>2, SMTT(30)
    <3>4. b.miner # n
      <4> SUFFICES ASSUME b.miner = n PROVE FALSE
        OBVIOUS
      <4>1. b \in built
        BY <2>p, <3>0 DEF Provenance, Genesis
      <4>2. \A w \in Workers : pc[w] = "ready" => draft[w] # b
        BY <3>0 DEF GossipInv, DraftsAreUnknown
      <4>3. \E p \in DOMAIN chain[n] : chain[n][p] = b
        BY <2>h, <4>1, <4>2 DEF Honest, BuiltIsKeptOrReady
      <4> QED
        BY <3>1, <4>3 DEF Knows
    <3>5. \A m \in Nodes : \A p \in DOMAIN chain'[m] :
            chain'[m][p].miner = m => p \in DOMAIN chain[m] /\ chain'[m][p] = chain[m][p]
      <4> SUFFICES ASSUME NEW m \in Nodes, NEW p \in DOMAIN chain'[m], chain'[m][p].miner = m
                   PROVE  p \in DOMAIN chain[m] /\ chain'[m][p] = chain[m][p]
        OBVIOUS
      <4>1. CASE m # n
        BY <3>2, <4>1
      <4>2. CASE m = n
        <5>0. p \in 1 .. (Len(chain[n]) + 1) /\ Len(chain[n]) \in Nat
          <6>1. p \in DOMAIN chain'[n]
            BY <4>2
          <6> QED
            BY <3>2, <6>1
        <5>1. p \in 1 .. Len(chain[n]) \/ p = Len(chain[n]) + 1
          <6> DEFINE k == Len(chain[n])
          <6>1. p \in 1 .. (k + 1) /\ k \in Nat
            BY <5>0
          <6> HIDE DEF k
          <6>2. p \in 1 .. k \/ p = k + 1
            BY <6>1
          <6> QED
            BY <6>2 DEF k
        <5> QED
          BY <3>2, <3>4, <4>2, <5>1
      <4> QED
        BY <4>1, <4>2
    <3>6. OneThreadPerNode'
      BY <2>h, <3>1 DEF Honest, OneThreadPerNode
    <3>7. BuiltIsKeptOrReady'
      <4>1. \A e \in built : e.miner \in Nodes
        BY <2>p, <2>t DEF TypeOK, Block, Provenance
      <4> QED
        BY <2>h, <3>1, <3>3, <4>1 DEF Honest, BuiltIsKeptOrReady
    <3>8. OwnHeightsGrow'
      BY <2>h, <3>5 DEF Honest, OwnHeightsGrow
    <3>9. DraftsAreAboveOwn'
      BY <2>d, <2>h, <3>1, <3>5 DEF Honest, DraftsAreAboveOwn
    <3>10. AccusedArePushedUp'
      BY <2>h, <2>t, <3>1, PushedUpStays DEF Honest, AccusedArePushedUp
    <3> QED
      BY <3>6, <3>7, <3>8, <3>9, <3>10 DEF Honest
  <2>14. ASSUME NEW n \in Nodes, NEW b \in wire, ReceiveConflict(n, b) PROVE Honest'
    <3>1. b.miner # n /\ PushedUp(n, <<b.miner, b.index>>)
      BY <2>14, <2>h, <2>p, QuietConflictIsPushedUp DEF ReceiveConflict
    <3>2. /\ accused'[n] = accused[n] \cup {<<b.miner, b.index>>}
          /\ \A m \in Nodes \ {n} : accused'[m] = accused[m]
          /\ UNCHANGED <<chain, mining, pc, draft, built>>
      BY <2>14, <2>t DEF ReceiveConflict, TypeOK, workerVars
    <3>3. AccusedArePushedUp'
      BY <2>h, <3>1, <3>2 DEF Honest, AccusedArePushedUp, PushedUp
    <3> QED
      BY <2>h, <3>2, <3>3 DEF Honest, OneThreadPerNode, BuiltIsKeptOrReady, OwnHeightsGrow,
        DraftsAreAboveOwn
  <2>15. ASSUME NEW n \in Nodes, NEW m \in Nodes, AnswerDigest(m, n) PROVE Honest'
    BY <2>15, <2>h DEF AnswerDigest, nodeVars, workerVars, Honest, OneThreadPerNode,
      BuiltIsKeptOrReady, OwnHeightsGrow, DraftsAreAboveOwn, AccusedArePushedUp, PushedUp
  <2>16. CASE UNCHANGED vars
    BY <2>16, <2>h DEF vars, Honest, OneThreadPerNode, BuiltIsKeptOrReady, OwnHeightsGrow,
      DraftsAreAboveOwn, AccusedArePushedUp, PushedUp
  <2> QED
    BY <2>1, <2>2, <2>3, <2>4, <2>5, <2>6, <2>7, <2>8, <2>9, <2>10, <2>q,
       <2>13, <2>14, <2>15, <2>16, <2>17 DEF Next, Round, Gossip
<1>3. HonestInv => HonestMinersStayClean
  BY DEF HonestInv, Quiet, Honest, AccusedArePushedUp, HonestMinersStayClean
<1> QED
  BY <1>1, <1>2, <1>3, EvidenceInvariant, GossipInvariant, TypeCorrect, PTL DEF Spec

-----------------------------------------------------------------------------
(* The deployment the multi-node tests set up: every node knows every       *)
(* address before mining starts, one mining thread per node, never stopped  *)
(* and never restarted.  There the proposer lottery names one node per tip, *)
(* and the chains cannot diverge, for any number of nodes.                  *)

HIDE ChainConstants

Synchronised ==
  /\ SharedRoster = Nodes
  /\ MaxStops = 0 /\ MaxRestarts = 0
  /\ \A v, w \in Workers : Host[v] = Host[w] => v = w

Busy(w) == pc[w] \in {"selected", "training", "noop", "ready"}

\* Who the lottery lets extend the first p blocks of s.
Turn(s, p) ==
  LET h == IF p >= 2 THEN s[p - 1].hash ELSE s[1].hash
  IN  {n \in Nodes : Nodes = {n} \/ n = Draw(Nodes, s[p].miner, h)}

RostersAreFull == roster = [n \in Nodes |-> Nodes]

MinersInTurn ==
  \A n \in Nodes : \A p \in DOMAIN chain[n] :
    p >= 2 => chain[n][p].miner \in Turn(chain[n], p - 1)

\* Nobody is ahead of a miner on the miner's own blocks.
OwnBlocksAreHeld ==
  \A n, m \in Nodes : \A p \in DOMAIN chain[n] :
    chain[n][p].miner = m => p <= Len(chain[m])

WireIsHeld == \A b \in wire : \E n \in Nodes : \E p \in DOMAIN chain[n] : chain[n][p] = b

BusyInTurn == \A w \in Workers : Busy(w) => Host[w] \in Turn(chain[Host[w]], Len(chain[Host[w]]))

DraftsFitTheTip ==
  \A w \in Workers : LET n == Host[w] IN
    /\ pc[w] \in {"training", "ready"} => draft[w].index = Len(chain[n])
    /\ pc[w] \in {"noop", "ready"} => draft[w].prev = Tip(n).hash
    /\ pc[w] = "ready" => draft[w].miner = n
    /\ pc[w] = "publish" => \E p \in DOMAIN chain[n] : chain[n][p] = draft[w]

\* The gossip thread is about to append the block of the height the chain still has.
AddingFits == \A n \in Nodes : ~Idle(n) => adding[n] \in wire /\ adding[n].index = Len(chain[n])

SyncInv ==
  /\ TypeOK /\ RostersAreFull /\ AddingFits
  /\ NoFork /\ HashLinked
  /\ MinersInTurn /\ OwnBlocksAreHeld /\ WireIsHeld
  /\ BusyInTurn /\ DraftsFitTheTip
-----------------------------------------------------------------------------
(* The lottery                                                              *)

\* Two nodes that the lottery draws on the same chain are the same node.
LEMMA TurnIsUnique ==
  ASSUME NEW s, NEW p, NEW n \in Turn(s, p), NEW m \in Turn(s, p)
  PROVE  n = m
BY DEF Turn

\* Whose turn it is depends on the chain a node holds and on nothing else of it.
LEMMA TurnIsLocal ==
  ASSUME NEW s, NEW t, NEW p \in Nat \ {0}, \A q \in 1 .. p : s[q] = t[q]
  PROVE  Turn(s, p) = Turn(t, p)
<1>1. s[p] = t[p] /\ s[1] = t[1] /\ (p >= 2 => s[p - 1] = t[p - 1])
  OBVIOUS
<1> QED
  BY <1>1 DEF Turn

\* A chain is a nonempty sequence of blocks (from TypeOK).
LEMMA ChainShape ==
  ASSUME TypeOK, NEW n \in Nodes
  PROVE  /\ Len(chain[n]) \in Nat \ {0}
         /\ DOMAIN chain[n] = 1 .. Len(chain[n])
         /\ \A p \in DOMAIN chain[n] : chain[n][p] \in Block
         /\ Tip(n) = chain[n][Len(chain[n])]
BY DEF TypeOK, Tip, Last

\* Once the roster is synchronised, every node is a candidate, in everybody's eyes.
LEMMA AllAreCandidates ==
  ASSUME TypeOK, RostersAreFull, NEW n \in Nodes
  PROVE  Candidates(n) = Nodes
<1>1. \A p \in DOMAIN chain[n] : chain[n][p].miner \in Nodes \cup {GenesisMiner}
  BY ChainShape DEF Block
<1>2. {chain[n][p].miner : p \in DOMAIN chain[n]} \subseteq Nodes \cup {GenesisMiner}
  BY <1>1
<1>3. roster[n] = Nodes /\ GenesisMiner \notin Nodes
  BY ChainConstants DEF RostersAreFull
<1> QED
  BY <1>2, <1>3 DEF Candidates

\* So MayPropose is the turn of the chain.
LEMMA TheLotteryIsTheTurn ==
  ASSUME TypeOK, RostersAreFull, NEW n \in Nodes, MayPropose(n)
  PROVE  n \in Turn(chain[n], Len(chain[n]))
BY AllAreCandidates, ChainShape DEF MayPropose, ExpectedLeader, Turn

\* A miner past the lottery holds a longest chain: whoever extended a copy of
\* its chain would have needed its turn.
LEMMA BusyHoldsTheLongest ==
  ASSUME SyncInv, NEW w \in Workers, Busy(w), NEW m \in Nodes
  PROVE  Len(chain[m]) <= Len(chain[Host[w]])
<1> DEFINE n == Host[w]
           L == Len(chain[n])
<1>0. n \in Nodes
  BY ChainConstants
<1>1. n \in Nodes /\ L \in Nat \ {0} /\ Len(chain[m]) \in Nat
  BY <1>0, ChainShape DEF SyncInv
<1> SUFFICES ASSUME L < Len(chain[m]) PROVE FALSE
  BY <1>1
<1>2. L + 1 \in DOMAIN chain[m] /\ L + 1 >= 2
  BY <1>1, ChainShape DEF SyncInv
<1>3. chain[m][L + 1].miner \in Turn(chain[m], L)
  BY <1>1, <1>2, SMTT(30) DEF SyncInv, MinersInTurn
<1>4. Turn(chain[m], L) = Turn(chain[n], L)
  <2>1. \A q \in 1 .. L : chain[m][q] = chain[n][q]
    BY <1>1, ChainShape DEF SyncInv, NoFork
  <2> QED
    BY <1>1, <2>1, TurnIsLocal
<1>5. n \in Turn(chain[n], L)
  BY DEF SyncInv, BusyInTurn
<1>6. chain[m][L + 1].miner = n
  BY <1>3, <1>4, <1>5, TurnIsUnique
<1>7. L + 1 <= L
  BY <1>1, <1>2, <1>6 DEF SyncInv, OwnBlocksAreHeld
<1> QED
  BY <1>1, <1>7

\* Appending the block that every longer chain already holds there, or that
\* the node whose turn it is made for its tip, keeps the chains one log.
LEMMA ExtendKeepsOneLog ==
  ASSUME SyncInv, NEW n \in Nodes, NEW b \in Block, Extend(n, b),
         b.index = Len(chain[n]), b.prev = Tip(n).hash,
         b.miner \in Turn(chain[n], Len(chain[n])),
         \A m \in Nodes : Len(chain[n]) < Len(chain[m]) => chain[m][Len(chain[n]) + 1] = b,
         b.miner = n \/ Len(chain[n]) < Len(chain[b.miner])
  PROVE  /\ RostersAreFull' /\ NoFork' /\ HashLinked' /\ MinersInTurn' /\ OwnBlocksAreHeld'
         /\ \A m \in Nodes : \A p \in DOMAIN chain[m] :
              p \in DOMAIN chain'[m] /\ chain'[m][p] = chain[m][p]
         /\ Len(chain[n]) + 1 \in DOMAIN chain'[n] /\ chain'[n][Len(chain[n]) + 1] = b
<1> DEFINE L == Len(chain[n])
<1> USE DEF SyncInv
<1>1. /\ L \in Nat \ {0} /\ Len(chain'[n]) = L + 1 /\ chain'[n][L + 1] = b
      /\ DOMAIN chain[n] = 1 .. L /\ DOMAIN chain'[n] = 1 .. (L + 1)
      /\ \A p \in 1 .. L : chain'[n][p] = chain[n][p]
  BY ExtendShape
<1>2. \A m \in Nodes \ {n} : chain'[m] = chain[m]
  BY ExtendShape
<1>3. \A m \in Nodes :
        /\ Len(chain[m]) \in Nat \ {0} /\ Len(chain'[m]) \in Nat /\ Len(chain[m]) <= Len(chain'[m])
        /\ DOMAIN chain[m] = 1 .. Len(chain[m]) /\ DOMAIN chain'[m] = 1 .. Len(chain'[m])
        /\ \A p \in 1 .. Len(chain[m]) : chain'[m][p] = chain[m][p]
  BY ExtendShape, ChainShape
<1>4. \A m \in Nodes : \A p \in DOMAIN chain'[m] :
        \/ p \in 1 .. Len(chain[m]) /\ chain'[m][p] = chain[m][p]
        \/ m = n /\ p = L + 1 /\ chain'[m][p] = b
  <2> SUFFICES ASSUME NEW m \in Nodes, NEW p \in DOMAIN chain'[m]
               PROVE  \/ p \in 1 .. Len(chain[m]) /\ chain'[m][p] = chain[m][p]
                      \/ m = n /\ p = L + 1 /\ chain'[m][p] = b
    OBVIOUS
  <2>1. CASE m # n
    BY <1>2, <1>3, <2>1
  <2>2. CASE m = n
    <3>1. p \in 1 .. L \/ p = L + 1
      BY <1>1, <2>2
    <3> QED
      BY <1>1, <2>2, <3>1
  <2> QED
    BY <2>1, <2>2
<1>5. b.miner \in Nodes
  BY DEF Turn
<1>6. RostersAreFull'
  BY <1>5 DEF RostersAreFull, Extend
<1>7. NoFork'
  <2>1. \A m \in Nodes \ {n} : \A p \in DOMAIN chain'[n] \cap DOMAIN chain'[m] :
          chain'[n][p] = chain'[m][p]
    <3> SUFFICES ASSUME NEW m \in Nodes \ {n}, NEW p \in DOMAIN chain'[n] \cap DOMAIN chain'[m]
                 PROVE  chain'[n][p] = chain'[m][p]
      OBVIOUS
    <3>1. chain'[m] = chain[m] /\ p \in 1 .. Len(chain[m]) /\ DOMAIN chain[m] = 1 .. Len(chain[m])
      BY <1>2, <1>3
    <3>2. CASE p \in 1 .. L
      BY <1>1, <3>1, <3>2 DEF NoFork
    <3>3. CASE p = L + 1
      BY <1>1, <1>3, <3>1, <3>3
    <3> QED
      BY <1>1, <3>2, <3>3
  <2>2. \A k, m \in Nodes \ {n} : \A p \in DOMAIN chain'[k] \cap DOMAIN chain'[m] :
          chain'[k][p] = chain'[m][p]
    BY <1>2 DEF NoFork
  <2>3. \A k, m \in Nodes : \A p \in DOMAIN chain'[k] \cap DOMAIN chain'[m] :
          chain'[k][p] = chain'[m][p]
    BY <2>1, <2>2
  <2> QED
    BY <2>3 DEF NoFork
<1>8. HashLinked'
  <2> SUFFICES ASSUME NEW m \in Nodes, NEW p \in DOMAIN chain'[m]
               PROVE  /\ chain'[m][p].index = p - 1
                      /\ p > 1 => chain'[m][p].prev = chain'[m][p - 1].hash
    BY DEF HashLinked
  <2>1. CASE p \in 1 .. Len(chain[m]) /\ chain'[m][p] = chain[m][p]
    <3>1. p > 1 => p - 1 \in 1 .. Len(chain[m])
      BY <1>3, <2>1
    <3>2. p > 1 => chain'[m][p - 1] = chain[m][p - 1]
      BY <1>3, <3>1
    <3>3. chain[m][p].index = p - 1 /\ (p > 1 => chain[m][p].prev = chain[m][p - 1].hash)
      BY <1>3, <2>1 DEF HashLinked
    <3> QED
      BY <2>1, <3>2, <3>3
  <2>2. CASE m = n /\ p = L + 1 /\ chain'[m][p] = b
    <3>1. chain'[n][L] = Tip(n)
      BY <1>1, ChainShape
    <3> QED
      BY <1>1, <2>2, <3>1
  <2> QED
    BY <1>4, <2>1, <2>2
<1>9. MinersInTurn'
  <2> SUFFICES ASSUME NEW m \in Nodes, NEW p \in DOMAIN chain'[m], p >= 2
               PROVE  chain'[m][p].miner \in Turn(chain'[m], p - 1)
    BY DEF MinersInTurn
  <2>0. p - 1 \in Nat \ {0} /\ p - 1 \in 1 .. Len(chain[m])
    BY <1>1, <1>3, <1>4, SMTT(30)
  <2>1. Turn(chain'[m], p - 1) = Turn(chain[m], p - 1)
    <3>1. \A q \in 1 .. (p - 1) : chain'[m][q] = chain[m][q]
      BY <1>3, <2>0
    <3> QED
      BY <2>0, <3>1, TurnIsLocal
  <2>2. CASE p \in 1 .. Len(chain[m]) /\ chain'[m][p] = chain[m][p]
    BY <1>3, <2>1, <2>2 DEF MinersInTurn
  <2>3. CASE m = n /\ p = L + 1 /\ chain'[m][p] = b
    BY <1>1, <2>1, <2>3
  <2> QED
    BY <1>4, <2>2, <2>3
<1>10. OwnBlocksAreHeld'
  <2> SUFFICES ASSUME NEW k \in Nodes, NEW m \in Nodes, NEW p \in DOMAIN chain'[k],
                      chain'[k][p].miner = m
               PROVE  p <= Len(chain'[m])
    BY DEF OwnBlocksAreHeld
  <2>1. CASE p \in 1 .. Len(chain[k]) /\ chain'[k][p] = chain[k][p]
    <3>1. p <= Len(chain[m])
      BY <1>3, <2>1 DEF OwnBlocksAreHeld
    <3> QED
      BY <1>3, <2>1, <3>1
  <2>2. CASE k = n /\ p = L + 1 /\ chain'[k][p] = b
    <3>1. CASE m = n
      BY <1>1, <2>2, <3>1
    <3>2. CASE L < Len(chain[m])
      BY <1>1, <1>3, <2>2, <3>2
    <3> QED
      BY <2>2, <3>1, <3>2
  <2> QED
    BY <1>4, <2>1, <2>2
<1> QED
  BY <1>1, <1>3, <1>6, <1>7, <1>8, <1>9, <1>10

\* A block that add_message accepts is the next block of some longer chain.
LEMMA GossipBringsTheNext ==
  ASSUME SyncInv, NEW n \in Nodes, NEW b \in wire, b.index = Len(chain[n])
  PROVE  \E k \in Nodes : /\ Len(chain[n]) < Len(chain[k])
                          /\ Len(chain[n]) + 1 \in DOMAIN chain[k]
                          /\ chain[k][Len(chain[n]) + 1] = b
<1> USE DEF SyncInv
<1> DEFINE L == Len(chain[n])
<1>1. L \in Nat \ {0}
  BY ChainShape
<1>2. PICK k \in Nodes : \E p \in DOMAIN chain[k] : chain[k][p] = b
  BY DEF WireIsHeld
<1>3. L + 1 \in DOMAIN chain[k] /\ chain[k][L + 1] = b
  <2>1. PICK p \in DOMAIN chain[k] : chain[k][p] = b
    BY <1>2
  <2>2. p \in Nat /\ p - 1 = L
    BY <2>1, ChainShape DEF HashLinked
  <2> QED
    BY <1>1, <2>1, <2>2
<1>4. L < Len(chain[k])
  BY <1>1, <1>3, ChainShape
<1> QED
  BY <1>3, <1>4

-----------------------------------------------------------------------------
\* With the whole roster known, one thread per node and no stop or restart, the
\* gossip layer may lose, repeat and reorder blocks: the chains stay one log.
LEMMA SyncInvariant ==
  ASSUME Synchronised
  PROVE  Spec => []SyncInv
<1>1. Init => SyncInv
  <2> SUFFICES ASSUME Init PROVE SyncInv
    OBVIOUS
  <2>1. TypeOK
    BY ChainConstants, GenesisIsABlock DEF Init, TypeOK, NoDraft, Nothing, Steps
  <2>2. \A n \in Nodes : Len(chain[n]) = 1 /\ DOMAIN chain[n] = {1} /\ chain[n][1] = Genesis
    BY SingletonShape DEF Init
  <2>3. NoFork /\ HashLinked /\ MinersInTurn
    BY <2>2 DEF NoFork, HashLinked, MinersInTurn, Genesis
  <2>4. OwnBlocksAreHeld
    BY <2>2 DEF OwnBlocksAreHeld, Genesis
  <2>5. RostersAreFull
    BY DEF Init, RostersAreFull, Synchronised
  <2>6. WireIsHeld /\ BusyInTurn /\ DraftsFitTheTip /\ AddingFits
    BY DEF Init, WireIsHeld, BusyInTurn, DraftsFitTheTip, Busy, AddingFits, Idle
  <2> QED
    BY <2>1, <2>3, <2>4, <2>5, <2>6 DEF SyncInv
<1>2. SyncInv /\ TypeOK' /\ [Next]_vars => SyncInv'
  <2> SUFFICES ASSUME SyncInv, TypeOK', [Next]_vars PROVE SyncInv'
    OBVIOUS
  <2> USE DEF SyncInv
  <2>h. \A w \in Workers : Host[w] \in Nodes
    BY ChainConstants
  \* Steps that leave chains and gossip alone: one thread moves.
  <2>a. ASSUME NEW w \in Workers, UNCHANGED <<chain, roster, wire, adding>>,
               \A v \in Workers \ {w} : pc'[v] = pc[v] /\ draft'[v] = draft[v],
               Busy(w)' => Host[w] \in Turn(chain[Host[w]], Len(chain[Host[w]])),
               pc'[w] \in {"training", "ready"} => draft'[w].index = Len(chain[Host[w]]),
               pc'[w] \in {"noop", "ready"} => draft'[w].prev = Tip(Host[w]).hash,
               pc'[w] = "ready" => draft'[w].miner = Host[w],
               pc'[w] # "publish"
        PROVE  SyncInv'
    <3>1. RostersAreFull' /\ NoFork' /\ HashLinked' /\ MinersInTurn' /\ OwnBlocksAreHeld' /\ WireIsHeld'
          /\ AddingFits'
      BY <2>a DEF RostersAreFull, NoFork, HashLinked, MinersInTurn, OwnBlocksAreHeld, WireIsHeld,
        AddingFits, Idle
    <3>2. BusyInTurn'
      BY <2>a DEF BusyInTurn, Busy
    <3>3. DraftsFitTheTip'
      BY <2>a DEF DraftsFitTheTip, Tip
    <3> QED
      BY <3>1, <3>2, <3>3
  <2>b. ASSUME UNCHANGED <<chain, roster, pc, draft>>, WireIsHeld', AddingFits' PROVE SyncInv'
    BY <2>b DEF RostersAreFull, NoFork, HashLinked, MinersInTurn, OwnBlocksAreHeld,
      BusyInTurn, Busy, DraftsFitTheTip, Tip
  <2>1. ASSUME NEW w \in Workers, StartMining(w) PROVE SyncInv'
    <3>1. roster' = roster
      <4>1. roster' = [roster EXCEPT ![Host[w]] = roster[Host[w]] \cup {Host[w]}]
        BY <2>1 DEF StartMining
      <4> QED
        BY <2>h, <4>1 DEF RostersAreFull
    <3> QED
      BY <2>1, <2>a, <3>1 DEF StartMining, Goto, Busy, TypeOK
  <2>2. ASSUME NEW w \in Workers, CheckFlag(w) PROVE SyncInv'
    BY <2>2, <2>a DEF CheckFlag, Goto, Busy, TypeOK, nodeVars
  <2>3. ASSUME NEW w \in Workers, BeginRound(w) PROVE SyncInv'
    <3>1. roster' = roster
      <4>1. roster' = [roster EXCEPT ![Host[w]] = roster[Host[w]] \cup {Host[w]}]
        BY <2>3 DEF BeginRound
      <4> QED
        BY <2>h, <4>1 DEF RostersAreFull
    <3>2. MayPropose(Host[w]) => Host[w] \in Turn(chain[Host[w]], Len(chain[Host[w]]))
      BY <2>h, TheLotteryIsTheTurn
    <3>3. \/ MayPropose(Host[w]) /\ pc' = [pc EXCEPT ![w] = "selected"]
          \/ pc' = [pc EXCEPT ![w] = "check"]
      BY <2>3 DEF BeginRound, Goto
    <3>4. \/ MayPropose(Host[w]) /\ pc'[w] = "selected"
          \/ pc'[w] = "check"
      BY <3>3 DEF TypeOK
    <3>5. \A v \in Workers \ {w} : pc'[v] = pc[v]
      BY <3>3 DEF TypeOK
    <3>6. UNCHANGED <<chain, wire, draft, adding>>
      BY <2>3 DEF BeginRound
    <3> QED
      BY <2>a, <3>1, <3>2, <3>4, <3>5, <3>6 DEF Busy
  <2>t. \A w \in Workers : Busy(w) => Host[w] \in Turn(chain[Host[w]], Len(chain[Host[w]]))
    BY DEF BusyInTurn
  <2>4. ASSUME NEW w \in Workers, BeginTraining(w) PROVE SyncInv'
    BY <2>4, <2>a, <2>t DEF BeginTraining, Goto, Busy, TypeOK, nodeVars, Sketch, NextIndex
  <2>5. ASSUME NEW w \in Workers, FailTraining(w) PROVE SyncInv'
    BY <2>5, <2>a, <2>t DEF FailTraining, Goto, Busy, TypeOK, nodeVars
  <2>6. ASSUME NEW w \in Workers, FinishTraining(w) PROVE SyncInv'
    <3>1. draft[w].index = Len(chain[Host[w]])
      BY <2>6 DEF FinishTraining, Goto, DraftsFitTheTip
    <3> QED
      BY <2>6, <2>a, <2>t, <3>1 DEF FinishTraining, Seal, Sketch, Goto, Busy, TypeOK, nodeVars
  <2>7. ASSUME NEW w \in Workers, BeginNoop(w) PROVE SyncInv'
    BY <2>7, <2>a, <2>t DEF BeginNoop, Goto, Busy, TypeOK, nodeVars, Sketch
  <2>8. ASSUME NEW w \in Workers, FinishNoop(w) PROVE SyncInv'
    <3>1. draft[w].prev = Tip(Host[w]).hash
      BY <2>8 DEF FinishNoop, Goto, DraftsFitTheTip
    <3> QED
      BY <2>8, <2>a, <2>t, <3>1 DEF FinishNoop, Seal, Sketch, NextIndex, Goto, Busy, TypeOK, nodeVars
  <2>c. ASSUME NEW n \in Nodes, \A m \in Nodes \ {n} : chain'[m] = chain[m],
               \A m \in Nodes : \A p \in DOMAIN chain[m] :
                 p \in DOMAIN chain'[m] /\ chain'[m][p] = chain[m][p],
               UNCHANGED draft,
               \A v \in Workers : Host[v] # n => pc'[v] = pc[v],
               \A v \in Workers : Host[v] = n => ~Busy(v)',
               \A v \in Workers : pc'[v] = "publish" =>
                 \/ pc[v] = "publish"
                 \/ \E p \in DOMAIN chain'[Host[v]] : chain'[Host[v]][p] = draft[v]
        PROVE  BusyInTurn' /\ DraftsFitTheTip'
    <3>1. BusyInTurn'
      BY <2>c, <2>h DEF BusyInTurn, Busy
    <3>2. DraftsFitTheTip'
      <4> SUFFICES ASSUME NEW v \in Workers
          PROVE  /\ pc'[v] \in {"training", "ready"} => draft'[v].index = Len(chain'[Host[v]])
                 /\ pc'[v] \in {"noop", "ready"} => draft'[v].prev = Tip(Host[v])'.hash
                 /\ pc'[v] = "ready" => draft'[v].miner = Host[v]
                 /\ pc'[v] = "publish" => \E p \in DOMAIN chain'[Host[v]] : chain'[Host[v]][p] = draft'[v]
        BY DEF DraftsFitTheTip
      <4>1. CASE Host[v] = n
        <5>1. pc'[v] \notin {"training", "noop", "ready"}
          BY <2>c, <4>1 DEF Busy
        <5> QED
          BY <2>c, <2>h, <5>1 DEF DraftsFitTheTip
      <4>2. CASE Host[v] # n
        <5>1. chain'[Host[v]] = chain[Host[v]] /\ pc'[v] = pc[v] /\ draft'[v] = draft[v]
          BY <2>c, <2>h, <4>2
        <5>2. Tip(Host[v])' = Tip(Host[v])
          BY <5>1 DEF Tip
        <5> QED
          BY <5>1, <5>2 DEF DraftsFitTheTip
      <4> QED
        BY <4>1, <4>2
    <3> QED
      BY <3>1, <3>2
  <2>9. ASSUME NEW w \in Workers, AppendOwn(w) PROVE SyncInv'
    <3> DEFINE n == Host[w]
    <3>1. /\ n \in Nodes /\ draft[w] \in Block /\ Extend(n, draft[w]) /\ pc[w] = "ready"
          /\ UNCHANGED <<wire, draft, adding>> /\ pc' = [pc EXCEPT ![w] = "publish"]
      BY <2>9, <2>h DEF AppendOwn, Goto, TypeOK
    <3>2. /\ draft[w].index = Len(chain[n]) /\ draft[w].prev = Tip(n).hash /\ draft[w].miner = n
          /\ n \in Turn(chain[n], Len(chain[n])) /\ Busy(w)
      BY <3>1, <2>t DEF DraftsFitTheTip, Busy
    <3>3. \A m \in Nodes : ~(Len(chain[n]) < Len(chain[m]))
      BY <3>1, <3>2, BusyHoldsTheLongest, ChainShape
    <3>4. /\ RostersAreFull' /\ NoFork' /\ HashLinked' /\ MinersInTurn' /\ OwnBlocksAreHeld'
          /\ \A m \in Nodes : \A p \in DOMAIN chain[m] :
               p \in DOMAIN chain'[m] /\ chain'[m][p] = chain[m][p]
          /\ Len(chain[n]) + 1 \in DOMAIN chain'[n] /\ chain'[n][Len(chain[n]) + 1] = draft[w]
      BY <3>1, <3>2, <3>3, ExtendKeepsOneLog
    <3>5. WireIsHeld'
      BY <3>1, <3>4 DEF WireIsHeld
    <3>6. \A m \in Nodes \ {n} : chain'[m] = chain[m]
      BY <3>1, ExtendShape
    <3>7. \A v \in Workers : v # w => pc'[v] = pc[v] /\ Host[v] # n
      BY <3>1 DEF Synchronised, TypeOK
    <3>8. pc'[w] = "publish" /\ ~Busy(w)'
      BY <3>1 DEF Busy, TypeOK
    <3>9. BusyInTurn' /\ DraftsFitTheTip'
      BY <3>1, <3>4, <3>6, <3>7, <3>8, <2>c
    <3>10. Idle(n)
      BY <3>1, <3>3, GossipBringsTheNext DEF AddingFits
    <3>11. AddingFits'
      BY <3>1, <3>6, <3>10 DEF AddingFits, Idle
    <3> QED
      BY <3>4, <3>5, <3>9, <3>11
  <2>10. ASSUME NEW w \in Workers, Publish(w) PROVE SyncInv'
    <3>1. /\ pc[w] = "publish" /\ pc' = [pc EXCEPT ![w] = "check"]
          /\ draft' = [draft EXCEPT ![w] = NoDraft]
          /\ \A b \in wire' : b \in wire \/ b = draft[w]
          /\ wire \subseteq wire' /\ UNCHANGED <<chain, roster, adding>>
      BY <2>10 DEF Publish, Goto, nodeVars
    <3>2. \E p \in DOMAIN chain[Host[w]] : chain[Host[w]][p] = draft[w]
      BY <3>1 DEF DraftsFitTheTip
    <3>3. WireIsHeld'
      BY <2>h, <3>1, <3>2 DEF WireIsHeld
    <3>4. \A v \in Workers : v # w => pc'[v] = pc[v] /\ draft'[v] = draft[v]
      BY <3>1 DEF TypeOK
    <3>5. pc'[w] = "check"
      BY <3>1 DEF TypeOK
    <3>6. BusyInTurn' /\ DraftsFitTheTip'
      BY <3>1, <3>4, <3>5 DEF BusyInTurn, Busy, DraftsFitTheTip, Tip
    <3> QED
      BY <3>1, <3>3, <3>6 DEF RostersAreFull, NoFork, HashLinked, MinersInTurn, OwnBlocksAreHeld,
        AddingFits, Idle
  <2>11. ASSUME NEW n \in Nodes, StopMining(n) PROVE SyncInv'
    BY <2>11 DEF StopMining, Synchronised, TypeOK
  <2>12. ASSUME NEW n \in Nodes, Restart(n) PROVE SyncInv'
    BY <2>12 DEF Restart, Synchronised, TypeOK
  <2>13. ASSUME NEW n \in Nodes, NEW b \in wire, ReceiveNext(n, b) PROVE SyncInv'
    <3>1. /\ UNCHANGED <<chain, roster, pc, draft, wire>> /\ b.index = Len(chain[n])
          /\ adding'[n] = b /\ \A m \in Nodes \ {n} : adding'[m] = adding[m]
      BY <2>13 DEF ReceiveNext, IsNext, TypeOK, nodeVars, workerVars
    <3> QED
      BY <2>b, <3>1 DEF AddingFits, Idle, WireIsHeld
  <2>17. ASSUME NEW n \in Nodes, AppendReceived(n) PROVE SyncInv'
    <3> DEFINE L == Len(chain[n])
               b == adding[n]
    <3>0. b \in wire /\ b.index = L
      BY <2>17 DEF AppendReceived, AddingFits
    <3>1. /\ b \in Block /\ Extend(n, b) /\ UNCHANGED <<wire, draft, pc>>
          /\ adding'[n] = Nothing /\ \A m \in Nodes \ {n} : adding'[m] = adding[m]
      BY <2>17, <3>0 DEF AppendReceived, workerVars, TypeOK
    <3> HIDE DEF b
    <3>2. L \in Nat \ {0}
      BY ChainShape
    <3>3. PICK k \in Nodes : L < Len(chain[k]) /\ L + 1 \in DOMAIN chain[k] /\ chain[k][L + 1] = b
      BY <3>0, GossipBringsTheNext
    <3>4. L + 1 \in DOMAIN chain[k] /\ chain[k][L + 1] = b
      BY <3>3
    <3>5. L < Len(chain[k]) /\ Len(chain[k]) \in Nat /\ DOMAIN chain[k] = 1 .. Len(chain[k])
      BY <3>2, <3>4, ChainShape
    <3>6. \A m \in Nodes : L < Len(chain[m]) => chain[m][L + 1] = b
      <4> SUFFICES ASSUME NEW m \in Nodes, L < Len(chain[m]) PROVE chain[m][L + 1] = b
        OBVIOUS
      <4>1. L + 1 \in DOMAIN chain[m]
        BY <3>2, ChainShape
      <4> QED
        BY <3>4, <4>1 DEF NoFork
    <3>7. b.miner \in Turn(chain[n], L)
      <4>1. chain[k][L + 1].miner \in Turn(chain[k], L)
        BY <3>2, <3>4 DEF MinersInTurn
      <4>2. \A q \in 1 .. L : chain[k][q] = chain[n][q]
        BY <3>2, <3>5, ChainShape DEF NoFork
      <4> QED
        BY <3>2, <3>4, <4>1, <4>2, TurnIsLocal
    <3>8. b.prev = Tip(n).hash
      <4>1. b.prev = chain[k][L].hash
        <5>1. L + 1 > 1 /\ (L + 1) - 1 = L
          BY <3>2
        <5>2. chain[k][L + 1].prev = chain[k][(L + 1) - 1].hash
          BY <3>4, <5>1 DEF HashLinked
        <5> QED
          BY <3>4, <5>1, <5>2
      <4>2. chain[k][L] = chain[n][L]
        BY <3>2, <3>5, ChainShape DEF NoFork
      <4> QED
        BY <4>1, <4>2, ChainShape
    <3>9. L < Len(chain[b.miner])
      <4>1. b.miner \in Nodes
        BY <3>7 DEF Turn
      <4>2. L + 1 <= Len(chain[b.miner])
        BY <3>4, <4>1 DEF OwnBlocksAreHeld
      <4> QED
        BY <3>2, <4>1, <4>2, ChainShape
    <3>10. /\ RostersAreFull' /\ NoFork' /\ HashLinked' /\ MinersInTurn' /\ OwnBlocksAreHeld'
           /\ \A m \in Nodes : \A p \in DOMAIN chain[m] :
                p \in DOMAIN chain'[m] /\ chain'[m][p] = chain[m][p]
      BY <3>0, <3>1, <3>6, <3>7, <3>8, <3>9, ExtendKeepsOneLog
    <3>11. WireIsHeld'
      BY <3>1, <3>10 DEF WireIsHeld
    <3>12. \A v \in Workers : Host[v] = n => ~Busy(v)
      BY <3>2, <3>5, BusyHoldsTheLongest
    <3>13. \A m \in Nodes \ {n} : chain'[m] = chain[m]
      BY <3>1, ExtendShape
    <3>14. \A v \in Workers : Host[v] = n => ~Busy(v)'
      BY <3>1, <3>12 DEF Busy
    <3>15. BusyInTurn' /\ DraftsFitTheTip'
      BY <3>1, <3>10, <3>13, <3>14, <2>c
    <3>16. AddingFits'
      BY <3>1, <3>13 DEF AddingFits, Idle
    <3> QED
      BY <3>10, <3>11, <3>15, <3>16
  <2>14. ASSUME NEW n \in Nodes, NEW b \in wire, ReceiveConflict(n, b) PROVE SyncInv'
    BY <2>14, <2>b DEF ReceiveConflict, workerVars, WireIsHeld, AddingFits, Idle
  <2>15. ASSUME NEW n \in Nodes, NEW m \in Nodes, AnswerDigest(m, n) PROVE SyncInv'
    <3>1. /\ UNCHANGED <<chain, roster, pc, draft, adding>> /\ wire \subseteq wire'
          /\ \A b \in wire' : b \in wire \/ \E p \in DOMAIN chain[m] : chain[m][p] = b
      BY <2>15 DEF AnswerDigest, After, nodeVars, workerVars
    <3>2. WireIsHeld' /\ AddingFits'
      BY <3>1 DEF WireIsHeld, AddingFits, Idle
    <3> QED
      BY <2>b, <3>1, <3>2
  <2>16. CASE UNCHANGED vars
    BY <2>16, <2>b DEF vars, WireIsHeld, AddingFits, Idle
  <2> QED
    BY <2>1, <2>2, <2>3, <2>4, <2>5, <2>6, <2>7, <2>8, <2>9, <2>10, <2>11, <2>12,
       <2>13, <2>14, <2>15, <2>16, <2>17 DEF Next, Round, Gossip
<1> QED
  BY <1>1, <1>2, TypeCorrect, PTL DEF Spec

\* One proposer per tip and one agreed log: with the whole roster known, one
\* thread per node and no stop or restart, the gossip layer may lose, repeat
\* and reorder blocks and no two nodes ever disagree about a height, every block
\* names its position and its parent, and only one thread can extend a tip
\* (expected_training_leader, mine_block, add_message).
THEOREM SynchronisedSafe ==
  ASSUME Synchronised
  PROVE  Spec => [](NoFork /\ HashLinked /\ OneProposerPerTip)
<1>1. SyncInv => NoFork /\ HashLinked /\ OneProposerPerTip
  <2> SUFFICES ASSUME SyncInv PROVE OneProposerPerTip
    BY DEF SyncInv
  <2> SUFFICES ASSUME NEW v \in Workers, NEW w \in Workers, Busy(v), Busy(w),
                      chain[Host[v]] = chain[Host[w]]
               PROVE  v = w
    BY DEF OneProposerPerTip, Busy
  <2>1. Host[v] = Host[w]
    BY TurnIsUnique DEF SyncInv, BusyInTurn
  <2> QED
    BY <2>1 DEF Synchronised
<1> QED
  BY <1>1, SyncInvariant, PTL

-----------------------------------------------------------------------------
(* What catching up and taking turns rely on, state by state: the liveness   *)
(* of the chain itself needs fairness and stays with TLC.                    *)

\* Whoever is behind is sent the block it takes next by any peer that is ahead.
DigestsHelp ==
  \A n, m \in Nodes : Len(chain[n]) < Len(chain[m]) =>
    \E b \in After(chain[m], Tip(n).hash) : IsNext(n, b)

\* SHA256 of the last hashes, modulo the number of candidates, is a candidate's place.
DrawsACandidate ==
  \A miner \in Nodes \cup {GenesisMiner}, hash \in Nat : Draw(Nodes, miner, hash) \in Nodes

\* On each chain that some node holds it is one node's turn, and all holders agree whose.
OneMayPropose ==
  \A n \in Nodes : \E k \in Nodes : \A m \in Nodes :
    chain[m] = chain[n] => (MayPropose(m) <=> m = k)

\* A node that fell behind, whatever messages it lost, needs no more than one
\* answered digest to grow: the peer's block for its height is among those after its
\* tip, and add_message accepts it (gossip_object, add_message).
THEOREM DigestsBringTheNext ==
  ASSUME Synchronised
  PROVE  Spec => []DigestsHelp
<1>1. SyncInv /\ NoBlockTwice => DigestsHelp
  <2> SUFFICES ASSUME SyncInv, NoBlockTwice, NEW n \in Nodes, NEW m \in Nodes,
                      Len(chain[n]) < Len(chain[m])
               PROVE  \E b \in After(chain[m], Tip(n).hash) : IsNext(n, b)
    BY DEF DigestsHelp
  <2> DEFINE L == Len(chain[n])
             b == chain[m][L + 1]
  <2>1. /\ L \in Nat \ {0} /\ L + 1 \in DOMAIN chain[m]
        /\ DOMAIN chain[n] = 1 .. L /\ DOMAIN chain[m] = 1 .. Len(chain[m])
        /\ Len(chain[m]) \in Nat /\ Tip(n) = chain[n][L]
    BY ChainShape DEF SyncInv
  <2>2. \A p \in 1 .. L : chain[n][p] = chain[m][p] /\ p \in DOMAIN chain[m]
    BY <2>1 DEF SyncInv, NoFork
  <2>3. \A p, q \in DOMAIN chain[m] : chain[m][p].hash = chain[m][q].hash => p = q
    BY DEF NoBlockTwice
  <2>4. b.index = L
    BY <2>1 DEF SyncInv, HashLinked
  <2>5. ~Knows(n, b.hash)
    <3> SUFFICES ASSUME NEW p \in 1 .. L, chain[n][p].hash = b.hash PROVE FALSE
      BY <2>1 DEF Knows
    <3>1. chain[m][p].hash = chain[m][L + 1].hash /\ p \in DOMAIN chain[m]
      BY <2>2
    <3>2. p = L + 1
      BY <2>1, <2>3, <3>1
    <3> QED
      BY <2>1, <3>2
  <2>6. b \in After(chain[m], Tip(n).hash)
    <3>1. \A r \in DOMAIN chain[m] : chain[m][r].hash = Tip(n).hash => r < L + 1
      <4> SUFFICES ASSUME NEW r \in DOMAIN chain[m], chain[m][r].hash = Tip(n).hash
                   PROVE  r < L + 1
        OBVIOUS
      <4>1. L \in DOMAIN chain[m] /\ chain[m][L].hash = Tip(n).hash
        BY <2>1, <2>2
      <4>2. r = L
        BY <2>3, <4>1
      <4> QED
        BY <2>1, <4>2
    <3> QED
      BY <2>1, <3>1 DEF After
  <2> QED
    BY <2>4, <2>5, <2>6 DEF IsNext
<1> QED
  BY <1>1, SyncInvariant, GossipSafe, PTL

\* The lottery neither leaves a tip without a proposer nor gives it two, and nobody
\* has to be asked whose turn it is (training_leader_candidates,
\* expected_training_leader).
THEOREM EveryTipHasAProposer ==
  ASSUME Synchronised, DrawsACandidate
  PROVE  Spec => []OneMayPropose
<1>1. SyncInv => OneMayPropose
  <2> SUFFICES ASSUME SyncInv, NEW n \in Nodes
               PROVE  \E k \in Nodes : \A m \in Nodes :
                        chain[m] = chain[n] => (MayPropose(m) <=> m = k)
    BY DEF OneMayPropose
  <2> DEFINE h == IF Len(chain[n]) >= 2 THEN chain[n][Len(chain[n]) - 1].hash ELSE chain[n][1].hash
             k == IF Nodes = {n} THEN n ELSE Draw(Nodes, Tip(n).miner, h)
  <2>1. k \in Nodes
    <3>1. /\ Len(chain[n]) \in Nat \ {0} /\ Tip(n) = chain[n][Len(chain[n])]
          /\ \A p \in 1 .. Len(chain[n]) : chain[n][p] \in Block
      BY ChainShape DEF SyncInv
    <3>2. \A p \in 1 .. Len(chain[n]) : /\ chain[n][p].hash \in Nat
                                       /\ chain[n][p].miner \in Nodes \cup {GenesisMiner}
      BY <3>1 DEF Block
    <3>3. Tip(n).miner \in Nodes \cup {GenesisMiner}
      BY <3>1, <3>2
    <3>4. h \in Nat
      BY <3>1, <3>2
    <3> HIDE DEF h
    <3>5. Draw(Nodes, Tip(n).miner, h) \in Nodes
      BY <3>3, <3>4 DEF DrawsACandidate
    <3> QED
      BY <3>5
  <2>2. ASSUME NEW m \in Nodes, chain[m] = chain[n]
        PROVE  MayPropose(m) <=> m = k
    <3>1. Candidates(m) = Nodes
      BY AllAreCandidates DEF SyncInv
    <3>2. Tip(m) = Tip(n)
      BY <2>2 DEF Tip
    <3>3. ExpectedLeader(m) = IF Nodes = {m} THEN {} ELSE {Draw(Nodes, Tip(n).miner, h)}
      BY <2>2, <3>1, <3>2 DEF ExpectedLeader
    <3> HIDE DEF h
    <3>4. Nodes = {m} => Nodes = {n}
      OBVIOUS
    <3>5. Nodes = {n} => m = n
      OBVIOUS
    <3> QED
      BY <3>3, <3>4, <3>5 DEF MayPropose
  <2> HIDE DEF k
  <2> QED
    BY <2>1, <2>2
<1> QED
  BY <1>1, SyncInvariant, PTL

-----------------------------------------------------------------------------
(* The refinement of AgreedLog: the log is the longest chain of the network, *)
(* which the miner that is about to extend it always holds.                  *)

SomeoneIsLongest == \E n \in Nodes : \A m \in Nodes : Len(chain[m]) <= Len(chain[n])

\* Appending to a sequence keeps it as a prefix.
LEMMA PrefixOfAppend ==
  ASSUME NEW S, NEW s \in Seq(S), NEW e \in S
  PROVE  SubSeq(Append(s, e), 1, Len(s)) = s
OBVIOUS

\* Chains that agree wherever both have a block have one longest among them.
LEMMA TheLongestIsOne ==
  ASSUME NEW c \in [Nodes -> Seq(Block)],
         \A n, m \in Nodes : \A p \in DOMAIN c[n] \cap DOMAIN c[m] : c[n][p] = c[m][p],
         NEW n \in Nodes, \A m \in Nodes : Len(c[m]) <= Len(c[n])
  PROVE  c[CHOOSE k \in Nodes : \A m \in Nodes : Len(c[m]) <= Len(c[k])] = c[n]
<1> DEFINE k == CHOOSE i \in Nodes : \A m \in Nodes : Len(c[m]) <= Len(c[i])
<1>1. k \in Nodes /\ \A m \in Nodes : Len(c[m]) <= Len(c[k])
  OBVIOUS
<1> HIDE DEF k
<1>2. c[k] \in Seq(Block) /\ c[n] \in Seq(Block)
  BY <1>1
<1>3. Len(c[k]) = Len(c[n])
  BY <1>1, <1>2
<1>4. \A p \in 1 .. Len(c[n]) : c[k][p] = c[n][p]
  BY <1>1, <1>2, <1>3
<1>5. c[k] = c[n]
  BY <1>2, <1>3, <1>4
<1> QED
  BY <1>5 DEF k

\* Without restarts a chain changes in two places of the code only.
LEMMA OnlyAppendsMoveChains ==
  ASSUME Synchronised, TypeOK, [Next]_vars
  PROVE  \/ UNCHANGED chain
         \/ \E w \in Workers : AppendOwn(w)
         \/ \E n \in Nodes : AppendReceived(n)
<1>1. \A n \in Nodes : ~Restart(n)
  BY DEF Restart, Synchronised, TypeOK
<1>2. ASSUME NEW w \in Workers, StartMining(w) \/ Round(w), ~AppendOwn(w)
      PROVE  UNCHANGED chain
  BY <1>2 DEF StartMining, Round, CheckFlag, BeginRound, BeginTraining, FailTraining,
    FinishTraining, BeginNoop, FinishNoop, Publish, nodeVars
<1>3. ASSUME NEW n \in Nodes, StopMining(n) \/ Gossip(n), ~AppendReceived(n)
      PROVE  UNCHANGED chain
  BY <1>3 DEF StopMining, Gossip, ReceiveNext, ReceiveConflict, AnswerDigest, nodeVars
<1>4. UNCHANGED vars => UNCHANGED chain
  BY DEF vars
<1> QED
  BY <1>1, <1>2, <1>3, <1>4 DEF Next

\* Some chain is always a longest one, however many nodes there are.
LEMMA LongestExists ==
  ASSUME Synchronised, Nodes # {}
  PROVE  Spec => []SomeoneIsLongest
<1>1. Init => SomeoneIsLongest
  BY SingletonShape DEF Init, SomeoneIsLongest
<1>2. SomeoneIsLongest /\ TypeOK /\ [Next]_vars => SomeoneIsLongest'
  <2> SUFFICES ASSUME SomeoneIsLongest, TypeOK, [Next]_vars PROVE SomeoneIsLongest'
    OBVIOUS
  <2>1. PICK k \in Nodes : \A m \in Nodes : Len(chain[m]) <= Len(chain[k])
    BY DEF SomeoneIsLongest
  <2>2. CASE UNCHANGED chain
    BY <2>2 DEF SomeoneIsLongest
  <2>3. ASSUME NEW n \in Nodes, NEW b \in Block, Extend(n, b) PROVE SomeoneIsLongest'
    <3>1. /\ Len(chain'[n]) = Len(chain[n]) + 1
          /\ \A m \in Nodes \ {n} : chain'[m] = chain[m]
          /\ \A m \in Nodes : Len(chain[m]) \in Nat /\ Len(chain'[m]) \in Nat
      BY <2>3, ExtendShape
    <3>2. CASE Len(chain[n]) < Len(chain[k])
      <4>1. \A m \in Nodes : Len(chain'[m]) <= Len(chain'[k])
        BY <2>1, <3>1, <3>2
      <4> QED
        BY <4>1 DEF SomeoneIsLongest
    <3>3. CASE Len(chain[n]) = Len(chain[k])
      <4>1. \A m \in Nodes : Len(chain'[m]) <= Len(chain'[n])
        BY <2>1, <3>1, <3>3
      <4> QED
        BY <4>1 DEF SomeoneIsLongest
    <3> QED
      BY <2>1, <3>1, <3>2, <3>3
  <2>4. ASSUME NEW w \in Workers, AppendOwn(w) PROVE SomeoneIsLongest'
    <3>1. Host[w] \in Nodes /\ draft[w] \in Block /\ Extend(Host[w], draft[w])
      BY <2>4, ChainConstants DEF AppendOwn, TypeOK
    <3> QED
      BY <2>3, <3>1
  <2>5. ASSUME NEW n \in Nodes, AppendReceived(n) PROVE SomeoneIsLongest'
    BY <2>3, <2>5 DEF AppendReceived, TypeOK
  <2> QED
    BY <2>2, <2>4, <2>5, OnlyAppendsMoveChains
<1> QED
  BY <1>1, <1>2, TypeCorrect, PTL DEF Spec

\* A node that extends the longest chain is one that proposes, a node that
\* extends a shorter one learns: the step of the refinement.
LEMMA ExtendIsAgreed ==
  ASSUME SyncInv, SyncInv', SomeoneIsLongest, NEW n \in Nodes, NEW b \in Block, Extend(n, b),
         \/ /\ \A m \in Nodes : Len(chain[m]) <= Len(chain[n])
            /\ b.miner = n
         \/ \E k \in Nodes : Len(chain[n]) < Len(chain[k])
  PROVE  Agreed!Next
<1> DEFINE L == Len(chain[n])
<1>1. /\ L \in Nat /\ L > 0 /\ Len(chain'[n]) = L + 1 /\ chain'[n][L + 1] = b
      /\ \A m \in Nodes \ {n} : chain'[m] = chain[m]
      /\ \A m \in Nodes : Len(chain[m]) \in Nat /\ Len(chain'[m]) \in Nat
  BY ExtendShape DEF SyncInv
<1>2. chain \in [Nodes -> Seq(Block)] /\ chain' \in [Nodes -> Seq(Block)]
  BY DEF SyncInv, TypeOK
<1>3. ASSUME NEW k \in Nodes, \A m \in Nodes : Len(chain[m]) <= Len(chain[k])
      PROVE  Longest = chain[k]
  BY <1>2, <1>3, TheLongestIsOne DEF SyncInv, NoFork, Longest
<1>4. ASSUME NEW k \in Nodes, \A m \in Nodes : Len(chain'[m]) <= Len(chain'[k])
      PROVE  Longest' = chain'[k]
  <2>1. \A i, m \in Nodes : \A p \in DOMAIN chain'[i] \cap DOMAIN chain'[m] :
          chain'[i][p] = chain'[m][p]
    BY DEF SyncInv, NoFork
  <2> QED
    BY <1>2, <1>4, <2>1, TheLongestIsOne DEF Longest
<1>5. chain'[n] = Append(chain[n], b) /\ chain' = [chain EXCEPT ![n] = Append(@, b)]
  BY <1>2 DEF Extend
<1>6. CASE (\A m \in Nodes : Len(chain[m]) <= L) /\ b.miner = n
  <2>1. Longest = chain[n]
    BY <1>3, <1>6
  <2>2. Longest' = chain'[n]
    <3>1. \A m \in Nodes : Len(chain'[m]) <= Len(chain'[n])
      BY <1>1, <1>6
    <3> QED
      BY <1>4, <3>1
  <2>3. SubSeq(Longest', 1, Len(Longest)) = Longest
    <3>1. chain[n] \in Seq(Block)
      BY <1>2
    <3> QED
      BY <1>5, <2>1, <2>2, <3>1, PrefixOfAppend
  <2>4. b.index = L /\ b.prev = chain[n][L].hash
    <3>1. L + 1 \in DOMAIN chain'[n] /\ L + 1 > 1 /\ (L + 1) - 1 = L
      <4>1. DOMAIN chain'[n] = 1 .. Len(chain'[n])
        BY <1>2
      <4> QED
        BY <1>1, <4>1
    <3>2. /\ chain'[n][L + 1].index = (L + 1) - 1
          /\ chain'[n][L + 1].prev = chain'[n][(L + 1) - 1].hash
      BY <3>1 DEF SyncInv, HashLinked
    <3>3. chain'[n][L] = chain[n][L]
      BY <1>1, ExtendShape DEF SyncInv
    <3> QED
      BY <1>1, <3>1, <3>2, <3>3
  <2>5. Agreed!Propose(n)
    BY <1>1, <1>5, <1>6, <2>1, <2>2, <2>3, <2>4 DEF Agreed!Propose, Agreed!Links
  <2> QED
    BY <2>5 DEF Agreed!Next
<1>7. CASE \E k \in Nodes : L < Len(chain[k])
  <2>1. PICK k \in Nodes : \A m \in Nodes : Len(chain[m]) <= Len(chain[k])
    BY DEF SomeoneIsLongest
  <2>2. L < Len(chain[k]) /\ k # n
    BY <1>1, <1>7, <2>1
  <2>3. chain'[k] = chain[k]
    BY <1>1, <2>2
  <2>4. Longest = chain[k]
    BY <1>3, <2>1
  <2>5. Longest' = chain'[k]
    <3>1. \A m \in Nodes : Len(chain'[m]) <= Len(chain'[k])
      BY <1>1, <2>1, <2>2, <2>3
    <3> QED
      BY <1>4, <3>1
  <2>6. b = chain[k][L + 1]
    <3>1. L + 1 \in DOMAIN chain'[n] \cap DOMAIN chain'[k]
      <4>1. DOMAIN chain'[n] = 1 .. Len(chain'[n]) /\ DOMAIN chain'[k] = 1 .. Len(chain'[k])
        BY <1>2
      <4> QED
        BY <1>1, <2>2, <2>3, <4>1
    <3>2. chain'[n][L + 1] = chain'[k][L + 1]
      BY <3>1 DEF SyncInv, NoFork
    <3> QED
      BY <1>1, <2>3, <3>2
  <2>7. Agreed!Learn(n)
    BY <1>5, <2>2, <2>3, <2>4, <2>5, <2>6 DEF Agreed!Learn
  <2> QED
    BY <2>7 DEF Agreed!Next
<1> QED
  BY <1>6, <1>7

\* The replicated chains implement one agreed log: what mine_block appends is
\* the next block of the longest chain, what add_message appends is a copy of it.
THEOREM SynchronisedImplementsAgreedLog ==
  ASSUME Synchronised, Nodes # {}
  PROVE  Spec => ImplementsAgreedLog
<1>1. Init => Agreed!Init
  <2> SUFFICES ASSUME Init PROVE Agreed!Init
    OBVIOUS
  <2>1. chain = [n \in Nodes |-> <<Genesis>>]
    BY DEF Init
  <2>2. (CHOOSE n \in Nodes : \A m \in Nodes : Len(chain[m]) <= Len(chain[n])) \in Nodes
    <3>1. \E n \in Nodes : \A m \in Nodes : Len(chain[m]) <= Len(chain[n])
      BY <2>1, SingletonShape
    <3> QED
      BY <3>1
  <2>3. Longest = <<Genesis>>
    BY <2>1, <2>2 DEF Longest
  <2> QED
    BY <2>1, <2>3 DEF Agreed!Init
<1>2. SyncInv /\ SyncInv' /\ SomeoneIsLongest /\ [Next]_vars => [Agreed!Next]_(Agreed!vars)
  <2> SUFFICES ASSUME SyncInv, SyncInv', SomeoneIsLongest, [Next]_vars
               PROVE  Agreed!Next \/ UNCHANGED Agreed!vars
    OBVIOUS
  <2>1. CASE UNCHANGED chain
    BY <2>1 DEF Agreed!vars, Longest
  <2>2. ASSUME NEW w \in Workers, AppendOwn(w) PROVE Agreed!Next
    <3>1. /\ Host[w] \in Nodes /\ draft[w] \in Block /\ Extend(Host[w], draft[w])
          /\ pc[w] = "ready" /\ draft[w].miner = Host[w]
      BY <2>2, ChainConstants DEF AppendOwn, Goto, SyncInv, TypeOK, DraftsFitTheTip
    <3>2. \A m \in Nodes : Len(chain[m]) <= Len(chain[Host[w]])
      BY <3>1, BusyHoldsTheLongest DEF Busy
    <3> QED
      BY <3>1, <3>2, ExtendIsAgreed
  <2>3. ASSUME NEW n \in Nodes, AppendReceived(n) PROVE Agreed!Next
    <3> DEFINE b == adding[n]
    <3>1. b \in wire /\ b \in Block /\ Extend(n, b) /\ b.index = Len(chain[n])
      BY <2>3 DEF AppendReceived, SyncInv, AddingFits, TypeOK
    <3>2. \E k \in Nodes : Len(chain[n]) < Len(chain[k])
      BY <3>1, GossipBringsTheNext
    <3> QED
      BY <3>1, <3>2, ExtendIsAgreed
  <2> QED
    BY <2>1, <2>2, <2>3, OnlyAppendsMoveChains DEF SyncInv
<1> QED
  BY <1>1, <1>2, SyncInvariant, LongestExists, PTL DEF Spec, ImplementsAgreedLog, Agreed!Spec
=============================================================================
