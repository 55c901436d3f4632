------------------------- MODULE PogoFinalityProofs -------------------------
(***************************************************************************)
(* Proofs about finalisation and slashing, for any addresses, models,      *)
(* blocks, thresholds, windows, penalties and bounds.                      *)
(***************************************************************************)
EXTENDS PogoFinalityProps, SumTheorems

LEMMA ConstantTypes ==
  /\ IsFiniteSet(Blocks) /\ IsFiniteSet(Addresses)
  /\ Local \subseteq Blocks /\ Genesis \notin Blocks /\ None \notin Blocks /\ Noop \notin Models
  /\ Miner \in [Blocks -> Addresses] /\ Steps \in [Blocks -> Nat]
  /\ LockWindow \in Nat /\ Phase1 \in Nat /\ Phase2 \in Nat /\ Phase1 + Phase2 <= LockWindow
  /\ FlatPenalty \in Nat /\ Reward \in Nat /\ Pots \subseteq Nat /\ Stakes \subseteq [Addresses -> Nat]
  /\ Penalty \in [Reasons -> 0 .. 100] /\ Penalty["invalid"] + Penalty["negative"] <= 100
BY FinalityConstants

-----------------------------------------------------------------------------
(* The training lock                                                        *)

Chained ==
  chain \in Seq(Blocks \cup {Genesis}) /\ Len(chain) > 0 /\ index \in [Blocks -> Nat]

\* The lock keeps a second training of the model of b away from it.
Guards(b, c) == Model[b] = Model[c] /\ Model[b] # Noop /\ Steps[b] > 0

\* b was appended before the round of c began, and had left its window by then.
Earlier(b, c) ==
  /\ b \in tracked \ drafts
  /\ index[c] # 0 => index[b] < index[c]
  /\ Guards(b, c) => (IF index[c] = 0 THEN Len(chain) ELSE index[c]) - index[b] > Phase1 + Phase2

\* Of any two blocks of this node, one was begun beside or after the other.
Related(b, c) ==
  b # c => <<b, c>> \in beside \/ <<c, b>> \in beside \/ Earlier(b, c) \/ Earlier(c, b)

\* What this node built is on its chain, below its end, once it is appended.
LockInv ==
  /\ Chained
  /\ tracked \subseteq Local /\ drafts \subseteq Local
  /\ arriving \in Blocks \cup {None}
  /\ \A b \in Local : index[b] <= Len(chain) /\ (index[b] # 0 => b \in tracked \cup drafts)
  /\ \A b \in tracked : index[b] > 0
  /\ \A b \in tracked \ drafts : index[b] < Len(chain) /\ OnChain(b)
  /\ \A b, c \in tracked \cup drafts : Related(b, c)

LEMMA InitLock ==
  ASSUME Init
  PROVE  LockInv
<1>1. /\ chain = <<Genesis>> /\ index = [b \in Blocks |-> 0] /\ drafts = {} /\ tracked = {}
      /\ arriving = None
  BY DEF Init
<1>2. chain \in Seq(Blocks \cup {Genesis}) /\ Len(chain) = 1
  BY <1>1
<1>3. \A b \in Local : index[b] = 0
  BY <1>1, ConstantTypes
<1> QED
  BY <1>1, <1>2, <1>3 DEF LockInv, Chained

\* A longer chain holds what the shorter one held.
LEMMA ChainLonger ==
  ASSUME Chained, chain' = chain \/ (\E b \in Blocks : chain' = Append(chain, b))
  PROVE  /\ chain' \in Seq(Blocks \cup {Genesis})
         /\ Len(chain) \in Nat /\ Len(chain') \in Nat /\ Len(chain') >= Len(chain) /\ Len(chain') > 0
         /\ \A b : OnChain(b) => OnChain(b)'
<1>1. chain \in Seq(Blocks \cup {Genesis}) /\ Len(chain) \in Nat /\ Len(chain) > 0
  BY DEF Chained
<1>2. CASE chain' = chain
  BY <1>1, <1>2 DEF OnChain
<1>3. CASE \E b \in Blocks : chain' = Append(chain, b)
  <2>1. PICK b \in Blocks : chain' = Append(chain, b)
    BY <1>3
  <2>2. /\ chain' \in Seq(Blocks \cup {Genesis}) /\ Len(chain') = Len(chain) + 1
        /\ \A i \in DOMAIN chain : i \in DOMAIN chain' /\ chain'[i] = chain[i]
    BY <1>1, <2>1
  <2> QED
    BY <1>1, <2>2 DEF OnChain
<1> QED
  BY <1>2, <1>3

\* Who came earlier stays so while the chain grows and no height is changed.
LEMMA EarlierStays ==
  ASSUME LockInv, NEW b \in Local, NEW c \in Local, Earlier(b, c),
         chain' = chain \/ (\E d \in Blocks : chain' = Append(chain, d)),
         index'[b] = index[b], index'[c] = index[c], b \in tracked' \ drafts'
  PROVE  Earlier(b, c)'
<1>1. /\ Len(chain) \in Nat /\ Len(chain') \in Nat /\ Len(chain') >= Len(chain)
      /\ index[b] \in Nat /\ index[c] \in Nat /\ Phase1 + Phase2 \in Nat
  BY ConstantTypes, ChainLonger DEF LockInv, Chained
<1>2. /\ index[c] # 0 => index[b] < index[c]
      /\ Guards(b, c) => (IF index[c] = 0 THEN Len(chain) ELSE index[c]) - index[b] > Phase1 + Phase2
  BY DEF Earlier
<1>3. Guards(b, c) => (IF index'[c] = 0 THEN Len(chain') ELSE index'[c]) - index'[b] > Phase1 + Phase2
  <2>1. CASE index[c] = 0
    BY <1>1, <1>2, <2>1
  <2>2. CASE index[c] # 0
    BY <1>1, <1>2, <2>2
  <2> QED
    BY <2>1, <2>2
<1>4. index'[c] # 0 => index'[b] < index'[c]
  BY <1>2
<1>5. Guards(b, c)' => Guards(b, c)
  BY DEF Guards
<1> QED
  BY <1>3, <1>4, <1>5 DEF Earlier

\* Steps that leave the blocks of this node alone, and may append to the chain.
LEMMA ChainGrows ==
  ASSUME LockInv, UNCHANGED <<tracked, drafts, beside>>, arriving' \in Blocks \cup {None},
         chain' = chain \/ (\E b \in Blocks : chain' = Append(chain, b)),
         index' \in [Blocks -> Nat], \A b \in Local : index'[b] = index[b]
  PROVE  LockInv'
<1>1. /\ chain' \in Seq(Blocks \cup {Genesis}) /\ Len(chain) \in Nat /\ Len(chain') \in Nat
      /\ Len(chain') >= Len(chain) /\ Len(chain') > 0
      /\ \A b : OnChain(b) => OnChain(b)'
  BY ChainLonger DEF LockInv
<1>2. \A b \in Local : b \in Blocks /\ index[b] \in Nat
  BY ConstantTypes DEF LockInv, Chained
<1>3. ASSUME NEW b \in tracked' \cup drafts', NEW c \in tracked' \cup drafts'
      PROVE  Related(b, c)'
  <2>1. b \in Local /\ c \in Local /\ Related(b, c)
    BY DEF LockInv
  <2>2. Earlier(b, c) => Earlier(b, c)'
    BY <2>1, EarlierStays DEF Earlier
  <2>3. Earlier(c, b) => Earlier(c, b)'
    BY <2>1, EarlierStays DEF Earlier
  <2> QED
    BY <2>1, <2>2, <2>3 DEF Related
<1>4. \A b \in Local : index'[b] <= Len(chain') /\ (index'[b] # 0 => b \in tracked' \cup drafts')
  BY <1>1, <1>2 DEF LockInv
<1>5. \A b \in tracked' \ drafts' : index'[b] < Len(chain') /\ OnChain(b)'
  BY <1>1, <1>2 DEF LockInv
<1>6. \A b \in tracked' : index'[b] > 0
  BY DEF LockInv
<1>7. Chained' /\ tracked' \subseteq Local /\ drafts' \subseteq Local
  BY <1>1 DEF LockInv, Chained
<1> QED
  BY <1>3, <1>4, <1>5, <1>6, <1>7 DEF LockInv

\* A round begins when every appended block of its model has left its window.
LEMMA BeginKeepsLock ==
  ASSUME LockInv, NEW d \in Local, BeginBlock(d)
  PROVE  LockInv'
<1>1. /\ d \notin drafts /\ index[d] = 0 /\ ~Locked(Model[d]) /\ drafts' = drafts \cup {d}
      /\ beside' = beside \cup {<<b, d>> : b \in drafts}
      /\ UNCHANGED <<chain, index, tracked, arriving>>
  BY DEF BeginBlock
<1>2. /\ Len(chain) \in Nat /\ d \notin tracked
      /\ \A b \in Local : b \in Blocks /\ index[b] \in Nat
  BY <1>1, ConstantTypes DEF LockInv, Chained
<1>3. ASSUME NEW b \in tracked \ drafts
      PROVE  Earlier(b, d)'
  <2>1. index[b] < Len(chain) /\ index[b] \in Nat /\ OnChain(b)
    BY <1>2 DEF LockInv
  <2>2. ASSUME Guards(b, d)
        PROVE  Len(chain) - index[b] > Phase1 + Phase2
    <3>1. Len(chain) - 1 - index[b] \notin 0 .. LockWindow
      BY <1>1, <2>1, <2>2 DEF Locked, Guards
    <3> QED
      BY <1>2, <2>1, <3>1, ConstantTypes
  <2>3. Guards(b, d)' => Guards(b, d)
    BY DEF Guards
  <2> QED
    BY <1>1, <1>2, <2>2, <2>3 DEF Earlier
<1>4. \A b, c \in (tracked \cup drafts) : Related(b, c)'
  <2> SUFFICES ASSUME NEW b \in tracked \cup drafts, NEW c \in tracked \cup drafts
               PROVE  Related(b, c)'
    OBVIOUS
  <2>1. b \in Local /\ c \in Local /\ Related(b, c) /\ b # d /\ c # d
    BY <1>1, <1>2 DEF LockInv
  <2>2. Earlier(b, c) => Earlier(b, c)'
    BY <1>1, <2>1, EarlierStays DEF Earlier
  <2>3. Earlier(c, b) => Earlier(c, b)'
    BY <1>1, <2>1, EarlierStays DEF Earlier
  <2> QED
    BY <1>1, <2>1, <2>2, <2>3 DEF Related
<1>5. \A b \in (tracked \cup drafts) : Related(b, d)' /\ Related(d, b)'
  <2> SUFFICES ASSUME NEW b \in tracked \cup drafts
               PROVE  <<b, d>> \in beside' \/ Earlier(b, d)'
    BY DEF Related
  <2>1. CASE b \in drafts
    BY <1>1, <2>1
  <2>2. CASE b \in tracked \ drafts
    BY <1>3, <2>2
  <2> QED
    BY <2>1, <2>2
<1>6. \A b, c \in (tracked' \cup drafts') : Related(b, c)'
  <2>1. Related(d, d)'
    BY DEF Related
  <2> QED
    BY <1>1, <1>4, <1>5, <2>1
<1>7. \A b \in tracked' \ drafts' : index'[b] < Len(chain') /\ OnChain(b)'
  BY <1>1 DEF LockInv, OnChain
<1>8. \A b \in Local : index'[b] <= Len(chain') /\ (index'[b] # 0 => b \in tracked' \cup drafts')
  BY <1>1 DEF LockInv
<1>9. /\ Chained' /\ tracked' \subseteq Local /\ drafts' \subseteq Local
      /\ arriving' \in Blocks \cup {None} /\ \A b \in tracked' : index'[b] > 0
  BY <1>1 DEF LockInv, Chained
<1> QED
  BY <1>6, <1>7, <1>8, <1>9 DEF LockInv

\* The height is read later than the lock, when the chain is no shorter.
LEMMA HeightKeepsLock ==
  ASSUME LockInv, NEW d \in Local, TakeHeight(d)
  PROVE  LockInv'
<1>1. /\ d \in drafts /\ index[d] = 0 /\ index' = [index EXCEPT ![d] = Len(chain)]
      /\ UNCHANGED <<chain, tracked, drafts, arriving, beside>>
  BY DEF TakeHeight
<1>2. /\ Len(chain) \in Nat /\ Len(chain) > 0 /\ d \notin tracked
      /\ \A b \in Local : b \in Blocks /\ index[b] \in Nat
  BY <1>1, ConstantTypes DEF LockInv, Chained
<1>3. \A b \in Local : index'[b] = IF b = d THEN Len(chain) ELSE index[b]
  BY <1>1, <1>2 DEF LockInv, Chained
<1>4. ASSUME NEW b \in Local, NEW c \in Local, Earlier(b, c)
      PROVE  Earlier(b, c)'
  <2>1. b # d /\ b \in tracked \ drafts
    BY <1>2, <1>4 DEF Earlier
  <2>2. CASE c = d
    <3>1. index'[c] = Len(chain) /\ index'[b] = index[b] /\ index[b] < Len(chain)
      BY <1>3, <2>1, <2>2 DEF LockInv
    <3>2. Guards(b, c) => Len(chain) - index[b] > Phase1 + Phase2
      BY <1>1, <1>4, <2>2 DEF Earlier
    <3>3. Guards(b, c)' => Guards(b, c)
      BY DEF Guards
    <3> QED
      BY <1>1, <1>2, <2>1, <3>1, <3>2, <3>3 DEF Earlier
  <2>3. CASE c # d
    BY <1>1, <1>3, <1>4, <2>1, <2>3, EarlierStays
  <2> QED
    BY <2>2, <2>3
<1>5. \A b, c \in tracked' \cup drafts' : Related(b, c)'
  BY <1>1, <1>4 DEF LockInv, Related
<1>6. index' \in [Blocks -> Nat]
  BY <1>1, <1>2 DEF LockInv, Chained
<1>7. \A b \in tracked' \ drafts' : index'[b] < Len(chain') /\ OnChain(b)'
  <2>1. \A b \in tracked \ drafts : b # d /\ b \in Local /\ OnChain(b)
    BY <1>1 DEF LockInv
  <2> QED
    BY <1>1, <1>3, <2>1 DEF LockInv, OnChain
<1>8. \A b \in Local : index'[b] <= Len(chain') /\ (index'[b] # 0 => b \in tracked' \cup drafts')
  BY <1>1, <1>2, <1>3 DEF LockInv
<1>9. \A b \in tracked' : index'[b] > 0
  BY <1>1, <1>2, <1>3 DEF LockInv
<1>10. Chained' /\ tracked' \subseteq Local /\ drafts' \subseteq Local /\ arriving' \in Blocks \cup {None}
  BY <1>1, <1>6 DEF LockInv, Chained
<1> QED
  BY <1>5, <1>7, <1>8, <1>9, <1>10 DEF LockInv

\* A block is recorded and appended, wherever the chain ends by then.
LEMMA FinishKeepsLock ==
  ASSUME LockInv, NEW d \in Local, FinishBlock(d)
  PROVE  LockInv'
<1>1. /\ d \in drafts /\ index[d] # 0 /\ drafts' = drafts \ {d} /\ tracked' = tracked \cup {d}
      /\ chain' = Append(chain, d) /\ UNCHANGED <<index, arriving, beside>>
  BY DEF FinishBlock
<1>2. /\ Len(chain) \in Nat /\ d \in Blocks /\ chain \in Seq(Blocks \cup {Genesis})
      /\ \A b \in Local : b \in Blocks /\ index[b] \in Nat /\ index[b] <= Len(chain)
  BY ConstantTypes DEF LockInv, Chained
<1>3. /\ chain' \in Seq(Blocks \cup {Genesis}) /\ Len(chain') = Len(chain) + 1
      /\ \A b : OnChain(b) => OnChain(b)'
      /\ Len(chain') \in DOMAIN chain' /\ chain'[Len(chain')] = d
  BY <1>1, <1>2, ChainLonger DEF LockInv
<1>4. OnChain(d)'
  BY <1>3 DEF OnChain
<1>5. ASSUME NEW b \in Local, NEW c \in Local, Earlier(b, c)
      PROVE  Earlier(b, c)'
  <2>1. b \in tracked' \ drafts'
    BY <1>1, <1>5 DEF Earlier
  <2> QED
    BY <1>1, <1>2, <1>5, <2>1, EarlierStays
<1>6. \A b, c \in tracked' \cup drafts' : Related(b, c)'
  BY <1>1, <1>5 DEF LockInv, Related
<1>7. \A b \in tracked' \ drafts' : index'[b] < Len(chain') /\ OnChain(b)'
  <2>1. \A b \in tracked' \ drafts' : b \in Local /\ (b = d \/ b \in tracked \ drafts)
    BY <1>1 DEF LockInv
  <2> QED
    BY <1>1, <1>2, <1>3, <1>4, <2>1 DEF LockInv
<1>8. \A b \in Local : index'[b] <= Len(chain') /\ (index'[b] # 0 => b \in tracked' \cup drafts')
  BY <1>1, <1>2, <1>3 DEF LockInv
<1>9. \A b \in tracked' : index'[b] > 0
  BY <1>1, <1>2 DEF LockInv
<1>10. Chained' /\ tracked' \subseteq Local /\ drafts' \subseteq Local /\ arriving' \in Blocks \cup {None}
  BY <1>1, <1>2, <1>3 DEF LockInv, Chained
<1> QED
  BY <1>6, <1>7, <1>8, <1>9, <1>10 DEF LockInv

LEMMA NextKeepsLock == LockInv /\ [Next]_vars => LockInv'
<1> SUFFICES ASSUME LockInv, [Next]_vars
             PROVE  LockInv'
  OBVIOUS
<1> USE ConstantTypes
<1>1. CASE Mining
  BY <1>1, BeginKeepsLock, HeightKeepsLock, FinishKeepsLock DEF Mining
<1>2. CASE \E b \in Blocks : \E h \in 1 .. Cardinality(Blocks) : PeerMines(b, h)
  <2>1. PICK b \in Blocks, h \in 1 .. Cardinality(Blocks) : PeerMines(b, h)
    BY <1>2
  <2>2. /\ h \in Nat /\ b \notin Local /\ index' = [index EXCEPT ![b] = h]
        /\ UNCHANGED <<chain, drafts, tracked, beside, arriving>>
    BY <2>1 DEF PeerMines
  <2>3. index' \in [Blocks -> Nat] /\ \A c \in Local : index'[c] = index[c]
    BY <2>2 DEF LockInv, Chained
  <2>4. arriving' \in Blocks \cup {None}
    BY <2>2 DEF LockInv
  <2> QED
    BY <2>2, <2>3, <2>4, ChainGrows
<1>3. CASE \/ \E b \in Blocks : Receive(b) \/ ReceiveConflict(b)
           \/ AppendReceived \/ Operators \/ Tick \/ UNCHANGED vars
  <2>1. /\ UNCHANGED <<index, drafts, tracked, beside>> /\ arriving' \in Blocks \cup {None}
        /\ chain' = chain \/ (\E b \in Blocks : chain' = Append(chain, b))
    <3>1. CASE AppendReceived
      BY <3>1 DEF AppendReceived, LockInv
    <3>2. CASE \E b \in Blocks : Receive(b)
      BY <3>2 DEF Receive
    <3>3. CASE Operators
      BY <3>3 DEF Operators, SubmitAttestation, Finalize, VetoBlock, SlashMiner,
                  SubmitPhaseVote, blockVars, LockInv
    <3>4. CASE (\E b \in Blocks : ReceiveConflict(b)) \/ Tick \/ UNCHANGED vars
      BY <3>4 DEF ReceiveConflict, Tick, vars, blockVars, LockInv
    <3> QED
      BY <1>3, <3>1, <3>2, <3>3, <3>4
  <2>2. index' \in [Blocks -> Nat]
    BY <2>1 DEF LockInv, Chained
  <2> QED
    BY <2>1, <2>2, ChainGrows
<1> QED
  BY <1>1, <1>2, <1>3 DEF Next, Peers

(* While a block of this node is in its verification phases, no round of    *)
(* the node trains its model again, unless that round and the block's own   *)
(* were under way at once: the lock is looked at when a round begins, it    *)
(* sees every block appended by then, and heights only grow afterwards.     *)
THEOREM AuditedHeadSafe == Spec => []AuditedHeadIsSingle
<1>1. LockInv => AuditedHeadIsSingle
  <2> SUFFICES ASSUME LockInv, NEW b \in tracked, NEW c \in tracked,
                      b # c, Model[b] = Model[c], Model[b] # Noop, Steps[b] > 0, index[b] <= index[c],
                      <<b, c>> \notin beside, <<c, b>> \notin beside
               PROVE  CurrentPhase(index[c], index[b]) = "finalization"
    BY DEF AuditedHeadIsSingle
  <2>1. /\ index[b] \in Nat /\ index[c] \in Nat /\ index[b] > 0 /\ index[c] > 0
    BY ConstantTypes DEF LockInv, Chained
  <2>2. Earlier(b, c) \/ Earlier(c, b)
    BY DEF LockInv, Related
  <2>3. ~Earlier(c, b)
    BY <2>1 DEF Earlier
  <2>4. index[c] - index[b] > Phase1 + Phase2
    BY <2>1, <2>2, <2>3 DEF Earlier, Guards
  <2>5. index[c] - index[b] \in Int /\ index[c] - index[b] > Phase1 /\ index[c] - index[b] # 0
    BY <2>1, <2>4, ConstantTypes
  <2> QED
    BY <2>4, <2>5, ConstantTypes DEF CurrentPhase
<1>2. Init => LockInv
  BY InitLock
<1> QED
  BY <1>1, <1>2, NextKeepsLock, PTL DEF Spec

-----------------------------------------------------------------------------
(* Penalties                                                                *)

\* The numbers a penalty is reckoned from.
MoneyInv ==
  /\ stake \in [Addresses -> Nat] /\ liquid \in [Addresses -> Nat]
  /\ forgone \in [Addresses -> Nat] /\ pot \in Nat
  /\ pending \in [Blocks -> Tallies]

\* Two percentages that together make no more than a hundred, each rounded down.
LEMMA TwoShares ==
  ASSUME NEW s \in Nat, NEW p \in 0 .. 100, NEW q \in 0 .. 100, p + q <= 100
  PROVE  /\ (p * s) \div 100 \in Nat /\ (q * s) \div 100 \in Nat
         /\ (p * s) \div 100 + (q * s) \div 100 <= s
<1> DEFINE x == p * s
           y == q * s
           z == (p + q) * s
           rest == (100 - (p + q)) * s
<1>1. x \in Nat /\ y \in Nat /\ z \in Nat /\ rest \in Nat
  <2>1. p \in Nat /\ q \in Nat /\ p + q \in Nat /\ 100 - (p + q) \in Nat
    OBVIOUS
  <2> QED
    BY <2>1
<1>2. z = x + y
  OBVIOUS
<1>3. z + rest = 100 * s
  OBVIOUS
<1>4. x + y <= 100 * s
  <2> HIDE DEF x, y, z, rest
  <2> QED
    BY <1>1, <1>2, <1>3
<1> HIDE DEF x, y
<1>5. x \div 100 \in Nat /\ y \div 100 \in Nat /\ (x \div 100) * 100 <= x /\ (y \div 100) * 100 <= y
  BY <1>1
<1>6. x \div 100 + y \div 100 <= s
  BY <1>1, <1>4, <1>5
<1> QED
  BY <1>5, <1>6 DEF x, y

Amounts == [Addresses -> Nat]

\* The events of an address never take more than its stake; what leaves the stake is
\* lost, and what is paid or missed is added.
LEMMA SlashShape ==
  ASSUME MoneyInv, NEW hit \in [Addresses -> SUBSET Reasons],
         NEW paid \in Amounts, NEW staked \in Amounts, NEW missed \in Amounts,
         \A a \in Addresses : hit[a] \subseteq {"invalid", "negative"} \/ hit[a] \subseteq {"double"},
         ApplySlashing(hit, paid, staked, missed)
  PROVE  /\ stake' \in Amounts /\ liquid' \in Amounts /\ forgone' \in Amounts
         /\ \A a \in Addresses :
              /\ liquid'[a] = liquid[a] + paid[a] /\ liquid'[a] >= liquid[a]
              /\ stake'[a] + forgone'[a] = stake[a] + forgone[a] + staked[a] + missed[a]
<1> DEFINE owed(a) == Sum([r \in Reasons |-> Amount(a, r)], hit[a])
<1>1. ASSUME NEW a \in Addresses
      PROVE  owed(a) \in Nat /\ owed(a) <= stake[a]
  <2>1. stake[a] \in Nat
    BY DEF MoneyInv
  <2>2. /\ Penalty["invalid"] \in 0 .. 100 /\ Penalty["negative"] \in 0 .. 100
        /\ Penalty["double"] \in 0 .. 100 /\ 0 \in 0 .. 100
    BY ConstantTypes DEF Reasons
  <2>3. /\ Amount(a, "invalid") \in Nat /\ Amount(a, "negative") \in Nat
        /\ Amount(a, "invalid") + Amount(a, "negative") <= stake[a]
    BY <2>1, <2>2, ConstantTypes, TwoShares DEF Amount
  <2>4. Amount(a, "double") \in Nat /\ Amount(a, "double") <= stake[a]
    <3>1. Penalty["double"] + 0 <= 100
      BY <2>2
    <3>2. /\ (Penalty["double"] * stake[a]) \div 100 \in Nat /\ (0 * stake[a]) \div 100 \in Nat
          /\ (Penalty["double"] * stake[a]) \div 100 + (0 * stake[a]) \div 100 <= stake[a]
      BY <2>1, <2>2, <3>1, TwoShares
    <3> QED
      BY <2>1, <3>2 DEF Amount
  <2>5. owed(a) = (IF "invalid" \in hit[a] THEN Amount(a, "invalid") ELSE 0)
                  + (IF "negative" \in hit[a] THEN Amount(a, "negative") ELSE 0)
                  + (IF "double" \in hit[a] THEN Amount(a, "double") ELSE 0)
    BY DEF Sum, Reasons
  <2> HIDE DEF owed
  <2>6. CASE hit[a] \subseteq {"invalid", "negative"}
    <3>1. "double" \notin hit[a]
      BY <2>6
    <3> QED
      BY <2>1, <2>3, <2>5, <3>1
  <2>7. CASE hit[a] \subseteq {"double"}
    <3>1. "invalid" \notin hit[a] /\ "negative" \notin hit[a]
      BY <2>7
    <3> QED
      BY <2>1, <2>4, <2>5, <3>1
  <2> QED
    BY <2>6, <2>7
<1>2. /\ stake' = [a \in Addresses |-> stake[a] - FromStake(a, owed(a)) + staked[a]]
      /\ liquid' = [a \in Addresses |-> liquid[a] - FromLiquid(a, owed(a)) + paid[a]]
      /\ forgone' = [a \in Addresses |->
           forgone[a] + FromStake(a, owed(a)) + FromLiquid(a, owed(a)) + missed[a]]
  BY DEF ApplySlashing
<1> HIDE DEF owed
<1>3. ASSUME NEW a \in Addresses
      PROVE  FromStake(a, owed(a)) = owed(a) /\ FromLiquid(a, owed(a)) = 0
  <2>1. stake[a] \in Nat /\ liquid[a] \in Nat
    BY DEF MoneyInv
  <2>2. FromStake(a, owed(a)) = owed(a)
    BY <1>1, <2>1 DEF FromStake, Smaller
  <2>3. owed(a) - FromStake(a, owed(a)) = 0
    BY <1>1, <2>2
  <2> QED
    BY <2>1, <2>2, <2>3 DEF FromLiquid, Smaller
<1>4. /\ stake' = [a \in Addresses |-> stake[a] - owed(a) + staked[a]]
      /\ liquid' = [a \in Addresses |-> liquid[a] - 0 + paid[a]]
      /\ forgone' = [a \in Addresses |-> forgone[a] + owed(a) + 0 + missed[a]]
  BY <1>2, <1>3
<1>5. ASSUME NEW a \in Addresses
      PROVE  /\ stake'[a] \in Nat /\ liquid'[a] \in Nat /\ forgone'[a] \in Nat
             /\ liquid'[a] = liquid[a] + paid[a] /\ liquid'[a] >= liquid[a]
             /\ stake'[a] + forgone'[a] = stake[a] + forgone[a] + staked[a] + missed[a]
  <2>1. /\ stake[a] \in Nat /\ liquid[a] \in Nat /\ forgone[a] \in Nat
        /\ paid[a] \in Nat /\ staked[a] \in Nat /\ missed[a] \in Nat
    BY DEF MoneyInv, Amounts
  <2>2. /\ stake'[a] = stake[a] - owed(a) + staked[a] /\ liquid'[a] = liquid[a] - 0 + paid[a]
        /\ forgone'[a] = forgone[a] + owed(a) + 0 + missed[a]
    BY <1>4
  <2> QED
    BY <1>1, <2>1, <2>2
<1>6. stake' \in Amounts /\ liquid' \in Amounts /\ forgone' \in Amounts
  BY <1>4, <1>5 DEF Amounts
<1> QED
  BY <1>5, <1>6

\* What SlashingStaysWithinStake asks of a step.
Within ==
  \A a \in Addresses : reputation'[a] # reputation[a] => liquid'[a] >= liquid[a]

LEMMA MoneyUntouched ==
  ASSUME MoneyInv, UNCHANGED <<stake, liquid, pot, reputation>>,
         forgone' \in [Addresses -> Nat], pending' \in [Blocks -> Tallies]
  PROVE  MoneyInv' /\ Within
BY DEF MoneyInv, Within

LEMMA TotalType ==
  ASSUME NEW pay \in Amounts
  PROVE  Total(pay) \in Nat
<1>1. \A a \in Addresses : pay[a] \in Nat
  BY DEF Amounts
<1> QED
  BY <1>1, ConstantTypes, SumNat DEF Total

LEMMA CastType ==
  ASSUME MoneyInv, NEW b \in Blocks, NEW a \in Addresses
  PROVE  Cast(pending[b], a) \in Nat
<1>1. pending[b][a]["positive"] \in Nat /\ pending[b][a]["negative"] \in Nat
  BY DEF MoneyInv, Tallies, Votes
<1> QED
  BY <1>1 DEF Cast

LEMMA NoVotesType == NoVotes \in Tallies
BY DEF NoVotes, Tallies

LEMMA ZeroType == Zero \in Amounts
BY DEF Zero, Amounts

\* What the senders of attestations earn, in whole rewards.
LEMMA EarnedType ==
  ASSUME MoneyInv, NEW b \in Blocks
  PROVE  /\ Earned(b) \in Amounts
         /\ \A a \in Addresses : Earned(b)[a] = Reward * Cast(pending[b], a)
<1>1. \A a \in Addresses : Cast(pending[b], a) \in Nat
  BY CastType
<1>2. ASSUME NEW a \in Addresses
      PROVE  Reward * Cast(pending[b], a) \in Nat
  <2> DEFINE n == Cast(pending[b], a)
  <2>1. n \in Nat /\ Reward \in Nat
    BY <1>1, ConstantTypes
  <2> HIDE DEF n
  <2>2. Reward * n \in Nat
    BY <2>1
  <2> QED
    BY <2>2 DEF n
<1> QED
  BY <1>2 DEF Earned, Amounts

\* Genesis pays at most what was earned and has something left or nothing.
LEMMA MintsType ==
  ASSUME MoneyInv, NEW b \in Blocks, NEW pay \in Mints(b)
  PROVE  /\ pay \in Amounts /\ pot - Total(pay) \in Nat
         /\ [a \in Addresses |-> Earned(b)[a] - pay[a]] \in Amounts
<1>1. /\ pay \in [Addresses -> 0 .. pot] /\ pot \in Nat
      /\ \A a \in Addresses : pay[a] <= Earned(b)[a]
      /\ Total(pay) = Smaller(pot, Total(Earned(b)))
  BY DEF Mints, MoneyInv
<1>2. Earned(b) \in Amounts
  BY EarnedType
<1>3. \A a \in Addresses : pay[a] \in Nat /\ Earned(b)[a] \in Nat /\ Earned(b)[a] - pay[a] \in Nat
  BY <1>1, <1>2 DEF Amounts
<1>4. Total(pay) \in Nat /\ Total(pay) <= pot
  <2> DEFINE t == Total(Earned(b))
  <2>1. t \in Nat
    BY <1>2, TotalType
  <2>2. Total(pay) = Smaller(pot, t)
    BY <1>1
  <2> HIDE DEF t
  <2> QED
    BY <1>1, <2>1, <2>2 DEF Smaller
<1> QED
  BY <1>1, <1>3, <1>4 DEF Amounts

LEMMA EquivocationKeepsMoney ==
  ASSUME MoneyInv, NEW x \in Addresses, NEW h, Equivocation(x, h), pending' = pending
  PROVE  MoneyInv' /\ Within
<1>0. pending' \in [Blocks -> Tallies] /\ forgone \in [Addresses -> Nat]
  BY DEF MoneyInv
<1>1. CASE <<x, h>> \in caught \/ ~MayPropose(x)
  <2>1. UNCHANGED <<stake, liquid, pot, reputation, forgone>>
    BY <1>1 DEF Equivocation, moneyVars
  <2> QED
    BY <1>0, <2>1, MoneyUntouched
<1>2. CASE <<x, h>> \notin caught /\ MayPropose(x)
  <2> DEFINE hit == [a \in Addresses |-> IF a = x THEN {"double"} ELSE {}]
  <2>1. ApplySlashing(hit, Zero, Zero, Zero) /\ pot' = pot
    BY <1>2 DEF Equivocation
  <2>2. hit \in [Addresses -> SUBSET Reasons]
    BY DEF Reasons
  <2>3. \A a \in Addresses : hit[a] \subseteq {"double"}
    OBVIOUS
  <2> HIDE DEF hit
  <2>4. /\ stake' \in Amounts /\ liquid' \in Amounts /\ forgone' \in Amounts
        /\ \A a \in Addresses : liquid'[a] >= liquid[a]
    BY <2>1, <2>2, <2>3, ZeroType, SlashShape
  <2> QED
    BY <1>0, <2>1, <2>4 DEF MoneyInv, Within, Amounts
<1> QED
  BY <1>1, <1>2

\* Penalties and rewards of a finalisation, liquid or staked.
LEMMA SettleShape ==
  ASSUME MoneyInv, NEW b \in Blocks, Settle(b)
  PROVE  /\ stake' \in Amounts /\ liquid' \in Amounts /\ forgone' \in Amounts /\ pot' \in Nat
         /\ \A a \in Addresses :
              /\ liquid'[a] >= liquid[a]
              /\ stake'[a] + liquid'[a] + forgone'[a]
                   = stake[a] + liquid[a] + forgone[a] + Earned(b)[a]
<1> DEFINE hit == Offences(b)
           full == Earned(b)
<1>1. hit \in [Addresses -> SUBSET Reasons] /\ \A a \in Addresses : hit[a] \subseteq {"invalid", "negative"}
  BY DEF Offences, Reasons
<1>2. full \in Amounts /\ Zero \in Amounts /\ \A a \in Addresses : Zero[a] = 0
  BY EarnedType, ZeroType DEF Zero
<1>3. \A a \in Addresses : stake[a] \in Nat /\ liquid[a] \in Nat /\ forgone[a] \in Nat /\ full[a] \in Nat
  BY <1>2 DEF MoneyInv, Amounts
<1>4. CASE ApplySlashing(hit, full, Zero, Zero) /\ pot' = pot
  <2> HIDE DEF hit, full
  <2>1. /\ stake' \in Amounts /\ liquid' \in Amounts /\ forgone' \in Amounts
        /\ \A a \in Addresses :
             /\ liquid'[a] = liquid[a] + full[a] /\ liquid'[a] >= liquid[a]
             /\ stake'[a] + forgone'[a] = stake[a] + forgone[a] + Zero[a] + Zero[a]
    BY <1>1, <1>2, <1>4, SlashShape
  <2>2. ASSUME NEW a \in Addresses
        PROVE  stake'[a] + liquid'[a] + forgone'[a] = stake[a] + liquid[a] + forgone[a] + full[a]
    <3>1. stake'[a] \in Nat /\ liquid'[a] \in Nat /\ forgone'[a] \in Nat
      BY <2>1 DEF Amounts
    <3> QED
      BY <1>2, <1>3, <2>1, <3>1
  <2>3. pot' \in Nat
    BY <1>4 DEF MoneyInv
  <2> QED
    BY <2>1, <2>2, <2>3 DEF full
<1>5. ASSUME NEW pay \in Mints(b),
             ApplySlashing(hit, Zero, pay, [a \in Addresses |-> full[a] - pay[a]]),
             pot' = pot - Total(pay)
      PROVE  /\ stake' \in Amounts /\ liquid' \in Amounts /\ forgone' \in Amounts /\ pot' \in Nat
             /\ \A a \in Addresses :
                  /\ liquid'[a] >= liquid[a]
                  /\ stake'[a] + liquid'[a] + forgone'[a]
                       = stake[a] + liquid[a] + forgone[a] + full[a]
  <2> DEFINE short == [a \in Addresses |-> full[a] - pay[a]]
  <2>1. pay \in Amounts /\ short \in Amounts /\ pot - Total(pay) \in Nat
    BY MintsType
  <2>2. \A a \in Addresses : short[a] = full[a] - pay[a]
    OBVIOUS
  <2>3. ApplySlashing(hit, Zero, pay, short)
    BY <1>5
  <2> HIDE DEF hit, full, short
  <2>4. /\ stake' \in Amounts /\ liquid' \in Amounts /\ forgone' \in Amounts
        /\ \A a \in Addresses :
             /\ liquid'[a] = liquid[a] + Zero[a] /\ liquid'[a] >= liquid[a]
             /\ stake'[a] + forgone'[a] = stake[a] + forgone[a] + pay[a] + short[a]
    BY <1>1, <1>2, <2>1, <2>3, SlashShape
  <2>5. ASSUME NEW a \in Addresses
        PROVE  stake'[a] + liquid'[a] + forgone'[a] = stake[a] + liquid[a] + forgone[a] + full[a]
    <3>1. stake'[a] \in Nat /\ liquid'[a] \in Nat /\ forgone'[a] \in Nat /\ pay[a] \in Nat
      BY <2>1, <2>4 DEF Amounts
    <3> QED
      BY <1>2, <1>3, <2>2, <2>4, <3>1
  <2>6. pot' \in Nat
    BY <1>5, <2>1
  <2> QED
    BY <2>4, <2>5, <2>6
<1> QED
  BY <1>4, <1>5 DEF Settle

LEMMA FinalizeKeepsMoney ==
  ASSUME MoneyInv, NEW b \in Blocks, Finalize(b)
  PROVE  MoneyInv' /\ Within
<1>1. Settle(b) /\ pending' = [pending EXCEPT ![b] = NoVotes]
  BY DEF Finalize
<1>2. /\ stake' \in Amounts /\ liquid' \in Amounts /\ forgone' \in Amounts /\ pot' \in Nat
      /\ \A a \in Addresses : liquid'[a] >= liquid[a]
  BY <1>1, SettleShape
<1>3. pending' \in [Blocks -> Tallies]
  BY <1>1, NoVotesType DEF MoneyInv
<1> QED
  BY <1>2, <1>3 DEF MoneyInv, Within, Amounts

\* A flat penalty reaches the liquid balance, and leaves the reputation alone.
LEMMA FlatPenaltyKeepsMoney ==
  ASSUME MoneyInv, NEW b \in Blocks, SlashMiner(b)
  PROVE  MoneyInv' /\ Within
<1> DEFINE a == Miner[b]
           x == FromStake(a, FlatPenalty)
           y == FromLiquid(a, FlatPenalty)
<1>1. a \in Addresses /\ stake[a] \in Nat /\ liquid[a] \in Nat /\ forgone[a] \in Nat /\ FlatPenalty \in Nat
  BY ConstantTypes DEF MoneyInv
<1>2. stake[a] - x \in Nat /\ liquid[a] - y \in Nat /\ forgone[a] + x + y \in Nat
  BY <1>1 DEF Smaller, FromStake, FromLiquid
<1>3. /\ stake' = [stake EXCEPT ![a] = @ - x] /\ liquid' = [liquid EXCEPT ![a] = @ - y]
      /\ forgone' = [forgone EXCEPT ![a] = @ + x + y]
      /\ reputation' = reputation /\ pending' = pending /\ pot' = pot
  BY DEF SlashMiner, voteVars
<1> HIDE DEF a, x, y
<1> QED
  BY <1>1, <1>2, <1>3 DEF MoneyInv, Within

LEMMA NextKeepsMoney == MoneyInv /\ [Next]_vars => MoneyInv' /\ Within
<1> SUFFICES ASSUME MoneyInv, [Next]_vars
             PROVE  MoneyInv' /\ Within
  OBVIOUS
<1>1. CASE \/ Mining \/ AppendReceived \/ Tick \/ UNCHANGED vars
           \/ \E b \in Blocks, h \in 1 .. Cardinality(Blocks) : PeerMines(b, h)
           \/ \E b \in Blocks : Receive(b) \/ SubmitPhaseVote(b)
  <2>1. UNCHANGED <<moneyVars, pending>>
    BY <1>1 DEF Mining, BeginBlock, TakeHeight, FinishBlock, AppendReceived, Tick, PeerMines, Receive,
                SubmitPhaseVote, vars, voteVars
  <2> QED
    BY <2>1, MoneyUntouched DEF MoneyInv, moneyVars
<1>2. CASE \E b \in Blocks : ReceiveConflict(b)
  <2>1. PICK b \in Blocks : ReceiveConflict(b)
    BY <1>2
  <2>2. pending' = pending /\ Miner[b] \in Addresses /\ Equivocation(Miner[b], index[b])
    BY <2>1, ConstantTypes DEF ReceiveConflict, voteVars
  <2> QED
    BY <2>2, EquivocationKeepsMoney
<1>3. CASE \E b \in Blocks, a \in Addresses, v \in Votes : SubmitAttestation(b, a, v)
  <2>1. PICK b \in Blocks, a \in Addresses, v \in Votes : SubmitAttestation(b, a, v)
    BY <1>3
  <2>2. UNCHANGED moneyVars /\ pending' = [pending EXCEPT ![b][a][v] = @ + 1]
    BY <2>1 DEF SubmitAttestation
  <2>3. pending' \in [Blocks -> Tallies]
    BY <2>2 DEF MoneyInv, Tallies
  <2> QED
    BY <2>2, <2>3, MoneyUntouched DEF MoneyInv, moneyVars
<1>4. CASE \E b \in Blocks : Finalize(b) \/ SlashMiner(b)
  BY <1>4, FinalizeKeepsMoney, FlatPenaltyKeepsMoney
<1>5. CASE \E b \in Blocks : VetoBlock(b)
  <2>1. PICK b \in Blocks : VetoBlock(b)
    BY <1>5
  <2>2. /\ UNCHANGED <<stake, liquid, pot, reputation>> /\ pending' = [pending EXCEPT ![b] = NoVotes]
        /\ forgone' = [a \in Addresses |-> forgone[a] + Earned(b)[a]]
    BY <2>1 DEF VetoBlock
  <2>3. pending' \in [Blocks -> Tallies]
    BY <2>2, NoVotesType DEF MoneyInv
  <2>4. forgone' \in [Addresses -> Nat]
    <3>1. \A a \in Addresses : forgone[a] \in Nat /\ Earned(b)[a] \in Nat
      BY EarnedType DEF MoneyInv, Amounts
    <3> QED
      BY <2>2, <3>1
  <2> QED
    BY <2>2, <2>3, <2>4, MoneyUntouched
<1> QED
  BY <1>1, <1>2, <1>3, <1>4, <1>5 DEF Next, Peers, Operators

(* Penalties that are a percentage of the stake are paid from the stake:    *)
(* an address found guilty of two things by one finalisation loses nothing  *)
(* of its liquid balance, although each amount is reckoned from the whole   *)
(* stake, because the two percentages together make no more than a hundred. *)
THEOREM SlashingSafe == Spec => SlashingStaysWithinStake
<1>1. Init => MoneyInv
  BY ConstantTypes, NoVotesType DEF Init, MoneyInv
<1>2. MoneyInv /\ [Next]_vars =>
        [\A a \in Addresses : reputation'[a] # reputation[a] => liquid'[a] >= liquid[a]]_vars
  BY NextKeepsMoney DEF Within
<1> QED
  BY <1>1, <1>2, NextKeepsMoney, PTL DEF Spec, SlashingStaysWithinStake
-----------------------------------------------------------------------------
(* Attestations                                                             *)

CountInv ==
  /\ MoneyInv
  /\ credit \in [Addresses -> Int]
  /\ AttestationsCountOnce

LEMMA AwaitingType ==
  ASSUME MoneyInv, NEW a \in Addresses
  PROVE  Awaiting(a) \in Int
<1> DEFINE f == [b \in Blocks |-> Cast(pending[b], a)]
<1>1. \A b \in Blocks : f[b] \in Int
  BY CastType
<1>2. SumFunctionOnSet(f, Blocks) \in Int
  <2> HIDE DEF f
  <2> QED
    BY <1>1, ConstantTypes, SumInt
<1> QED
  BY <1>2 DEF Awaiting

\* The tally of one block is replaced by another.
LEMMA TallyReplaced ==
  ASSUME MoneyInv, NEW a \in Addresses, NEW b \in Blocks, NEW t \in Tallies
  PROVE  pending' = [pending EXCEPT ![b] = t]
           => Awaiting(a)' = Awaiting(a) - Cast(pending[b], a) + Cast(t, a)
<1> DEFINE q == [pending EXCEPT ![b] = t]
           f == [c \in Blocks |-> Cast(pending[c], a)]
           g == [c \in Blocks |-> Cast(q[c], a)]
<1>1. \A c \in Blocks : f[c] \in Int
  BY CastType
<1>2. (\A c \in Blocks \ {b} : g[c] = f[c]) /\ g[b] = Cast(t, a) /\ f[b] = Cast(pending[b], a)
  BY DEF MoneyInv
<1>3. Cast(t, a) \in Int
  <2>1. t[a]["positive"] \in Nat /\ t[a]["negative"] \in Nat
    BY DEF Tallies, Votes
  <2> QED
    BY <2>1 DEF Cast
<1>4. SumFunctionOnSet(g, Blocks) = SumFunctionOnSet(f, Blocks) - f[b] + Cast(t, a)
  <2> HIDE DEF f, g
  <2> QED
    BY <1>1, <1>2, <1>3, ConstantTypes, SumUpdate
<1>5. pending' = q => Awaiting(a)' = SumFunctionOnSet(g, Blocks)
  BY DEF Awaiting
<1>6. Awaiting(a) = SumFunctionOnSet(f, Blocks)
  BY DEF Awaiting
<1> HIDE DEF f, g
<1> QED
  BY <1>2, <1>4, <1>5, <1>6

LEMMA NoVotesCast == ASSUME NEW a \in Addresses PROVE Cast(NoVotes, a) = 0
BY DEF Cast, NoVotes, Votes

LEMMA InitCounts == Init => CountInv
<1> SUFFICES ASSUME Init
             PROVE  CountInv
  OBVIOUS
<1>1. /\ MoneyInv /\ credit = stake /\ forgone = [a \in Addresses |-> 0]
      /\ liquid = [a \in Addresses |-> 0] /\ pending = [b \in Blocks |-> NoVotes]
  BY ConstantTypes, NoVotesType DEF Init, MoneyInv
<1>2. ASSUME NEW a \in Addresses
      PROVE  Awaiting(a) = 0
  <2> DEFINE f == [b \in Blocks |-> Cast(pending[b], a)]
  <2>1. \A b \in Blocks : f[b] = 0
    BY <1>1, NoVotesCast
  <2>2. SumFunctionOnSet(f, Blocks) = 0
    <3> HIDE DEF f
    <3> QED
      BY <2>1, ConstantTypes, SumZero
  <2> QED
    BY <2>2 DEF Awaiting
<1>3. ASSUME NEW a \in Addresses
      PROVE  credit[a] = Reward * Awaiting(a) + stake[a] + liquid[a] + forgone[a]
  <2>1. Reward * Awaiting(a) = 0
    BY <1>2, ConstantTypes
  <2>2. stake[a] \in Nat /\ credit[a] = stake[a] /\ liquid[a] = 0 /\ forgone[a] = 0
    BY <1>1 DEF MoneyInv
  <2> QED
    BY <2>1, <2>2
<1>4. credit \in [Addresses -> Int]
  BY <1>1 DEF MoneyInv
<1> QED
  BY <1>1, <1>3, <1>4 DEF CountInv, AttestationsCountOnce

\* The numbers of an address before and after a step.
LEMMA CountTypes ==
  ASSUME CountInv, MoneyInv', NEW a \in Addresses
  PROVE  /\ Reward \in Nat /\ Awaiting(a) \in Int /\ credit[a] \in Int
         /\ stake[a] \in Int /\ liquid[a] \in Int /\ forgone[a] \in Int
         /\ stake'[a] \in Int /\ liquid'[a] \in Int /\ forgone'[a] \in Int
         /\ credit[a] = Reward * Awaiting(a) + stake[a] + liquid[a] + forgone[a]
<1>1. MoneyInv
  BY DEF CountInv
<1> QED
  BY <1>1, AwaitingType, ConstantTypes DEF CountInv, MoneyInv, AttestationsCountOnce

\* Steps that move tokens between the stake, the liquid balance and what is lost.
LEMMA CountsUntouched ==
  ASSUME CountInv, MoneyInv', UNCHANGED <<pending, credit>>,
         \A a \in Addresses :
           stake'[a] + liquid'[a] + forgone'[a] = stake[a] + liquid[a] + forgone[a]
  PROVE  CountInv'
<1>1. ASSUME NEW a \in Addresses
      PROVE  credit'[a] = Reward * Awaiting(a)' + stake'[a] + liquid'[a] + forgone'[a]
  <2> DEFINE x == Reward * Awaiting(a)
  <2>1. Awaiting(a)' = Awaiting(a)
    BY DEF Awaiting
  <2>2. x \in Int
    <3>1. Reward \in Int /\ Awaiting(a) \in Int
      BY CountTypes
    <3> QED
      BY <3>1
  <2>3. Reward * Awaiting(a)' = x
    BY <2>1
  <2>4. /\ credit[a] = x + stake[a] + liquid[a] + forgone[a] /\ credit'[a] = credit[a]
        /\ stake[a] \in Int /\ liquid[a] \in Int /\ forgone[a] \in Int
        /\ stake'[a] \in Int /\ liquid'[a] \in Int /\ forgone'[a] \in Int
    BY CountTypes
  <2> HIDE DEF x
  <2>5. credit'[a] = x + stake'[a] + liquid'[a] + forgone'[a]
    BY <2>2, <2>4
  <2> QED
    BY <2>3, <2>5
<1> QED
  BY <1>1 DEF CountInv, AttestationsCountOnce

\* An attestation that is handed in is one more to decide upon.
LEMMA SubmitCounts ==
  ASSUME CountInv, MoneyInv', NEW b \in Blocks, NEW x \in Addresses, NEW v \in Votes,
         SubmitAttestation(b, x, v)
  PROVE  CountInv'
<1> DEFINE t == [pending[b] EXCEPT ![x][v] = @ + 1]
<1>1. pending[b] \in Tallies /\ MoneyInv
  BY DEF CountInv, MoneyInv
<1>2. t \in Tallies
  BY <1>1 DEF Tallies
<1>3. \A a \in Addresses : Cast(t, a) = Cast(pending[b], a) + (IF a = x THEN 1 ELSE 0)
  BY <1>1 DEF Tallies, Votes, Cast
<1>4. /\ pending' = [pending EXCEPT ![b] = t] /\ UNCHANGED <<stake, liquid, forgone>>
      /\ credit' = [credit EXCEPT ![x] = @ + Reward]
  BY DEF SubmitAttestation, moneyVars
<1> HIDE DEF t
<1>5. \A a \in Addresses : credit'[a] = credit[a] + (IF a = x THEN Reward ELSE 0)
  <2>1. \A a \in Addresses : credit[a] \in Int
    BY DEF CountInv
  <2> QED
    BY <1>4, <2>1 DEF CountInv
<1>6. credit' \in [Addresses -> Int]
  BY <1>4, ConstantTypes DEF CountInv
<1>7. ASSUME NEW a \in Addresses
      PROVE  credit'[a] = Reward * Awaiting(a)' + stake'[a] + liquid'[a] + forgone'[a]
  <2> DEFINE n == Awaiting(a)
             m == Awaiting(a)'
             p == Reward * n
             q == Reward * m
  <2>0. Awaiting(a)' = Awaiting(a) - Cast(pending[b], a) + Cast(t, a)
    BY <1>1, <1>2, <1>4, TallyReplaced
  <2>1. m = n - Cast(pending[b], a) + Cast(t, a) /\ Cast(pending[b], a) \in Int
    BY <1>1, <2>0, CastType
  <2>2. n \in Int /\ Reward \in Int
    BY CountTypes
  <2>3. /\ credit[a] = p + stake[a] + liquid[a] + forgone[a]
        /\ stake[a] \in Int /\ liquid[a] \in Int /\ forgone[a] \in Int
    BY CountTypes
  <2>4. /\ stake'[a] = stake[a] /\ liquid'[a] = liquid[a] /\ forgone'[a] = forgone[a]
        /\ credit'[a] = credit[a] + (IF a = x THEN Reward ELSE 0)
        /\ Cast(t, a) = Cast(pending[b], a) + (IF a = x THEN 1 ELSE 0)
    BY <1>3, <1>4, <1>5
  <2> HIDE DEF n, m
  <2>5. m = n + (IF a = x THEN 1 ELSE 0)
    BY <2>1, <2>2, <2>4
  <2>6. q = p + (IF a = x THEN Reward ELSE 0) /\ p \in Int
    BY <2>2, <2>5
  <2> HIDE DEF p, q
  <2>7. credit'[a] = q + stake'[a] + liquid'[a] + forgone'[a]
    BY <2>2, <2>3, <2>4, <2>6
  <2> QED
    BY <2>7 DEF q, m
<1> QED
  BY <1>6, <1>7 DEF CountInv, AttestationsCountOnce

LEMMA Carried ==
  ASSUME NEW c \in Int, NEW p \in Int, NEW e \in Int, NEW s \in Int, NEW l \in Int, NEW f \in Int,
         NEW s1 \in Int, NEW l1 \in Int, NEW f1 \in Int,
         c = p + s + l + f, s1 + l1 + f1 = s + l + f + e
  PROVE  c = p - e + s1 + l1 + f1
OBVIOUS

\* The attestations of a block leave the tally at once: their rewards are paid or forgone.
LEMMA DecisionCounts ==
  ASSUME CountInv, MoneyInv', NEW b \in Blocks,
         pending' = [pending EXCEPT ![b] = NoVotes], credit' = credit,
         \A a \in Addresses :
           stake'[a] + liquid'[a] + forgone'[a] = stake[a] + liquid[a] + forgone[a] + Earned(b)[a]
  PROVE  CountInv'
<1>1. MoneyInv
  BY DEF CountInv
<1>2. ASSUME NEW a \in Addresses
      PROVE  credit'[a] = Reward * Awaiting(a)' + stake'[a] + liquid'[a] + forgone'[a]
  <2> DEFINE n == Awaiting(a)
             m == Awaiting(a)'
             k == Cast(pending[b], a)
             p == Reward * n
             q == Reward * m
             e == Reward * k
  <2>0. Awaiting(a)' = Awaiting(a) - Cast(pending[b], a) + Cast(NoVotes, a)
    BY <1>1, NoVotesType, TallyReplaced
  <2>1. m = n - k + Cast(NoVotes, a) /\ k \in Int /\ Cast(NoVotes, a) = 0
    BY <1>1, <2>0, CastType, NoVotesCast
  <2>2. n \in Int /\ Reward \in Int
    BY CountTypes
  <2>3. /\ credit[a] = p + stake[a] + liquid[a] + forgone[a] /\ credit'[a] = credit[a]
        /\ stake[a] \in Int /\ liquid[a] \in Int /\ forgone[a] \in Int
        /\ stake'[a] \in Int /\ liquid'[a] \in Int /\ forgone'[a] \in Int
    BY CountTypes
  <2>4. stake'[a] + liquid'[a] + forgone'[a] = stake[a] + liquid[a] + forgone[a] + e
    BY <1>1, EarnedType
  <2> HIDE DEF n, m, k
  <2>5. m = n - k
    BY <2>1, <2>2
  <2>6. q = p - e /\ p \in Int /\ e \in Int
    BY <2>1, <2>2, <2>5
  <2> HIDE DEF p, q, e
  <2>7. credit[a] = p - e + stake'[a] + liquid'[a] + forgone'[a]
    <3>1. credit[a] \in Int
      BY CountTypes
    <3> QED
      BY <2>3, <2>4, <2>6, <3>1, Carried
  <2>8. credit'[a] = q + stake'[a] + liquid'[a] + forgone'[a]
    BY <2>3, <2>6, <2>7
  <2> QED
    BY <2>8 DEF q, m
<1> QED
  BY <1>2 DEF CountInv, AttestationsCountOnce

LEMMA FinalizeCounts ==
  ASSUME CountInv, MoneyInv', NEW b \in Blocks, Finalize(b)
  PROVE  CountInv'
<1>1. MoneyInv /\ Settle(b) /\ pending' = [pending EXCEPT ![b] = NoVotes] /\ credit' = credit
  BY DEF Finalize, CountInv
<1>2. \A a \in Addresses :
        stake'[a] + liquid'[a] + forgone'[a] = stake[a] + liquid[a] + forgone[a] + Earned(b)[a]
  BY <1>1, SettleShape
<1> QED
  BY <1>1, <1>2, DecisionCounts

LEMMA VetoCounts ==
  ASSUME CountInv, MoneyInv', NEW b \in Blocks, VetoBlock(b)
  PROVE  CountInv'
<1>1. /\ MoneyInv /\ pending' = [pending EXCEPT ![b] = NoVotes] /\ credit' = credit
      /\ UNCHANGED <<stake, liquid>> /\ forgone' = [a \in Addresses |-> forgone[a] + Earned(b)[a]]
  BY DEF VetoBlock, CountInv
<1>2. ASSUME NEW a \in Addresses
      PROVE  stake'[a] + liquid'[a] + forgone'[a] = stake[a] + liquid[a] + forgone[a] + Earned(b)[a]
  <2>1. stake[a] \in Int /\ liquid[a] \in Int /\ forgone[a] \in Int /\ Earned(b)[a] \in Int
    BY <1>1, EarnedType DEF MoneyInv, Amounts
  <2>2. stake'[a] = stake[a] /\ liquid'[a] = liquid[a] /\ forgone'[a] = forgone[a] + Earned(b)[a]
    BY <1>1
  <2> QED
    BY <2>1, <2>2
<1> QED
  BY <1>1, <1>2, DecisionCounts

\* A flat penalty turns staked and liquid tokens into forgone ones.
LEMMA FlatPenaltyCounts ==
  ASSUME CountInv, MoneyInv', NEW b \in Blocks, SlashMiner(b)
  PROVE  CountInv'
<1> DEFINE m == Miner[b]
           x == FromStake(m, FlatPenalty)
           y == FromLiquid(m, FlatPenalty)
<1>1. m \in Addresses /\ stake[m] \in Nat /\ liquid[m] \in Nat /\ FlatPenalty \in Nat
  BY ConstantTypes DEF CountInv, MoneyInv
<1>2. x \in Int /\ y \in Int
  BY <1>1 DEF Smaller, FromStake, FromLiquid
<1>3. /\ stake' = [stake EXCEPT ![m] = @ - x] /\ liquid' = [liquid EXCEPT ![m] = @ - y]
      /\ forgone' = [forgone EXCEPT ![m] = @ + x + y]
      /\ UNCHANGED <<pending, credit>>
  BY DEF SlashMiner, voteVars
<1> HIDE DEF m, x, y
<1>4. ASSUME NEW a \in Addresses
      PROVE  stake'[a] + liquid'[a] + forgone'[a] = stake[a] + liquid[a] + forgone[a]
  <2>1. stake[a] \in Int /\ liquid[a] \in Int /\ forgone[a] \in Int
    BY DEF CountInv, MoneyInv
  <2>2. CASE a = m
    <3>1. stake'[a] = stake[a] - x /\ liquid'[a] = liquid[a] - y /\ forgone'[a] = forgone[a] + x + y
      BY <1>1, <1>3, <2>2 DEF CountInv, MoneyInv
    <3> QED
      BY <1>2, <2>1, <3>1
  <2>3. CASE a # m
    <3>1. stake'[a] = stake[a] /\ liquid'[a] = liquid[a] /\ forgone'[a] = forgone[a]
      BY <1>1, <1>3, <2>3 DEF CountInv, MoneyInv
    <3> QED
      BY <2>1, <3>1
  <2> QED
    BY <2>2, <2>3
<1> QED
  BY <1>3, <1>4, CountsUntouched

LEMMA EquivocationCounts ==
  ASSUME CountInv, MoneyInv', NEW x \in Addresses, NEW h, Equivocation(x, h),
         UNCHANGED <<pending, credit>>
  PROVE  CountInv'
<1>1. MoneyInv
  BY DEF CountInv
<1>2. CASE <<x, h>> \in caught \/ ~MayPropose(x)
  <2>1. UNCHANGED <<stake, liquid, forgone>>
    BY <1>2 DEF Equivocation, moneyVars
  <2> QED
    BY <2>1, CountsUntouched
<1>3. CASE <<x, h>> \notin caught /\ MayPropose(x)
  <2> DEFINE hit == [a \in Addresses |-> IF a = x THEN {"double"} ELSE {}]
  <2>1. ApplySlashing(hit, Zero, Zero, Zero)
    BY <1>3 DEF Equivocation
  <2>2. hit \in [Addresses -> SUBSET Reasons]
    BY DEF Reasons
  <2>3. (\A a \in Addresses : hit[a] \subseteq {"double"}) /\ \A a \in Addresses : Zero[a] = 0
    BY DEF Zero
  <2> HIDE DEF hit
  <2>4. \A a \in Addresses :
          /\ liquid'[a] = liquid[a] + Zero[a]
          /\ stake'[a] + forgone'[a] = stake[a] + forgone[a] + Zero[a] + Zero[a]
    BY <1>1, <2>1, <2>2, <2>3, ZeroType, SlashShape
  <2>5. ASSUME NEW a \in Addresses
        PROVE  stake'[a] + liquid'[a] + forgone'[a] = stake[a] + liquid[a] + forgone[a]
    <3>1. /\ stake[a] \in Int /\ liquid[a] \in Int /\ forgone[a] \in Int
          /\ stake'[a] \in Int /\ liquid'[a] \in Int /\ forgone'[a] \in Int
      BY CountTypes
    <3>2. liquid'[a] = liquid[a] + 0 /\ stake'[a] + forgone'[a] = stake[a] + forgone[a] + 0 + 0
      BY <2>3, <2>4
    <3>3. liquid'[a] = liquid[a] /\ stake'[a] + forgone'[a] = stake[a] + forgone[a]
      BY <3>1, <3>2
    <3> DEFINE s == stake[a]
               l == liquid[a]
               f == forgone[a]
               s1 == stake'[a]
               l1 == liquid'[a]
               f1 == forgone'[a]
    <3>4. s \in Int /\ l \in Int /\ f \in Int /\ s1 \in Int /\ f1 \in Int /\ l1 = l /\ s1 + f1 = s + f
      BY <3>1, <3>3
    <3> HIDE DEF s, l, f, s1, l1, f1
    <3>5. s1 + l1 + f1 = s + l + f
      BY <3>4
    <3> QED
      BY <3>5 DEF s, l, f, s1, l1, f1
  <2> QED
    BY <2>5, CountsUntouched
<1> QED
  BY <1>2, <1>3

LEMMA NextCounts == CountInv /\ [Next]_vars => CountInv'
<1> SUFFICES ASSUME CountInv, [Next]_vars
             PROVE  CountInv'
  OBVIOUS
<1>0. MoneyInv'
  BY NextKeepsMoney DEF CountInv
<1>1. CASE \/ Mining \/ AppendReceived \/ Tick \/ UNCHANGED vars
           \/ \E b \in Blocks, h \in 1 .. Cardinality(Blocks) : PeerMines(b, h)
           \/ \E b \in Blocks : Receive(b) \/ SubmitPhaseVote(b)
  <2>1. UNCHANGED <<moneyVars, pending, credit>>
    BY <1>1 DEF Mining, BeginBlock, TakeHeight, FinishBlock, AppendReceived, Tick, PeerMines, Receive,
                SubmitPhaseVote, vars, voteVars
  <2>2. UNCHANGED <<stake, liquid, forgone, pending, credit>>
    BY <2>1 DEF moneyVars
  <2> QED
    BY <1>0, <2>2, CountsUntouched
<1>2. CASE \E b \in Blocks : ReceiveConflict(b)
  <2>1. PICK b \in Blocks : ReceiveConflict(b)
    BY <1>2
  <2>2. UNCHANGED <<pending, credit>> /\ Miner[b] \in Addresses /\ Equivocation(Miner[b], index[b])
    BY <2>1, ConstantTypes DEF ReceiveConflict, voteVars
  <2> QED
    BY <1>0, <2>2, EquivocationCounts
<1>3. CASE \E b \in Blocks, a \in Addresses, v \in Votes : SubmitAttestation(b, a, v)
  BY <1>0, <1>3, SubmitCounts
<1>4. CASE \E b \in Blocks : Finalize(b) \/ VetoBlock(b) \/ SlashMiner(b)
  BY <1>0, <1>4, FinalizeCounts, VetoCounts, FlatPenaltyCounts
<1> QED
  BY <1>1, <1>2, <1>3, <1>4 DEF Next, Peers, Operators

(* Every attestation ever handed in is pending or was decided upon once: a  *)
(* finalisation clears what it has counted.  Its one reward is among the    *)
(* tokens of its sender, liquid or staked, or was forgone: dropped by a     *)
(* veto, not to be had from genesis, or taken by a penalty.                 *)
THEOREM CountsSafe == Spec => []AttestationsCountOnce
<1>1. CountInv => AttestationsCountOnce
  BY DEF CountInv
<1> QED
  BY <1>1, InitCounts, NextCounts, PTL DEF Spec
=============================================================================
