-------------------------- MODULE EconomicsProofs --------------------------
(***************************************************************************)
(* Proofs about the ledger, for any accounts, models, amounts, cooldown,   *)
(* bootstrap period and supply, and about strikes and freezes, for any     *)
(* threads, refreshes and models.                                          *)
(***************************************************************************)
EXTENDS EconomicsProps, TrainingFreeze, SumTheorems

\* The types of the constants, one by one.
LEMMA ConstantTypes ==
  /\ MaxHeight \in Nat \ {0} /\ Cooldown \in Nat /\ Supply \in Nat /\ StartLiquid \in Nat
  /\ Bonus \in Nat /\ VirtualStake \in Nat /\ Grant \in Nat /\ AttestationReward \in Nat
  /\ MinFee \in Nat /\ MinEscrow \in Nat /\ StartWallet \in Nat /\ MaxCalls \in Nat
  /\ Periods \subseteq Nat /\ Amounts \subseteq Nat
  /\ Me \in Accounts /\ Noop \notin Models
  /\ Genesis \notin Accounts /\ System \notin Accounts /\ Genesis # System
  /\ Owner \in [Models -> Accounts \cup {System}]
  /\ Cost \in [Models -> Nat]
  /\ \A p \in Periods : \A i \in 0 .. MaxHeight : Emission(p, i) \in Nat
BY EconomicsConstants

\* What the harness left to genesis.
Endowment == Supply - StartLiquid * Cardinality(Accounts)

\* Genesis can afford what a harness moves to the accounts.
LEMMA EndowmentType == Endowment \in Nat
<1>1. Cardinality(Accounts) \in Nat
  BY EconomicsConstants, FS_CardinalityType
<1>2. StartLiquid * Cardinality(Accounts) \in Nat
  BY <1>1, ConstantTypes
<1>3. StartLiquid * Cardinality(Accounts) <= Supply
  BY EconomicsConstants
<1> QED
  BY <1>2, <1>3, ConstantTypes DEF Endowment

\* The registry is finite, so that a rank is a number.
LEMMA RegisteredIsCounted == Cardinality(Registered) \in Nat
BY EconomicsConstants, FS_Subset, FS_CardinalityType DEF Registered

\* The sums of the unbonding queue grow with the block they look at.
DueGrows == \A a \in Accounts : \A u, v \in Blocks : u <= v => due[a][u] <= due[a][v]

IndexIsReached == index <= height

LedgerInv == TypeOK /\ DueGrows /\ IndexIsReached

\* What finalize_matured_unstakes does to the queue: natural sums that still grow with
\* the unlock height, and nothing left at or below the tip.
LEMMA FlushShape ==
  ASSUME LedgerInv, NEW a \in Accounts, NEW tip \in 0 .. MaxHeight
  PROVE  /\ Flushed(a, tip) \in [Accounts -> [Blocks -> Nat]]
         /\ \A c \in Accounts : \A u, v \in Blocks :
              u <= v => Flushed(a, tip)[c][u] <= Flushed(a, tip)[c][v]
         /\ Liquid(a, tip) \in Nat
<1> DEFINE q == [u \in Blocks |-> IF u <= tip THEN 0 ELSE due[a][u] - due[a][tip]]
<1>1. tip \in Blocks /\ Blocks \subseteq Nat
  BY ConstantTypes DEF Blocks
<1>2. \A u \in Blocks : due[a][u] \in Nat
  BY DEF LedgerInv, TypeOK
<1>3. \A u \in Blocks : tip <= u => due[a][tip] <= due[a][u]
  BY <1>1 DEF LedgerInv, DueGrows
<1>4. q \in [Blocks -> Nat]
  <2> SUFFICES ASSUME NEW u \in Blocks PROVE (IF u <= tip THEN 0 ELSE due[a][u] - due[a][tip]) \in Nat
    OBVIOUS
  <2> QED
    BY <1>1, <1>2, <1>3
<1>5. \A u, v \in Blocks : u <= v => q[u] <= q[v]
  <2> SUFFICES ASSUME NEW u \in Blocks, NEW v \in Blocks, u <= v PROVE q[u] <= q[v]
    OBVIOUS
  <2>1. due[a][u] <= due[a][v]
    BY DEF LedgerInv, DueGrows
  <2> QED
    BY <1>1, <1>2, <1>3, <2>1
<1>6. Flushed(a, tip) = [due EXCEPT ![a] = q]
  BY DEF Flushed, LedgerInv, TypeOK
<1>7. Flushed(a, tip) \in [Accounts -> [Blocks -> Nat]]
  BY <1>4, <1>6 DEF LedgerInv, TypeOK
<1>8. \A c \in Accounts : Flushed(a, tip)[c] = IF c = a THEN q ELSE due[c]
  BY <1>6 DEF LedgerInv, TypeOK
<1>9. \A c \in Accounts : \A u, v \in Blocks :
        u <= v => Flushed(a, tip)[c][u] <= Flushed(a, tip)[c][v]
  <2> SUFFICES ASSUME NEW c \in Accounts, NEW u \in Blocks, NEW v \in Blocks, u <= v
               PROVE  Flushed(a, tip)[c][u] <= Flushed(a, tip)[c][v]
    OBVIOUS
  <2>1. CASE c = a
    <3> HIDE DEF q
    <3> QED
      BY <1>5, <1>8, <2>1
  <2>2. CASE c # a
    <3> HIDE DEF q
    <3> QED
      BY <1>8, <2>2 DEF LedgerInv, DueGrows
  <2> QED
    BY <2>1, <2>2
<1>10. Liquid(a, tip) \in Nat
  BY <1>1, <1>2 DEF Liquid, LedgerInv, TypeOK, Holders
<1> QED
  BY <1>7, <1>9, <1>10

\* Smaller and Larger stay within the natural numbers.
LEMMA SmallerLargerType ==
  ASSUME NEW x \in Nat, NEW y \in Nat
  PROVE  /\ Smaller(x, y) \in Nat /\ Smaller(x, y) <= x /\ Smaller(x, y) <= y
         /\ Smaller(x, y) = x \/ Smaller(x, y) = y
BY DEF Smaller

\* What a payment lacks is a natural number.
LEMMA ShortfallType ==
  ASSUME NEW x \in Nat, NEW y \in Nat
  PROVE  /\ Larger(0, x - y) \in Nat
         /\ Larger(0, x - y) >= x - y
         /\ Larger(0, x - y) <= x
BY DEF Larger

\* The ledger invariant holds when the node starts.
LEMMA InitLedger == Init => LedgerInv
<1> SUFFICES ASSUME Init PROVE LedgerInv
  OBVIOUS
<1>1. balance \in [Holders -> Nat]
  BY EndowmentType, ConstantTypes DEF Init, Endowment, Holders
<1>2. height \in 0 .. MaxHeight /\ index \in 0 .. MaxHeight
  BY ConstantTypes DEF Init
<1>3. TypeOK
  BY <1>1, <1>2, ConstantTypes DEF Init, TypeOK
<1>4. DueGrows /\ IndexIsReached
  BY DEF Init, DueGrows, IndexIsReached
<1> QED
  BY <1>3, <1>4 DEF LedgerInv

\* A step that leaves the queue, the height and the mining height alone only
\* has types to keep.
LEMMA QueueUntouched ==
  ASSUME LedgerInv, TypeOK', due' = due, height' = height, index' = index
  PROVE  LedgerInv'
BY DEF LedgerInv, DueGrows, IndexIsReached

\* A step that matures the queue of one account keeps its order.
LEMMA QueueFlushed ==
  ASSUME LedgerInv, NEW a \in Accounts, NEW tip \in 0 .. MaxHeight,
         due' = Flushed(a, tip), TypeOK', height' = height, index' = index
  PROVE  LedgerInv'
BY FlushShape DEF LedgerInv, DueGrows, IndexIsReached

\* Registering keeps the types of the registry and of the virtual stake.
LEMMA EnrollType ==
  ASSUME LedgerInv, NEW a \in Accounts, Enroll(a)
  PROVE  order' \in [Accounts -> Nat] /\ virtual' \in [Accounts -> Nat]
BY RegisteredIsCounted, ConstantTypes DEF Enroll, LedgerInv, TypeOK

\* Minting keeps the types of balances, stake and emission.
LEMMA MintType ==
  ASSUME LedgerInv, NEW a \in Accounts, NEW x \in Nat, NEW toStake \in BOOLEAN,
         Mint(a, x, toStake)
  PROVE  /\ balance' \in [Holders -> Nat] /\ staked' \in [Accounts -> Nat] /\ emitted' \in Nat
         /\ balance'[Genesis] + emitted' = balance[Genesis] + emitted
<1> DEFINE pay == Smaller(x, balance[Genesis])
<1>1. balance[Genesis] \in Nat
  BY DEF LedgerInv, TypeOK, Holders
<1>2. pay \in Nat /\ pay <= balance[Genesis]
  BY <1>1, SmallerLargerType
<1>3. emitted' = emitted + pay
  BY DEF Mint
<1>4. a \in Holders /\ Genesis \in Holders /\ a # Genesis
  BY ConstantTypes DEF Holders
<1>5. CASE toStake
  <2>1. balance' = [balance EXCEPT ![Genesis] = @ - pay] /\ staked' = [staked EXCEPT ![a] = @ + pay]
    BY <1>5 DEF Mint
  <2> HIDE DEF pay
  <2> QED
    BY <1>1, <1>2, <1>3, <1>4, <2>1 DEF LedgerInv, TypeOK
<1>6. CASE ~toStake
  <2>1. /\ balance' = [balance EXCEPT ![Genesis] = @ - pay, ![a] = @ + pay]
        /\ staked' = staked
    BY <1>6 DEF Mint
  <2> HIDE DEF pay
  <2> QED
    BY <1>1, <1>2, <1>3, <1>4, <2>1 DEF LedgerInv, TypeOK
<1> QED
  BY <1>5, <1>6

\* A payment, granted or refused, keeps balances and queue in type.
LEMMA PayOverType ==
  ASSUME LedgerInv, NEW a \in Accounts, NEW b \in Accounts \cup {System}, NEW x \in Nat,
         NEW tip \in 0 .. MaxHeight, PayOver(a, b, x, tip)
  PROVE  balance' \in [Holders -> Nat] /\ balance'[Genesis] = balance[Genesis]
<1>1. Liquid(a, tip) \in Nat
  BY FlushShape
<1>2. {a, b, Genesis} \subseteq Holders /\ a # Genesis /\ b # Genesis
  BY ConstantTypes DEF Holders
<1>3. CASE Liquid(a, tip) < x
  BY <1>1, <1>2, <1>3 DEF PayOver, LedgerInv, TypeOK
<1>4. CASE ~(Liquid(a, tip) < x)
  <2>1. balance' = [[balance EXCEPT ![a] = Liquid(a, tip) - x] EXCEPT ![b] = @ + x]
    BY <1>4 DEF PayOver
  <2>2. Liquid(a, tip) - x \in Nat
    BY <1>1, <1>4
  <2> DEFINE left == Liquid(a, tip) - x
  <2>3. left \in Nat
    BY <2>2
  <2>4. balance' = [[balance EXCEPT ![a] = left] EXCEPT ![b] = @ + x]
    BY <2>1
  <2> HIDE DEF left
  <2>5. balance \in [Holders -> Nat]
    BY DEF LedgerInv, TypeOK
  <2>6. CASE a = b
    <3>1. balance' = [[balance EXCEPT ![a] = left] EXCEPT ![a] = left + x]
      BY <1>2, <2>4, <2>5, <2>6
    <3> QED
      BY <1>2, <2>3, <2>5, <3>1
  <2>7. CASE a # b
    BY <1>2, <2>3, <2>4, <2>5, <2>7
  <2> QED
    BY <2>6, <2>7
<1> QED
  BY <1>3, <1>4

\* Spending what is covered keeps balances and queue in type.
LEMMA SpendType ==
  ASSUME LedgerInv, NEW a \in Accounts, NEW x \in Nat, NEW tip \in 0 .. MaxHeight,
         Spend(a, x, tip), x <= Liquid(a, tip)
  PROVE  balance' \in [Holders -> Nat] /\ due' = Flushed(a, tip)
         /\ balance'[Genesis] = balance[Genesis]
<1>1. Liquid(a, tip) - x \in Nat
  BY FlushShape
<1>2. {a, Genesis} \subseteq Holders /\ a # Genesis
  BY ConstantTypes DEF Holders
<1>3. balance \in [Holders -> Nat]
  BY DEF LedgerInv, TypeOK
<1> QED
  BY <1>1, <1>2, <1>3 DEF Spend

\* process_training_payment keeps the ledger whether or not it can pay: what it
\* draws from escrow, liquid tokens and stake is there.
LEMMA PayMinerKeepsLedger ==
  ASSUME LedgerInv, PayMiner
  PROVE  /\ LedgerInv' /\ balance'[Genesis] = balance[Genesis]
         /\ due' = due \/ (MustPay /\ due' = Flushed(Owner[model], index))
<1>1. index \in 0 .. MaxHeight /\ {Me, Genesis} \subseteq Holders /\ Me # Genesis
  BY ConstantTypes DEF LedgerInv, TypeOK, Holders
<1>2. CASE ~MustPay
  <2>1. balance' = balance /\ staked' = staked /\ due' = due /\ escrow' = escrow
    BY <1>2 DEF PayMiner
  <2>2. TypeOK'
    BY <2>1 DEF PayMiner, At, bootstrap, LedgerInv, TypeOK
  <2>3. LedgerInv'
    BY <2>1, <2>2, QueueUntouched DEF PayMiner
  <2> QED
    BY <2>1, <2>3
<1>3. CASE MustPay
  <2> DEFINE o == Owner[model]
             held == Smaller(escrow[model], Cost[model])
             rest == Cost[model] - held
             short == Larger(0, rest - Liquid(o, index))
             unwrapped == IF rest > 0 /\ InBootstrap(index) THEN Smaller(short, staked[o]) ELSE 0
             liquid == Liquid(o, index) + unwrapped
  <2>1. model \in Models /\ o \in Accounts
    BY <1>3, ConstantTypes DEF MustPay, LedgerInv, TypeOK
  <2>2. Cost[model] \in Nat /\ escrow[model] \in Nat /\ staked[o] \in Nat
    BY <2>1, ConstantTypes DEF LedgerInv, TypeOK
  <2>3. held \in Nat /\ held <= escrow[model] /\ held <= Cost[model] /\ rest \in Nat
    BY <2>2, SmallerLargerType
  <2>4. Larger(0, Cost[model] - escrow[model]) = rest
    BY <2>2 DEF Larger, Smaller
  <2>5. Liquid(o, index) \in Nat
    <3> HIDE DEF o
    <3> QED
      BY <1>1, <2>1, FlushShape
  <2>6. short \in Nat /\ short >= rest - Liquid(o, index)
    <3> HIDE DEF rest
    <3> QED
      BY <2>3, <2>5, ShortfallType
  <2>7. unwrapped \in Nat /\ unwrapped <= staked[o] /\ liquid \in Nat
    <3>1. Smaller(short, staked[o]) \in Nat /\ Smaller(short, staked[o]) <= staked[o]
      <4> HIDE DEF short, o
      <4> QED
        BY <2>2, <2>6, SmallerLargerType
    <3> HIDE DEF short, rest, o
    <3> QED
      BY <2>2, <2>5, <3>1
  <2>8. CanPay => rest = 0 \/ Liquid(o, index) + (IF InBootstrap(index) THEN staked[o] ELSE 0) >= rest
    BY <2>4 DEF CanPay, Funds
  <2>9. CanPay => liquid >= rest
    <3>1. CASE rest = 0
      <4> HIDE DEF liquid, rest
      <4> QED
        BY <2>3, <2>7, <3>1
    <3>2. CASE rest > 0 /\ InBootstrap(index)
      <4>1. liquid = Liquid(o, index) + staked[o] \/ liquid = Liquid(o, index) + short
        BY <3>2 DEF Smaller
      <4> HIDE DEF liquid, short, o, rest
      <4> QED
        BY <2>2, <2>3, <2>5, <2>6, <2>8, <3>2, <4>1
    <3>3. CASE rest > 0 /\ ~InBootstrap(index)
      BY <2>3, <2>5, <2>8, <3>3
    <3> QED
      BY <2>3, <3>1, <3>2, <3>3
  <2>10. /\ staked' = [staked EXCEPT ![o] = @ - unwrapped]
         /\ due' = IF rest > 0 THEN Flushed(o, index) ELSE due
         /\ escrow' = IF CanPay THEN [escrow EXCEPT ![model] = @ - held] ELSE escrow
         /\ balance' = IF rest = 0 THEN [balance EXCEPT ![Me] = @ + held]
                       ELSE IF CanPay
                       THEN [[balance EXCEPT ![o] = liquid - rest] EXCEPT ![Me] = @ + (held + rest)]
                       ELSE [balance EXCEPT ![o] = liquid]
    BY <1>3 DEF PayMiner
  <2>11. o \in Holders /\ o # Genesis /\ balance \in [Holders -> Nat]
    BY <2>1, ConstantTypes DEF Holders, LedgerInv, TypeOK
  <2>12. balance' \in [Holders -> Nat] /\ balance'[Genesis] = balance[Genesis]
    <3> HIDE DEF o, held, rest, liquid
    <3>1. CASE rest = 0
      BY <1>1, <2>3, <2>10, <2>11, <3>1
    <3>2. CASE rest # 0 /\ CanPay
      <4> DEFINE left == liquid - rest
                 earned == held + rest
      <4>1. left \in Nat /\ earned \in Nat
        BY <2>3, <2>7, <2>9, <3>2
      <4>2. balance' = [[balance EXCEPT ![o] = left] EXCEPT ![Me] = @ + (held + rest)]
        BY <2>10, <3>2
      <4> HIDE DEF left, earned
      <4>3. CASE o = Me
        <5>1. balance' = [[balance EXCEPT ![o] = left] EXCEPT ![o] = left + (held + rest)]
          BY <2>11, <4>2, <4>3
        <5> QED
          BY <1>1, <2>3, <2>11, <4>1, <5>1
      <4>4. CASE o # Me
        BY <1>1, <2>3, <2>11, <4>1, <4>2, <4>4
      <4> QED
        BY <4>3, <4>4
    <3>3. CASE rest # 0 /\ ~CanPay
      BY <1>1, <2>7, <2>10, <2>11, <3>3
    <3> QED
      BY <3>1, <3>2, <3>3
  <2>13. staked' \in [Accounts -> Nat] /\ escrow' \in [Models -> Nat]
    <3> HIDE DEF o, held, rest, unwrapped
    <3>1. staked \in [Accounts -> Nat] /\ escrow \in [Models -> Nat]
      BY DEF LedgerInv, TypeOK
    <3>2. staked' \in [Accounts -> Nat]
      BY <2>1, <2>2, <2>7, <2>10, <3>1
    <3>3. escrow' \in [Models -> Nat]
      BY <2>1, <2>2, <2>3, <2>10, <3>1
    <3> QED
      BY <3>2, <3>3
  <2>14. due' = Flushed(o, index) \/ due' = due
    BY <2>10
  <2>15. due' \in [Accounts -> [Blocks -> Nat]]
    <3> HIDE DEF o
    <3>1. due \in [Accounts -> [Blocks -> Nat]]
      BY DEF LedgerInv, TypeOK
    <3> QED
      BY <1>1, <2>1, <2>14, <3>1, FlushShape
  <2>16. TypeOK'
    BY <2>12, <2>13, <2>15 DEF PayMiner, At, bootstrap, LedgerInv, TypeOK
  <2>17. height' = height /\ index' = index
    BY DEF PayMiner
  <2>18. due' = due \/ (MustPay /\ due' = Flushed(Owner[model], index))
    BY <1>3, <2>14
  <2>19. LedgerInv'
    <3> HIDE DEF o
    <3> QED
      BY <1>1, <2>1, <2>14, <2>16, <2>17, QueueFlushed, QueueUntouched
  <2> QED
    BY <2>12, <2>18, <2>19
<1> QED
  BY <1>2, <1>3

\* Every step of the mining thread keeps the ledger invariant.
LEMMA MiningKeepsLedger ==
  ASSUME LedgerInv, Mining
  PROVE  LedgerInv'
<1>1. CASE BeginRound
  <2>1. order' \in [Accounts -> Nat] /\ virtual' \in [Accounts -> Nat]
    <3>1. CASE MayRegister(Me)
      BY <1>1, <3>1, EnrollType, ConstantTypes DEF BeginRound
    <3>2. CASE ~MayRegister(Me)
      BY <1>1, <3>2 DEF BeginRound, LedgerInv, TypeOK
    <3> QED
      BY <3>1, <3>2
  <2>2. TypeOK'
    BY <1>1, <2>1 DEF BeginRound, At, LedgerInv, TypeOK
  <2> QED
    BY <1>1, <2>2, QueueUntouched DEF BeginRound
<1>2. CASE EnterRound
  <2>1. TypeOK'
    BY <1>2 DEF EnterRound, At, tokens, bootstrap, LedgerInv, TypeOK
  <2> QED
    BY <1>2, <2>1, QueueUntouched DEF EnterRound, tokens
<1>3. CASE SkipRound
  <2>1. TypeOK'
    BY <1>3 DEF SkipRound, tokens, bootstrap, LedgerInv, TypeOK
  <2> QED
    BY <1>3, <2>1, QueueUntouched DEF SkipRound, tokens
<1>4. CASE ChooseNoop
  <2>1. TypeOK'
    BY <1>4 DEF ChooseNoop, At, tokens, bootstrap, LedgerInv, TypeOK
  <2> QED
    BY <1>4, <2>1, QueueUntouched DEF ChooseNoop, tokens
<1>5. ASSUME NEW m \in Models, Preflight(m) PROVE LedgerInv'
  <2> DEFINE o == Owner[m]
             rest == Larger(0, Cost[m] - escrow[m])
  <2>1. /\ model' = m /\ stage' \in {"checked", "round"}
        /\ height' = height /\ index' = index
    BY <1>5 DEF Preflight
  <2>2. CASE o = System \/ rest = 0
    <3>1. balance' = balance /\ due' = due
      BY <1>5, <2>2 DEF Preflight
    <3>2. TypeOK'
      BY <1>5, <2>1, <3>1 DEF Preflight, bootstrap, LedgerInv, TypeOK
    <3> QED
      BY <2>1, <3>1, <3>2, QueueUntouched
  <2>3. CASE ~(o = System \/ rest = 0)
    <3>1. Spend(o, 0, height)
      BY <1>5, <2>3 DEF Preflight
    <3>2. o \in Accounts /\ height \in 0 .. MaxHeight
      BY <2>3, ConstantTypes DEF LedgerInv, TypeOK
    <3>3. balance' \in [Holders -> Nat] /\ due' = Flushed(o, height)
      <4> HIDE DEF o
      <4> QED
        BY <3>1, <3>2, SpendType, FlushShape
    <3>4. TypeOK'
      <4>1. due' \in [Accounts -> [Blocks -> Nat]]
        <5> HIDE DEF o
        <5> QED
          BY <3>2, <3>3, FlushShape
      <4> QED
        BY <1>5, <2>1, <3>3, <4>1 DEF Preflight, bootstrap, LedgerInv, TypeOK
    <3> HIDE DEF o
    <3> QED
      BY <2>1, <3>2, <3>3, <3>4, QueueFlushed
  <2> QED
    BY <2>2, <2>3
<1>6. CASE ReadHeight
  <2>1. TypeOK'
    BY <1>6 DEF ReadHeight, At, tokens, bootstrap, LedgerInv, TypeOK
  <2> QED
    BY <1>6, <2>1 DEF ReadHeight, tokens, LedgerInv, DueGrows, IndexIsReached, TypeOK
<1>7. CASE Settle
  <2>1. todo' \subseteq Accounts /\ stage' \in {"mature", "reward"}
    BY <1>7 DEF Settle, At, Registered, LedgerInv, TypeOK
  <2>2. TypeOK'
    BY <1>7, <2>1 DEF Settle, tokens, bootstrap, LedgerInv, TypeOK
  <2> QED
    BY <1>7, <2>2, QueueUntouched DEF Settle, tokens
<1>8. CASE FailTraining
  <2>1. TypeOK'
    BY <1>8 DEF FailTraining, At, tokens, bootstrap, LedgerInv, TypeOK
  <2> QED
    BY <1>8, <2>1, QueueUntouched DEF FailTraining, tokens
<1>9. ASSUME NEW a \in Accounts, Materialise(a) PROVE LedgerInv'
  <2>1. /\ virtual' \in [Accounts -> Nat] /\ balance' \in [Holders -> Nat]
        /\ emitted' \in Nat /\ staked' \in [Accounts -> Nat]
    <3>1. CASE a \in slashed
      BY <1>9, <3>1 DEF Materialise, LedgerInv, TypeOK
    <3>2. CASE a \notin slashed
      <4> DEFINE minted == Smaller(virtual[a] + Grant, balance[Genesis])
      <4>1. Genesis \in Holders /\ balance[Genesis] \in Nat /\ virtual[a] + Grant \in Nat
        BY ConstantTypes DEF Holders, LedgerInv, TypeOK
      <4>2. minted \in Nat /\ minted <= balance[Genesis]
        BY <4>1, SmallerLargerType
      <4>3. /\ virtual' = [virtual EXCEPT ![a] = 0]
            /\ balance' = [balance EXCEPT ![Genesis] = @ - minted]
            /\ emitted' = emitted + minted
            /\ staked' = [staked EXCEPT ![a] = @ + minted]
        BY <1>9, <3>2 DEF Materialise
      <4> HIDE DEF minted
      <4> QED
        BY <4>1, <4>2, <4>3 DEF LedgerInv, TypeOK
    <3> QED
      BY <3>1, <3>2
  <2>2. TypeOK'
    BY <1>9, <2>1 DEF Materialise, bootstrap, LedgerInv, TypeOK
  <2> QED
    BY <1>9, <2>2, QueueUntouched DEF Materialise
<1>10. CASE EndMaterialisation
  <2>1. TypeOK'
    BY <1>10 DEF EndMaterialisation, At, tokens, LedgerInv, TypeOK
  <2> QED
    BY <1>10, <2>1, QueueUntouched DEF EndMaterialisation, tokens
<1>11. CASE RewardMiner
  <2> DEFINE reward == Emission(period, index) + (IF model = Noop THEN 0 ELSE Bonus)
  <2>1. reward \in Nat /\ (period > 0) \in BOOLEAN /\ Me \in Accounts
    BY ConstantTypes DEF LedgerInv, TypeOK
  <2>2. Mint(Me, reward, period > 0)
    BY <1>11 DEF RewardMiner
  <2>3. balance' \in [Holders -> Nat] /\ staked' \in [Accounts -> Nat] /\ emitted' \in Nat
    <3> HIDE DEF reward
    <3> QED
      BY <2>1, <2>2, MintType
  <2>4. TypeOK'
    BY <1>11, <2>3 DEF RewardMiner, At, bootstrap, LedgerInv, TypeOK
  <2> QED
    BY <1>11, <2>4, QueueUntouched DEF RewardMiner
<1>12. CASE PayMiner
  BY <1>12, PayMinerKeepsLedger
<1>13. CASE RankParticipants
  <2>1. /\ slashed' \subseteq Accounts /\ virtual' \in [Accounts -> Nat]
        /\ staked' \in [Accounts -> Nat]
    BY <1>13 DEF RankParticipants, Participants, Registered, LedgerInv, TypeOK
  <2>2. TypeOK'
    BY <1>13, <2>1 DEF RankParticipants, At, LedgerInv, TypeOK
  <2> QED
    BY <1>13, <2>2, QueueUntouched DEF RankParticipants
<1>14. CASE AppendBlock
  <2>1. TypeOK'
    BY <1>14, ConstantTypes DEF AppendBlock, At, tokens, bootstrap, LedgerInv, TypeOK
  <2> QED
    BY <1>14, <2>1 DEF AppendBlock, tokens, LedgerInv, DueGrows, IndexIsReached, TypeOK
<1> QED
  BY <1>1, <1>2, <1>3, <1>4, <1>5, <1>6, <1>7, <1>8, <1>9, <1>10, <1>11, <1>12, <1>13, <1>14
  DEF Mining

\* A refresh, granted, refused or not covered by the wallet, keeps the ledger invariant.
LEMMA RefreshKeepsLedger ==
  ASSUME LedgerInv, NEW m \in Models, NEW fee \in Nat, NEW topup \in Nat,
         NEW iced \in BOOLEAN, RefreshTrainingData(m, fee, topup, iced)
  PROVE  LedgerInv' /\ balance'[Genesis] = balance[Genesis]
<1> DEFINE total == fee + topup
           liquid == Liquid(Me, height)
           short == Larger(0, total - liquid)
           granted == /\ fee >= MinFee /\ Owner[m] = Me
                      /\ iced => topup >= MinEscrow
<1>1. /\ Me \in Accounts /\ height \in 0 .. MaxHeight /\ {Me, System, Genesis} \subseteq Holders
      /\ Me # System /\ Me # Genesis /\ System # Genesis
  BY ConstantTypes DEF LedgerInv, TypeOK, Holders
<1>2. liquid \in Nat /\ total \in Nat
  BY <1>1, FlushShape
<1>3. short \in Nat /\ liquid + short - total \in Nat
  <2>1. short \in Nat /\ short >= total - liquid
    <3> HIDE DEF total, liquid
    <3> QED
      BY <1>2, ShortfallType
  <2> HIDE DEF total, liquid, short
  <2> QED
    BY <1>2, <2>1
<1>4. due' = Flushed(Me, height) /\ height' = height /\ index' = index
  BY DEF RefreshTrainingData, job
<1>5. due' \in [Accounts -> [Blocks -> Nat]]
  BY <1>1, <1>4, FlushShape
<1>6. /\ balance \in [Holders -> Nat] /\ wallet \in Nat /\ escrow \in [Models -> Nat]
  BY DEF LedgerInv, TypeOK
<1>7. /\ balance' \in [Holders -> Nat] /\ wallet' \in Nat /\ escrow' \in [Models -> Nat]
      /\ balance'[Genesis] = balance[Genesis]
  <2>1. CASE short > wallet
    <3>1. balance' = [balance EXCEPT ![Me] = liquid] /\ wallet' = wallet /\ escrow' = escrow
      BY <2>1 DEF RefreshTrainingData
    <3> HIDE DEF liquid
    <3> QED
      BY <1>1, <1>2, <1>6, <3>1
  <2>2. CASE ~(short > wallet) /\ granted
    <3> DEFINE left == liquid + short - total
    <3>1. /\ balance' = [balance EXCEPT ![Me] = left, ![System] = @ + fee]
          /\ wallet' = wallet - short
          /\ escrow' = [escrow EXCEPT ![m] = @ + topup]
      BY <2>2 DEF RefreshTrainingData
    <3>2. left \in Nat
      BY <1>3
    <3> HIDE DEF left, short
    <3> QED
      BY <1>1, <1>3, <1>6, <2>2, <3>1, <3>2
  <2>3. CASE ~(short > wallet) /\ ~granted
    <3>1. /\ balance' = [balance EXCEPT ![Me] = liquid + short]
          /\ wallet' = wallet - short /\ escrow' = escrow
      BY <2>3 DEF RefreshTrainingData
    <3> HIDE DEF liquid, short
    <3> QED
      BY <1>1, <1>2, <1>3, <1>6, <2>3, <3>1
  <2> QED
    BY <2>1, <2>2, <2>3
<1>8. calls' \in Nat
  BY DEF RefreshTrainingData, Call, LedgerInv, TypeOK
<1>9. TypeOK'
  BY <1>5, <1>7, <1>8 DEF RefreshTrainingData, bootstrap, job, LedgerInv, TypeOK
<1> QED
  BY <1>1, <1>4, <1>7, <1>9, QueueFlushed

\* Every call from outside the mining thread keeps the ledger invariant.
LEMMA CallsKeepLedger ==
  ASSUME LedgerInv, Calls
  PROVE  LedgerInv'
<1>0. Amounts \subseteq Nat /\ height \in 0 .. MaxHeight /\ 0 \in 0 .. MaxHeight
  BY ConstantTypes DEF LedgerInv, TypeOK
<1>1. ASSUME NEW a \in Accounts, Register(a) PROVE LedgerInv'
  <2>1. order' \in [Accounts -> Nat] /\ virtual' \in [Accounts -> Nat]
    BY <1>1, EnrollType DEF Register
  <2>2. TypeOK'
    BY <1>1, <2>1 DEF Register, Call, job, LedgerInv, TypeOK
  <2> QED
    BY <1>1, <2>2, QueueUntouched DEF Register, job
<1>2. ASSUME NEW a \in Accounts, RewardVerifier(a) PROVE LedgerInv'
  <2>1. balance' \in [Holders -> Nat] /\ staked' \in [Accounts -> Nat] /\ emitted' \in Nat
    <3>1. CASE period > 0
      <4>1. Mint(a, AttestationReward, TRUE)
        BY <1>2, <3>1 DEF RewardVerifier
      <4> QED
        BY <4>1, MintType, ConstantTypes
    <3>2. CASE ~(period > 0)
      <4>1. balance' = [balance EXCEPT ![a] = @ + AttestationReward]
            /\ emitted' = emitted /\ staked' = staked
        BY <1>2, <3>2 DEF RewardVerifier
      <4> QED
        BY <4>1, ConstantTypes DEF LedgerInv, TypeOK, Holders
    <3> QED
      BY <3>1, <3>2
  <2>2. TypeOK'
    BY <1>2, <2>1 DEF RewardVerifier, Call, bootstrap, job, LedgerInv, TypeOK
  <2> QED
    BY <1>2, <2>2, QueueUntouched DEF RewardVerifier, job
<1>3. ASSUME NEW a \in Accounts, NEW x \in Amounts, RequestUnstake(a, x) PROVE LedgerInv'
  <2>1. staked' \in [Accounts -> Nat]
    BY <1>0, <1>3 DEF RequestUnstake, LedgerInv, TypeOK
  <2>2. CASE Cooldown = 0
    <3>1. balance' = [balance EXCEPT ![a] = @ + x] /\ due' = due
      BY <1>3, <2>2 DEF RequestUnstake
    <3>2. balance' \in [Holders -> Nat]
      BY <1>0, <3>1 DEF LedgerInv, TypeOK, Holders
    <3>3. TypeOK'
      BY <1>3, <2>1, <3>1, <3>2
      DEF RequestUnstake, Call, bootstrap, job, LedgerInv, TypeOK
    <3> QED
      BY <1>3, <3>1, <3>3, QueueUntouched DEF RequestUnstake, job
  <2>3. CASE Cooldown # 0
    <3> DEFINE q == [u \in Blocks |-> IF u >= height + Cooldown THEN due[a][u] + x ELSE due[a][u]]
    <3>1. balance' = balance /\ due' = [due EXCEPT ![a] = q]
      BY <1>3, <2>3 DEF RequestUnstake, LedgerInv, TypeOK
    <3>2. \A u \in Blocks : due[a][u] \in Nat /\ u \in Nat
      BY ConstantTypes DEF LedgerInv, TypeOK, Blocks
    <3>3. q \in [Blocks -> Nat]
      BY <1>0, <3>2
    <3>4. \A u, v \in Blocks : u <= v => q[u] <= q[v]
      <4> SUFFICES ASSUME NEW u \in Blocks, NEW v \in Blocks, u <= v PROVE q[u] <= q[v]
        OBVIOUS
      <4>1. due[a][u] <= due[a][v]
        BY DEF LedgerInv, DueGrows
      <4> QED
        BY <1>0, <3>2, <4>1, ConstantTypes
    <3> HIDE DEF q
    <3>5. due' \in [Accounts -> [Blocks -> Nat]]
      BY <3>1, <3>3 DEF LedgerInv, TypeOK
    <3>6. DueGrows'
      BY <3>1, <3>4 DEF LedgerInv, TypeOK, DueGrows
    <3>7. TypeOK'
      BY <1>3, <2>1, <3>1, <3>5
      DEF RequestUnstake, Call, bootstrap, job, LedgerInv, TypeOK
    <3> QED
      BY <1>3, <3>6, <3>7 DEF RequestUnstake, job, LedgerInv, IndexIsReached
  <2> QED
    BY <2>2, <2>3
<1>4. ASSUME NEW a \in Accounts, NEW x \in Amounts, Penalise(a, x) PROVE LedgerInv'
  <2> DEFINE cut == Smaller(x, staked[a] + balance[a])
             fromStake == Smaller(cut, staked[a])
  <2>1. staked[a] \in Nat /\ balance[a] \in Nat /\ a \in Holders
    BY DEF LedgerInv, TypeOK, Holders
  <2>2. fromStake \in Nat /\ fromStake <= staked[a] /\ balance[a] - (cut - fromStake) \in Nat
    BY <1>0, <2>1 DEF Smaller
  <2>3. /\ staked' = [staked EXCEPT ![a] = @ - fromStake]
        /\ balance' = [balance EXCEPT ![a] = @ - (cut - fromStake)]
    BY <1>4 DEF Penalise
  <2>4. staked' \in [Accounts -> Nat] /\ balance' \in [Holders -> Nat]
    <3> HIDE DEF cut, fromStake
    <3> QED
      BY <2>1, <2>2, <2>3 DEF LedgerInv, TypeOK
  <2>5. TypeOK'
    BY <1>4, <2>4 DEF Penalise, Call, bootstrap, job, LedgerInv, TypeOK
  <2> QED
    BY <1>4, <2>5, QueueUntouched DEF Penalise, job
<1>5. ASSUME NEW a \in Accounts, NEW x \in Amounts, NEW tip \in {0, height}, StakeTokens(a, x, tip)
      PROVE  LedgerInv'
  <2>1. tip \in 0 .. MaxHeight /\ x \in Nat /\ Liquid(a, tip) \in Nat
    BY <1>0, FlushShape
  <2>2. balance' \in [Holders -> Nat] /\ staked' \in [Accounts -> Nat] /\ due' = Flushed(a, tip)
    <3>1. CASE Liquid(a, tip) < x
      <4>1. Spend(a, 0, tip) /\ staked' = staked
        BY <1>5, <3>1 DEF StakeTokens
      <4> QED
        BY <2>1, <4>1, SpendType DEF LedgerInv, TypeOK
    <3>2. CASE ~(Liquid(a, tip) < x)
      <4>1. Spend(a, x, tip) /\ staked' = [staked EXCEPT ![a] = @ + x]
        BY <1>5, <3>2 DEF StakeTokens
      <4> QED
        BY <2>1, <3>2, <4>1, SpendType DEF LedgerInv, TypeOK
    <3> QED
      BY <3>1, <3>2
  <2>3. TypeOK'
    <3>1. due' \in [Accounts -> [Blocks -> Nat]]
      BY <2>1, <2>2, FlushShape
    <3> QED
      BY <1>5, <2>2, <3>1 DEF StakeTokens, Call, bootstrap, job, LedgerInv, TypeOK
  <2> QED
    BY <1>5, <2>1, <2>2, <2>3, QueueFlushed DEF StakeTokens, job
<1>6. ASSUME NEW a \in Accounts, NEW x \in Amounts, NEW b \in Accounts \cup {System}, Pay(a, b, x)
      PROVE  LedgerInv'
  <2>1. x \in Nat /\ PayOver(a, b, x, height)
    BY <1>0, <1>6 DEF Pay
  <2>2. balance' \in [Holders -> Nat] /\ due' = Flushed(a, height)
    BY <1>0, <2>1, PayOverType DEF PayOver
  <2>3. TypeOK'
    <3>1. due' \in [Accounts -> [Blocks -> Nat]]
      BY <1>0, <2>2, FlushShape
    <3> QED
      BY <1>6, <2>2, <3>1 DEF Pay, Call, bootstrap, job, LedgerInv, TypeOK
  <2> QED
    BY <1>0, <1>6, <2>2, <2>3, QueueFlushed DEF Pay, job
<1>7. ASSUME NEW m \in Models, NEW fee \in Amounts \cup {0}, NEW topup \in Amounts \cup {0},
             NEW iced \in BOOLEAN, RefreshTrainingData(m, fee, topup, iced)
      PROVE  LedgerInv'
  BY <1>0, <1>7, RefreshKeepsLedger
<1> QED
  BY <1>1, <1>2, <1>3, <1>4, <1>5, <1>6, <1>7 DEF Calls

\* Every step, and stuttering, keeps the ledger invariant.
LEMMA NextKeepsLedger ==
  ASSUME LedgerInv, [Next]_vars
  PROVE  LedgerInv'
<1>1. CASE ReceiveBlock
  <2>1. TypeOK'
    BY <1>1, ConstantTypes DEF ReceiveBlock, tokens, bootstrap, job, LedgerInv, TypeOK
  <2> QED
    BY <1>1, <2>1 DEF ReceiveBlock, tokens, job, LedgerInv, DueGrows, IndexIsReached, TypeOK
<1>2. CASE UNCHANGED vars
  <2>1. TypeOK'
    BY <1>2 DEF vars, tokens, bootstrap, job, LedgerInv, TypeOK
  <2> QED
    BY <1>2, <2>1, QueueUntouched DEF vars, tokens, job
<1> QED
  BY <1>1, <1>2, MiningKeepsLedger, CallsKeepLedger DEF Next

\* Whatever callers, gossip and the mining thread do, no balance, stake,
\* escrow or unbonding sum goes below zero, and a block is settled at a height
\* the chain has reached.
THEOREM LedgerTypeCorrect == Spec => []TypeOK
<1>1. LedgerInv /\ [Next]_vars => LedgerInv'
  BY NextKeepsLedger
<1>2. LedgerInv => TypeOK
  BY DEF LedgerInv
<1> QED
  BY InitLedger, <1>1, <1>2, PTL DEF Spec

-----------------------------------------------------------------------------
(* What genesis has paid out                                                *)

GenesisAccount == balance[Genesis] + emitted

\* A step that leaves genesis and the emission alone keeps the emission backed.
LEMMA GenesisUntouched ==
  ASSUME balance'[Genesis] = balance[Genesis], emitted' = emitted
  PROVE  GenesisAccount' = GenesisAccount
BY DEF GenesisAccount

\* Every step of the mining thread keeps the emission backed.
LEMMA MiningKeepsGenesis ==
  ASSUME LedgerInv, Mining
  PROVE  GenesisAccount' = GenesisAccount
<1>1. /\ Genesis \in Holders /\ balance \in [Holders -> Nat] /\ emitted \in Nat
      /\ height \in 0 .. MaxHeight /\ index \in 0 .. MaxHeight
  BY DEF Holders, LedgerInv, TypeOK
<1>2. CASE BeginRound \/ EnterRound \/ SkipRound \/ ChooseNoop
  BY <1>2, GenesisUntouched DEF BeginRound, EnterRound, SkipRound, ChooseNoop, tokens
<1>3. CASE ReadHeight \/ Settle \/ EndMaterialisation \/ AppendBlock \/ RankParticipants
  BY <1>3, GenesisUntouched
  DEF ReadHeight, Settle, EndMaterialisation, AppendBlock, RankParticipants, tokens
<1>4. ASSUME NEW m \in Models, Preflight(m) PROVE GenesisAccount' = GenesisAccount
  <2> DEFINE o == Owner[m]
             rest == Larger(0, Cost[m] - escrow[m])
  <2>1. CASE o = System \/ rest = 0
    BY <1>4, <2>1, GenesisUntouched DEF Preflight
  <2>2. CASE ~(o = System \/ rest = 0)
    <3>1. Spend(o, 0, height) /\ emitted' = emitted
      BY <1>4, <2>2 DEF Preflight
    <3>2. o \in Accounts
      BY <2>2, ConstantTypes
    <3> HIDE DEF o
    <3>3. balance'[Genesis] = balance[Genesis]
      <4>1. 0 \in Nat /\ 0 <= Liquid(o, height)
        BY <1>1, <3>2, FlushShape
      <4> QED
        BY <1>1, <3>1, <3>2, <4>1, SpendType
    <3> QED
      BY <3>1, <3>3, GenesisUntouched
  <2> QED
    BY <2>1, <2>2
<1>5. ASSUME FailTraining PROVE GenesisAccount' = GenesisAccount
  BY <1>5, GenesisUntouched DEF FailTraining, tokens
<1>6. ASSUME NEW a \in Accounts, Materialise(a) PROVE GenesisAccount' = GenesisAccount
  <2>1. CASE a \in slashed
    BY <1>6, <2>1, GenesisUntouched DEF Materialise
  <2>2. CASE a \notin slashed
    <3> DEFINE minted == Smaller(virtual[a] + Grant, balance[Genesis])
    <3>1. minted \in Nat
      <4>1. virtual[a] + Grant \in Nat /\ balance[Genesis] \in Nat
        BY <1>1, ConstantTypes DEF LedgerInv, TypeOK
      <4> QED
        BY <4>1, SmallerLargerType
    <3>2. balance' = [balance EXCEPT ![Genesis] = @ - minted] /\ emitted' = emitted + minted
      BY <1>6, <2>2 DEF Materialise
    <3> HIDE DEF minted
    <3> QED
      BY <1>1, <3>1, <3>2 DEF GenesisAccount
  <2> QED
    BY <2>1, <2>2
<1>7. CASE RewardMiner
  <2> DEFINE reward == Emission(period, index) + (IF model = Noop THEN 0 ELSE Bonus)
  <2>1. reward \in Nat /\ (period > 0) \in BOOLEAN /\ Me \in Accounts
    BY ConstantTypes DEF LedgerInv, TypeOK
  <2>2. Mint(Me, reward, period > 0)
    BY <1>7 DEF RewardMiner
  <2> HIDE DEF reward
  <2> QED
    BY <2>1, <2>2, MintType DEF GenesisAccount
<1>8. CASE PayMiner
  BY <1>8, PayMinerKeepsLedger, GenesisUntouched DEF PayMiner
<1> QED
  BY <1>2, <1>3, <1>4, <1>5, <1>6, <1>7, <1>8 DEF Mining

\* Every call from outside keeps the emission backed.
LEMMA CallsKeepGenesis ==
  ASSUME LedgerInv, Calls
  PROVE  GenesisAccount' = GenesisAccount
<1>1. /\ Genesis \in Holders /\ balance \in [Holders -> Nat] /\ emitted \in Nat
      /\ height \in 0 .. MaxHeight /\ 0 \in 0 .. MaxHeight
      /\ Amounts \subseteq Nat /\ Genesis \notin Accounts
  BY ConstantTypes DEF Holders, LedgerInv, TypeOK
<1>2. ASSUME NEW a \in Accounts, Register(a) PROVE GenesisAccount' = GenesisAccount
  BY <1>2, GenesisUntouched DEF Register
<1>3. ASSUME NEW a \in Accounts, RewardVerifier(a) PROVE GenesisAccount' = GenesisAccount
  <2>1. CASE period > 0
    <3>1. Mint(a, AttestationReward, TRUE)
      BY <1>3, <2>1 DEF RewardVerifier
    <3> QED
      BY <3>1, MintType, ConstantTypes DEF GenesisAccount
  <2>2. CASE ~(period > 0)
    <3>1. balance' = [balance EXCEPT ![a] = @ + AttestationReward] /\ emitted' = emitted
      BY <1>3, <2>2 DEF RewardVerifier
    <3> QED
      BY <1>1, <3>1 DEF GenesisAccount
  <2> QED
    BY <2>1, <2>2
<1>4. ASSUME NEW a \in Accounts, NEW x \in Amounts, RequestUnstake(a, x)
      PROVE  GenesisAccount' = GenesisAccount
  <2>1. balance'[Genesis] = balance[Genesis]
    BY <1>1, <1>4 DEF RequestUnstake
  <2> QED
    BY <1>4, <2>1, GenesisUntouched DEF RequestUnstake
<1>5. ASSUME NEW a \in Accounts, NEW x \in Amounts, Penalise(a, x)
      PROVE  GenesisAccount' = GenesisAccount
  <2>1. balance'[Genesis] = balance[Genesis]
    BY <1>1, <1>5 DEF Penalise
  <2> QED
    BY <1>5, <2>1, GenesisUntouched DEF Penalise
<1>6. ASSUME NEW a \in Accounts, NEW x \in Amounts, NEW tip \in {0, height}, StakeTokens(a, x, tip)
      PROVE  GenesisAccount' = GenesisAccount
  <2>1. Spend(a, 0, tip) \/ Spend(a, x, tip)
    BY <1>6 DEF StakeTokens
  <2>2. balance'[Genesis] = balance[Genesis]
    BY <1>1, <2>1 DEF Spend
  <2> QED
    BY <1>6, <2>2, GenesisUntouched DEF StakeTokens
<1>7. ASSUME NEW a \in Accounts, NEW x \in Amounts, NEW b \in Accounts \cup {System}, Pay(a, b, x)
      PROVE  GenesisAccount' = GenesisAccount
  <2>1. x \in Nat /\ PayOver(a, b, x, height) /\ emitted' = emitted
    BY <1>1, <1>7 DEF Pay
  <2> QED
    BY <1>1, <2>1, PayOverType, GenesisUntouched
<1>8. ASSUME NEW m \in Models, NEW fee \in Amounts \cup {0}, NEW topup \in Amounts \cup {0},
             NEW iced \in BOOLEAN, RefreshTrainingData(m, fee, topup, iced)
      PROVE  GenesisAccount' = GenesisAccount
  <2>1. emitted' = emitted
    BY <1>8 DEF RefreshTrainingData
  <2> QED
    BY <1>1, <1>8, <2>1, RefreshKeepsLedger, GenesisUntouched
<1> QED
  BY <1>2, <1>3, <1>4, <1>5, <1>6, <1>7, <1>8 DEF Calls

\* Rewards, grants and materialised stake come out of genesis and are counted
\* as they leave it, also when genesis can pay only a part.
THEOREM EmissionSafe == Spec => []EmissionIsBacked
<1>1. Init => GenesisAccount = Endowment
  <2> SUFFICES ASSUME Init PROVE GenesisAccount = Endowment
    OBVIOUS
  <2>1. balance[Genesis] = Endowment /\ emitted = 0
    BY DEF Init, Endowment, Holders
  <2> QED
    BY <2>1, EndowmentType DEF GenesisAccount
<1>2. LedgerInv /\ GenesisAccount = Endowment /\ [Next]_vars => (GenesisAccount = Endowment)'
  <2> SUFFICES ASSUME LedgerInv, GenesisAccount = Endowment, [Next]_vars
               PROVE  GenesisAccount' = Endowment'
    OBVIOUS
  <2>1. Endowment' = Endowment
    BY DEF Endowment
  <2>2. CASE ReceiveBlock \/ UNCHANGED vars
    BY <2>1, <2>2, GenesisUntouched DEF ReceiveBlock, vars, tokens
  <2> QED
    BY <2>1, <2>2, MiningKeepsGenesis, CallsKeepGenesis DEF Next
<1>3. GenesisAccount = Endowment => EmissionIsBacked
  BY DEF GenesisAccount, Endowment, EmissionIsBacked
<1>4. LedgerInv /\ [Next]_vars => LedgerInv'
  BY NextKeepsLedger
<1> QED
  BY InitLedger, <1>1, <1>2, <1>3, <1>4, PTL DEF Spec

-----------------------------------------------------------------------------
(* The lock of the unbonding queue                                          *)


KeepsLocked ==
  \A a \in Accounts : \A u \in Blocks :
    u > height => due[a][u] - due[a][height] <= due'[a][u] - due'[a][height]

\* A step that leaves the queue alone releases nothing early.
LEMMA QueueUnchangedKeepsLocked ==
  ASSUME LedgerInv, due' = due
  PROVE  KeepsLocked
<1>1. \A a \in Accounts : \A u \in Blocks : due[a][u] \in Nat
  BY DEF LedgerInv, TypeOK
<1>2. height \in Blocks
  BY ConstantTypes DEF LedgerInv, TypeOK, Blocks
<1> QED
  BY <1>1, <1>2 DEF KeepsLocked

\* Maturing at the tip or below it releases nothing that unlocks later.
LEMMA FlushKeepsLocked ==
  ASSUME LedgerInv, NEW a \in Accounts, NEW tip \in 0 .. MaxHeight, tip <= height,
         due' = Flushed(a, tip)
  PROVE  KeepsLocked
<1>1. /\ height \in Blocks /\ tip \in Blocks /\ Blocks \subseteq Nat
      /\ due \in [Accounts -> [Blocks -> Nat]]
  BY ConstantTypes, SMTT(30) DEF LedgerInv, TypeOK, Blocks
<1>2. SUFFICES ASSUME NEW c \in Accounts, NEW u \in Blocks, u > height
               PROVE  due[c][u] - due[c][height] <= due'[c][u] - due'[c][height]
  BY DEF KeepsLocked
<1>3. due[c][u] \in Nat /\ due[c][height] \in Nat /\ due[c][tip] \in Nat
  BY <1>1
<1>4. CASE c = a
  <2>1. \A v \in Blocks : due'[a][v] = IF v <= tip THEN 0 ELSE due[a][v] - due[a][tip]
    BY <1>1 DEF Flushed
  <2>2. due'[a][u] = due[a][u] - due[a][tip]
    BY <1>1, <1>2, <2>1
  <2>3. CASE height = tip
    BY <1>1, <1>3, <1>4, <2>1, <2>2, <2>3
  <2>4. CASE height # tip
    BY <1>1, <1>3, <1>4, <2>1, <2>2, <2>4
  <2> QED
    BY <2>3, <2>4
<1>5. CASE c # a
  <2>1. due'[c] = due[c]
    BY <1>1, <1>5 DEF Flushed
  <2> QED
    BY <1>3, <2>1
<1> QED
  BY <1>4, <1>5

\* A new entry of the queue releases nothing that was there.
LEMMA UnstakeKeepsLocked ==
  ASSUME LedgerInv, NEW a \in Accounts, NEW x \in Amounts, RequestUnstake(a, x)
  PROVE  KeepsLocked
<1>1. CASE Cooldown = 0
  BY <1>1, QueueUnchangedKeepsLocked DEF RequestUnstake
<1>2. CASE Cooldown # 0
  <2>1. /\ height \in Blocks /\ Blocks \subseteq Nat /\ x \in Nat /\ Cooldown \in Nat
        /\ height \in Nat /\ due \in [Accounts -> [Blocks -> Nat]]
    BY ConstantTypes, SMTT(30) DEF LedgerInv, TypeOK, Blocks
  <2>2. SUFFICES ASSUME NEW c \in Accounts, NEW u \in Blocks, u > height
                 PROVE  due[c][u] - due[c][height] <= due'[c][u] - due'[c][height]
    BY DEF KeepsLocked
  <2>3. due[c][u] \in Nat /\ due[c][height] \in Nat
    BY <2>1
  <2>4. due' = [due EXCEPT ![a] =
                 [v \in Blocks |-> IF v >= height + Cooldown THEN @[v] + x ELSE @[v]]]
    BY <1>2 DEF RequestUnstake
  <2>5. CASE c = a
    <3>1. \A v \in Blocks :
            due'[a][v] = IF v >= height + Cooldown THEN due[a][v] + x ELSE due[a][v]
      BY <2>1, <2>4
    <3>2. ~(height >= height + Cooldown)
      BY <1>2, <2>1
    <3>3. due'[a][height] = due[a][height]
      BY <2>1, <3>1, <3>2
    <3>4. due'[a][u] = due[a][u] \/ due'[a][u] = due[a][u] + x
      BY <3>1
    <3> QED
      BY <2>1, <2>3, <2>5, <3>3, <3>4
  <2>6. CASE c # a
    <3>1. due'[c] = due[c]
      BY <2>1, <2>4, <2>6
    <3> QED
      BY <2>3, <3>1
  <2> QED
    BY <2>5, <2>6
<1> QED
  BY <1>1, <1>2

\* Every step, and stuttering, releases nothing early.
LEMMA NextKeepsLocked ==
  ASSUME LedgerInv, [Next]_vars
  PROVE  KeepsLocked
<1>1. height \in 0 .. MaxHeight /\ 0 \in 0 .. MaxHeight /\ 0 <= height
  BY ConstantTypes DEF LedgerInv, TypeOK
<1>2. CASE \/ BeginRound \/ EnterRound \/ SkipRound \/ ChooseNoop \/ ReadHeight \/ Settle
           \/ EndMaterialisation \/ RewardMiner \/ RankParticipants \/ AppendBlock
           \/ ReceiveBlock \/ UNCHANGED vars
  <2>1. due' = due
    BY <1>2 DEF BeginRound, EnterRound, SkipRound, ChooseNoop, ReadHeight, Settle,
       EndMaterialisation, RewardMiner, RankParticipants, AppendBlock, ReceiveBlock, vars, tokens
  <2> QED
    BY <2>1, QueueUnchangedKeepsLocked
<1>3. ASSUME NEW a \in Accounts, Materialise(a) \/ Register(a) \/ RewardVerifier(a)
      PROVE  KeepsLocked
  BY <1>3, QueueUnchangedKeepsLocked DEF Materialise, Register, RewardVerifier
<1>4. ASSUME FailTraining PROVE KeepsLocked
  BY <1>4, QueueUnchangedKeepsLocked DEF FailTraining, tokens
<1>5. ASSUME NEW m \in Models, Preflight(m) PROVE KeepsLocked
  <2>1. \/ due' = due
        \/ Owner[m] # System /\ due' = Flushed(Owner[m], height)
    BY <1>5 DEF Preflight, Spend
  <2> QED
    BY <1>1, <2>1, QueueUnchangedKeepsLocked, FlushKeepsLocked, ConstantTypes
<1>6. CASE PayMiner
  <2>1. /\ index \in 0 .. MaxHeight /\ index <= height
        /\ MustPay => Owner[model] \in Accounts
    BY ConstantTypes DEF MustPay, LedgerInv, TypeOK, IndexIsReached
  <2>2. due' = due \/ (MustPay /\ due' = Flushed(Owner[model], index))
    BY <1>6, PayMinerKeepsLedger
  <2> QED
    BY <2>1, <2>2, QueueUnchangedKeepsLocked, FlushKeepsLocked
<1>7. ASSUME NEW a \in Accounts, NEW x \in Amounts, Penalise(a, x) PROVE KeepsLocked
  BY <1>7, QueueUnchangedKeepsLocked DEF Penalise
<1>8. ASSUME NEW a \in Accounts, NEW x \in Amounts, NEW tip \in {0, height}, StakeTokens(a, x, tip)
      PROVE  KeepsLocked
  <2>1. due' = Flushed(a, tip)
    BY <1>8 DEF StakeTokens, Spend
  <2> QED
    BY <1>1, <2>1, FlushKeepsLocked
<1>9. ASSUME NEW a \in Accounts, NEW x \in Amounts, NEW b \in Accounts \cup {System}, Pay(a, b, x)
      PROVE  KeepsLocked
  BY <1>1, <1>9, FlushKeepsLocked DEF Pay, PayOver
<1>10. ASSUME NEW m \in Models, NEW fee \in Amounts \cup {0}, NEW topup \in Amounts \cup {0},
              NEW iced \in BOOLEAN, RefreshTrainingData(m, fee, topup, iced)
       PROVE  KeepsLocked
  BY <1>1, <1>10, FlushKeepsLocked, ConstantTypes DEF RefreshTrainingData
<1> QED
  BY <1>2, <1>3, <1>4, <1>5, <1>6, <1>7, <1>8, <1>9, <1>10, UnstakeKeepsLocked
  DEF Next, Mining, Calls

\* Stake that was asked back leaves the queue no sooner than its unlock block,
\* also when a payment is settled at a height read long ago.
THEOREM LockHolds == Spec => UnbondingStaysLocked
<1>1. LedgerInv /\ [Next]_vars => LedgerInv'
  BY NextKeepsLedger
<1>2. LedgerInv /\ [Next]_vars => KeepsLocked
  BY NextKeepsLocked
<1>3. KeepsLocked => [\A a \in Accounts : \A u \in Blocks :
        u > height => due[a][u] - due[a][height] <= due'[a][u] - due'[a][height]]_vars
  BY DEF KeepsLocked
<1> QED
  BY InitLedger, <1>1, <1>2, <1>3, PTL DEF Spec, UnbondingStaysLocked

-----------------------------------------------------------------------------
(* The claim of the bootstrap stake                                         *)

\* Before it registers an account has no claim; materialisation runs at the
\* block that ends the bootstrap, once, and the height never falls back.
ClaimInv ==
  /\ VirtualStakeIsClaimedOnce
  /\ \A a \in Accounts : order[a] = 0 => virtual[a] = 0
  /\ stage = "mature" => index = period /\ ~materialised
  /\ materialised => period <= height

\* Registering hands the virtual stake to an address that had none.
LEMMA EnrollKeepsClaims ==
  ASSUME LedgerInv, ClaimInv, NEW a \in Accounts, MayRegister(a), Enroll(a),
         slashed' = slashed, materialised' = materialised, period' = period,
         height' = height, index' = index, todo' = todo,
         stage' = stage \/ stage' = "joined"
  PROVE  ClaimInv'
<1>1. /\ height \in Nat /\ period \in Nat /\ index \in Nat /\ index <= height
      /\ Cardinality(Registered) \in Nat
      /\ order \in [Accounts -> Nat] /\ virtual \in [Accounts -> Nat]
  BY ConstantTypes, RegisteredIsCounted DEF LedgerInv, TypeOK, IndexIsReached
<1>2. height < period /\ order[a] = 0 /\ a \notin slashed /\ virtual[a] = 0
  BY DEF MayRegister, InBootstrap, ClaimInv
<1>3. ~materialised /\ stage # "mature" /\ stage' # "mature"
  BY <1>1, <1>2 DEF ClaimInv
<1>4. \A b \in Accounts : /\ virtual'[b] = IF b = a THEN VirtualStake ELSE virtual[b]
                          /\ order'[b] > 0 <=> b = a \/ order[b] > 0
  BY <1>1, <1>2, ConstantTypes DEF Enroll
<1>5. \A b \in Accounts : virtual'[b] > 0 =>
        /\ virtual'[b] = VirtualStake /\ order'[b] > 0 /\ b \notin slashed
  BY <1>2, <1>4 DEF ClaimInv, VirtualStakeIsClaimedOnce, Participants, Registered
<1>6. VirtualStakeIsClaimedOnce'
  BY <1>3, <1>5 DEF VirtualStakeIsClaimedOnce, Participants, Registered
<1>7. \A b \in Accounts : order'[b] = 0 => virtual'[b] = 0
  <2>1. \A b \in Accounts : order'[b] \in Nat
    BY <1>1, ConstantTypes DEF Enroll
  <2> QED
    BY <1>1, <1>2, <1>4, <2>1 DEF ClaimInv
<1> QED
  BY <1>3, <1>6, <1>7 DEF ClaimInv

\* A step that leaves the bootstrap bookkeeping alone keeps the claims.
LEMMA ClaimsUntouched ==
  ASSUME ClaimInv, period' = period, order' = order, slashed' = slashed,
         materialised' = materialised, virtual' = virtual, height' = height,
         (index' = index /\ todo' = todo /\ stage' = stage) \/ stage' # "mature"
  PROVE  ClaimInv'
BY DEF ClaimInv, VirtualStakeIsClaimedOnce, Participants, Registered

\* Every step, and stuttering, keeps the claims on virtual stake.
LEMMA NextKeepsClaims ==
  ASSUME LedgerInv, ClaimInv, [Next]_vars
  PROVE  ClaimInv'
<1>1. CASE BeginRound
  <2>1. Me \in Accounts
    BY ConstantTypes
  <2>2. CASE MayRegister(Me)
    BY <1>1, <2>1, <2>2, EnrollKeepsClaims DEF BeginRound, At
  <2>3. CASE ~MayRegister(Me)
    BY <1>1, <2>3, ClaimsUntouched DEF BeginRound, At
  <2> QED
    BY <2>2, <2>3
<1>2. CASE EnterRound \/ SkipRound \/ ChooseNoop \/ ReadHeight
  <2>1. stage' # "mature"
    BY <1>2 DEF EnterRound, SkipRound, ChooseNoop, ReadHeight, At
  <2> QED
    BY <1>2, <2>1, ClaimsUntouched
    DEF EnterRound, SkipRound, ChooseNoop, ReadHeight, tokens, bootstrap
<1>3. CASE Settle
  <2>1. CASE period > 0 /\ index = period /\ ~materialised
    <3>1. /\ todo' = Registered /\ stage' = "mature" /\ index' = index
          /\ UNCHANGED <<period, order, slashed, materialised, virtual, height>>
      BY <1>3, <2>1 DEF Settle, At, tokens, bootstrap
    <3> QED
      BY <2>1, <3>1 DEF ClaimInv, VirtualStakeIsClaimedOnce, Participants, Registered
  <2>2. CASE ~(period > 0 /\ index = period /\ ~materialised)
    BY <1>3, <2>2, ClaimsUntouched DEF Settle, At, tokens, bootstrap
  <2> QED
    BY <2>1, <2>2
<1>4. ASSUME NEW a \in Accounts, Materialise(a) PROVE ClaimInv'
  <2>1. /\ stage = "mature" /\ stage' = stage /\ index' = index /\ todo' = todo \ {a}
        /\ UNCHANGED <<period, order, slashed, materialised, height>>
    BY <1>4 DEF Materialise, bootstrap
  <2>2. virtual'[a] = 0 /\ \A b \in Accounts : b # a => virtual'[b] = virtual[b]
    <3>1. CASE a \in slashed
      <4>1. virtual' = virtual /\ ~(virtual[a] > 0)
        BY <1>4, <3>1 DEF Materialise, ClaimInv, VirtualStakeIsClaimedOnce, Participants
      <4> QED
        BY <4>1 DEF LedgerInv, TypeOK
    <3>2. CASE a \notin slashed
      <4>1. virtual' = [virtual EXCEPT ![a] = 0]
        BY <1>4, <3>2 DEF Materialise
      <4> QED
        BY <4>1 DEF LedgerInv, TypeOK
    <3> QED
      BY <3>1, <3>2
  <2>3. VirtualStakeIsClaimedOnce'
    BY <2>1, <2>2 DEF ClaimInv, VirtualStakeIsClaimedOnce, Participants, Registered
  <2> QED
    BY <2>1, <2>2, <2>3 DEF ClaimInv
<1>5. CASE EndMaterialisation
  <2>1. /\ stage = "mature" /\ stage' = "reward" /\ todo = {} /\ materialised'
        /\ UNCHANGED <<period, order, slashed, virtual, height, index>>
    BY <1>5 DEF EndMaterialisation, At, tokens
  <2>2. \A a \in Accounts : ~(virtual[a] > 0)
    BY <2>1 DEF ClaimInv, VirtualStakeIsClaimedOnce
  <2>3. period <= height
    BY <2>1 DEF ClaimInv, LedgerInv, IndexIsReached
  <2> QED
    BY <2>1, <2>2, <2>3 DEF ClaimInv, VirtualStakeIsClaimedOnce
<1>6. CASE RankParticipants
  <2> DEFINE out == IF InBootstrap(index) THEN Participants \ Active ELSE {}
  <2>1. /\ stage' = "append" /\ slashed' = slashed \cup out
        /\ virtual' = [a \in Accounts |-> IF a \in out THEN 0 ELSE virtual[a]]
        /\ UNCHANGED <<period, order, materialised, height>>
    BY <1>6 DEF RankParticipants, At
  <2> HIDE DEF out
  <2> QED
    BY <2>1 DEF ClaimInv, VirtualStakeIsClaimedOnce, Participants, Registered
<1>7. CASE AppendBlock \/ ReceiveBlock
  <2>1. /\ height' = height + 1
        /\ stage' = stage \/ stage' = "idle"
        /\ UNCHANGED <<period, order, slashed, materialised, index, todo, virtual>>
    BY <1>7 DEF AppendBlock, ReceiveBlock, At, tokens, bootstrap, job
  <2>2. period <= height => period <= height'
    BY <2>1, ConstantTypes DEF LedgerInv, TypeOK
  <2> QED
    BY <2>1, <2>2 DEF ClaimInv, VirtualStakeIsClaimedOnce, Participants, Registered
<1>8. ASSUME NEW a \in Accounts, Register(a) PROVE ClaimInv'
  BY <1>8, EnrollKeepsClaims DEF Register, job
<1>9. CASE RewardMiner \/ PayMiner \/ UNCHANGED vars
  <2>1. stage' = stage \/ stage' # "mature"
    BY <1>9 DEF RewardMiner, PayMiner, At, vars, job
  <2> QED
    BY <1>9, <2>1, ClaimsUntouched DEF RewardMiner, PayMiner, vars, tokens, bootstrap, job
<1>10. ASSUME NEW m \in Models, Preflight(m) PROVE ClaimInv'
  <2>1. stage' # "mature"
    BY <1>10 DEF Preflight
  <2> QED
    BY <1>10, <2>1, ClaimsUntouched DEF Preflight, bootstrap
<1>11. ASSUME FailTraining PROVE ClaimInv'
  BY <1>11, ClaimsUntouched DEF FailTraining, At, tokens, bootstrap
<1>12. ASSUME NEW a \in Accounts, RewardVerifier(a) PROVE ClaimInv'
  BY <1>12, ClaimsUntouched DEF RewardVerifier, bootstrap, job
<1>13. ASSUME NEW a \in Accounts, NEW x \in Amounts, RequestUnstake(a, x) \/ Penalise(a, x)
       PROVE  ClaimInv'
  BY <1>13, ClaimsUntouched DEF RequestUnstake, Penalise, bootstrap, job
<1>14. ASSUME NEW a \in Accounts, NEW x \in Amounts, NEW tip \in {0, height}, StakeTokens(a, x, tip)
       PROVE  ClaimInv'
  BY <1>14, ClaimsUntouched DEF StakeTokens, bootstrap, job
<1>15. ASSUME NEW a \in Accounts, NEW x \in Amounts, NEW b \in Accounts \cup {System}, Pay(a, b, x)
       PROVE  ClaimInv'
  BY <1>15, ClaimsUntouched DEF Pay, bootstrap, job
<1>16. ASSUME NEW m \in Models, NEW fee \in Amounts \cup {0}, NEW topup \in Amounts \cup {0},
              NEW iced \in BOOLEAN, RefreshTrainingData(m, fee, topup, iced)
       PROVE  ClaimInv'
  BY <1>16, ClaimsUntouched DEF RefreshTrainingData, bootstrap, job
<1> QED
  BY <1>1, <1>2, <1>3, <1>4, <1>5, <1>6, <1>7, <1>8, <1>9, <1>10, <1>11, <1>12, <1>13, <1>14,
     <1>15, <1>16
  DEF Next, Mining, Calls

\* Virtual stake belongs to registered, unslashed participants and is turned
\* into real stake at most once, whenever the bootstrap ends.
THEOREM ClaimsSafe == Spec => []VirtualStakeIsClaimedOnce
<1>1. Init => ClaimInv
  BY DEF Init, ClaimInv, VirtualStakeIsClaimedOnce
<1>2. LedgerInv /\ ClaimInv /\ [Next]_vars => ClaimInv'
  BY NextKeepsClaims
<1>3. LedgerInv /\ [Next]_vars => LedgerInv'
  BY NextKeepsLedger
<1>4. ClaimInv => VirtualStakeIsClaimedOnce
  BY DEF ClaimInv
<1> QED
  BY InitLedger, <1>1, <1>2, <1>3, <1>4, PTL DEF Spec

-----------------------------------------------------------------------------
(* Strikes and freezing                                                     *)

\* Thread w trains m, or handles what came of it.
IsOn(w, m) == on[w] = m /\ doing[w] \in {"training"} \cup Striking

\* Whoever has met is recorded; where nobody met, a thread that is about to freeze
\* has counted enough, and what is frozen is left alone by threads and refreshes.
FreezeInv ==
  /\ TypeOKFreeze
  /\ \A w \in Threads : doing[w] \in {"training"} \cup Striking => on[w] \in Trainees
  /\ \A m \in Trainees : Meeting(m) => m \in crossed
  /\ \A w \in Threads :
       doing[w] = "freezing" /\ on[w] \notin crossed => strikes[on[w]] >= Strikes
  /\ \A m \in frozen \ crossed :
       /\ \A w \in Threads : ~IsOn(w, m)
       /\ \A r \in Refreshers : clearing[r] # m
  /\ FrozenWhileStruckOut

LEMMA InitFreezeInv == InitFreeze => FreezeInv
BY FreezeConstants DEF InitFreeze, FreezeInv, TypeOKFreeze, Meeting, IsOn, Striking, Stages,
   FrozenWhileStruckOut

\* Every step, and stuttering, keeps the two tables together.
LEMMA NextKeepsFreeze ==
  ASSUME FreezeInv, [NextFreeze]_freezeVars
  PROVE  FreezeInv'
<1> USE FreezeConstants DEF FreezeInv
<1>1. ASSUME NEW w \in Threads, Meet(crossed), on' = on, strikes' = strikes, frozen' = frozen,
             clearing' = clearing, TypeOKFreeze',
             \/ /\ doing' = [doing EXCEPT ![w] = "round"] \/ doing' = [doing EXCEPT ![w] = "idle"]
                /\ doing[w] \in {"idle", "round", "training"}
             \/ doing[w] = "training" /\ doing' = [doing EXCEPT ![w] = "counting"]
      PROVE  FreezeInv'
  <2>1. crossed \subseteq crossed' /\ \A m \in Trainees : Meeting(m)' => m \in crossed'
    BY <1>1 DEF Meet
  <2>2. \A v \in Threads :
          /\ doing'[v] \in {"training"} \cup Striking => doing[v] \in {"training"} \cup Striking
          /\ doing'[v] \in {"counted", "freezing"} <=> doing[v] \in {"counted", "freezing"}
          /\ doing'[v] = "freezing" => doing[v] = "freezing"
    BY <1>1 DEF TypeOKFreeze, Stages, Striking
  <2>3. FrozenWhileStruckOut'
    BY <1>1, <2>1, <2>2 DEF FrozenWhileStruckOut, BeingFrozen, BeingRefreshed
  <2>4. \A m \in frozen' \ crossed' :
          (\A v \in Threads : ~IsOn(v, m)') /\ \A r \in Refreshers : clearing'[r] # m
    BY <1>1, <2>1, <2>2 DEF IsOn
  <2> QED
    BY <1>1, <2>1, <2>2, <2>3, <2>4
<1>2. ASSUME NEW w \in Threads, Meet(crossed), NEW m \in Trainees, Train(w, m) PROVE FreezeInv'
  <2>1. crossed \subseteq crossed' /\ \A k \in Trainees : Meeting(k)' => k \in crossed'
    BY <1>2 DEF Meet
  <2>2. TypeOKFreeze'
    BY <1>2 DEF Train, Moves, Meet, TypeOKFreeze, Stages
  <2>3. /\ strikes' = strikes /\ frozen' = frozen /\ clearing' = clearing
        /\ doing[w] = "round" /\ on' = [on EXCEPT ![w] = m]
        /\ doing' = [doing EXCEPT ![w] = IF m \in frozen THEN "round" ELSE "training"]
    BY <1>2 DEF Train, Moves
  <2>4. /\ \A v \in Threads \ {w} : on'[v] = on[v] /\ doing'[v] = doing[v]
        /\ on'[w] = m /\ doing'[w] \in {"round", "training"}
        /\ doing'[w] = "training" => m \notin frozen
    BY <2>3 DEF TypeOKFreeze
  <2>5. FrozenWhileStruckOut'
    BY <2>1, <2>3, <2>4 DEF FrozenWhileStruckOut, BeingFrozen, BeingRefreshed
  <2>6. \A k \in frozen' \ crossed' :
          (\A v \in Threads : ~IsOn(v, k)') /\ \A r \in Refreshers : clearing'[r] # k
    BY <2>1, <2>3, <2>4 DEF IsOn, Striking
  <2> QED
    BY <2>1, <2>2, <2>3, <2>4, <2>5, <2>6 DEF Striking
<1>3. ASSUME NEW w \in Threads, Meet(crossed), on' = on, frozen' = frozen, clearing' = clearing,
             TypeOKFreeze', NEW c \in Nat, strikes' = [strikes EXCEPT ![on[w]] = c],
             doing[w] \in {"training", "counting"}, NEW s \in {"idle", "round", "counted"},
             doing' = [doing EXCEPT ![w] = s], s = "counted" \/ c = 0
      PROVE  FreezeInv'
  <2>1. crossed \subseteq crossed' /\ \A m \in Trainees : Meeting(m)' => m \in crossed'
    BY <1>3 DEF Meet
  <2>2. on[w] \in Trainees /\ IsOn(w, on[w])
    BY <1>3 DEF IsOn, Striking
  <2>3. /\ \A v \in Threads \ {w} : doing'[v] = doing[v]
        /\ doing'[w] = s
        /\ \A m \in Trainees \ {on[w]} : strikes'[m] = strikes[m]
        /\ strikes'[on[w]] = c
    BY <1>3, <2>2 DEF TypeOKFreeze
  <2>4. \A v \in Threads : doing'[v] \in {"training"} \cup Striking => doing[v] \in {"training"} \cup Striking
    BY <1>3, <2>3 DEF Striking
  <2>5. \A v \in Threads \ {w} : on[v] = on[w] /\ doing[v] \in Striking => on[w] \in crossed
    BY <2>2 DEF Meeting, IsOn, Striking
  <2>6. \A v \in Threads : doing'[v] = "freezing" /\ on'[v] \notin crossed' => strikes'[on'[v]] >= Strikes
    BY <1>3, <2>1, <2>3, <2>5 DEF Striking
  <2>7. \A m \in frozen' \ crossed' :
          (\A v \in Threads : ~IsOn(v, m)') /\ \A r \in Refreshers : clearing'[r] # m
    BY <1>3, <2>1, <2>4 DEF IsOn
  <2>8. FrozenWhileStruckOut'
    <3> SUFFICES ASSUME NEW m \in Trainees
                 PROVE  /\ strikes'[m] >= Strikes =>
                             m \in frozen' \/ BeingFrozen(m)' \/ BeingRefreshed(m)'
                        /\ m \in frozen' /\ m \notin crossed' => strikes'[m] >= Strikes
      BY DEF FrozenWhileStruckOut
    <3>1. CASE m = on[w]
      <4>1. m \in crossed \/ m \notin frozen
        BY <2>2, <3>1
      <4>2. s = "counted" => BeingFrozen(m)'
        BY <1>3, <2>3, <3>1 DEF BeingFrozen
      <4>3. s # "counted" => strikes'[m] = 0
        BY <1>3, <2>3, <3>1
      <4> QED
        BY <1>3, <2>1, <4>1, <4>2, <4>3
    <3>2. CASE m # on[w]
      <4>1. strikes'[m] = strikes[m] /\ (BeingRefreshed(m) => BeingRefreshed(m)')
        BY <1>3, <2>3, <3>2 DEF BeingRefreshed
      <4>2. BeingFrozen(m) => BeingFrozen(m)'
        BY <1>3, <2>3, <3>2 DEF BeingFrozen
      <4> QED
        BY <1>3, <2>1, <4>1, <4>2 DEF FrozenWhileStruckOut
    <3> QED
      BY <3>1, <3>2
  <2> QED
    BY <1>3, <2>1, <2>4, <2>6, <2>7, <2>8
<1>4. ASSUME NEW w \in Threads, Meet(crossed), ReadStrikes(w) PROVE FreezeInv'
  <2>1. crossed \subseteq crossed' /\ \A m \in Trainees : Meeting(m)' => m \in crossed'
    BY <1>4 DEF Meet
  <2>2. TypeOKFreeze'
    BY <1>4 DEF ReadStrikes, Moves, Meet, TypeOKFreeze, Stages, Striking
  <2>3. /\ strikes' = strikes /\ frozen' = frozen /\ clearing' = clearing /\ on' = on
        /\ doing[w] = "counted" /\ on[w] \in Trainees
        /\ doing' = [doing EXCEPT ![w] = IF strikes[on[w]] >= Strikes THEN "freezing" ELSE "round"]
    BY <1>4 DEF ReadStrikes, Moves, ReachesCap, Striking
  <2>4. /\ \A v \in Threads \ {w} : doing'[v] = doing[v]
        /\ strikes[on[w]] >= Strikes => doing'[w] = "freezing"
        /\ ~(strikes[on[w]] >= Strikes) => doing'[w] = "round"
    BY <2>3 DEF TypeOKFreeze
  <2>5. \A v \in Threads : doing'[v] \in {"training"} \cup Striking => doing[v] \in {"training"} \cup Striking
    BY <2>3, <2>4 DEF Striking
  <2>6. FrozenWhileStruckOut'
    BY <2>1, <2>3, <2>4 DEF FrozenWhileStruckOut, BeingFrozen, BeingRefreshed
  <2>7. \A m \in frozen' \ crossed' :
          (\A v \in Threads : ~IsOn(v, m)') /\ \A r \in Refreshers : clearing'[r] # m
    BY <2>1, <2>3, <2>5 DEF IsOn
  <2>8. \A v \in Threads : doing'[v] = "freezing" /\ on'[v] \notin crossed' => strikes'[on'[v]] >= Strikes
    BY <2>1, <2>3, <2>4
  <2> QED
    BY <2>1, <2>2, <2>3, <2>5, <2>6, <2>7, <2>8
<1>5. ASSUME NEW w \in Threads, Meet(crossed), Freeze(w) PROVE FreezeInv'
  <2>1. crossed \subseteq crossed' /\ \A m \in Trainees : Meeting(m)' => m \in crossed'
    BY <1>5 DEF Meet
  <2>2. /\ strikes' = strikes /\ clearing' = clearing /\ on' = on /\ on[w] \in Trainees
        /\ doing[w] = "freezing" /\ doing' = [doing EXCEPT ![w] = "round"]
        /\ frozen' = frozen \cup {on[w]}
    BY <1>5 DEF Freeze, Moves, Striking
  <2>3. TypeOKFreeze'
    BY <1>5, <2>2 DEF Freeze, Meet, TypeOKFreeze, Stages
  <2>4. doing'[w] = "round" /\ \A v \in Threads \ {w} : doing'[v] = doing[v]
    BY <2>2 DEF TypeOKFreeze
  <2>5. \A v \in Threads : doing'[v] \in {"training"} \cup Striking => doing[v] \in {"training"} \cup Striking
    BY <2>4 DEF Striking
  <2>6. on[w] \notin crossed =>
          /\ strikes[on[w]] >= Strikes
          /\ \A v \in Threads \ {w} : ~IsOn(v, on[w])
          /\ \A r \in Refreshers : clearing[r] # on[w]
    BY <2>2 DEF Meeting, IsOn, Striking
  <2>7. \A m \in frozen' \ crossed' :
          (\A v \in Threads : ~IsOn(v, m)') /\ \A r \in Refreshers : clearing'[r] # m
    BY <2>1, <2>2, <2>4, <2>5, <2>6 DEF IsOn, Striking
  <2>8. FrozenWhileStruckOut'
    BY <2>1, <2>2, <2>4, <2>6 DEF FrozenWhileStruckOut, BeingFrozen, BeingRefreshed
  <2> QED
    BY <2>1, <2>2, <2>3, <2>4, <2>5, <2>7, <2>8
<1>6. ASSUME NEW r \in Refreshers, NEW m \in Trainees, Thaw(r, m), Meet(crossed \ {m}) PROVE FreezeInv'
  <2>1. crossed \ {m} \subseteq crossed' /\ \A k \in Trainees : Meeting(k)' => k \in crossed'
    BY <1>6 DEF Meet
  <2>2. /\ strikes' = strikes /\ on' = on /\ doing' = doing /\ frozen' = frozen \ {m}
        /\ clearing' = [clearing EXCEPT ![r] = m] /\ clearing[r] = NoModel
    BY <1>6 DEF Thaw
  <2>3. TypeOKFreeze'
    BY <1>6, <2>2 DEF Thaw, Meet, TypeOKFreeze
  <2>4. clearing'[r] = m /\ \A q \in Refreshers \ {r} : clearing'[q] = clearing[q]
    BY <2>2 DEF TypeOKFreeze
  <2>5. \A v \in Threads : on[v] = m /\ doing[v] \in Striking => Meeting(m)'
    BY <2>2, <2>4 DEF Meeting
  <2>6. \A v \in Threads : doing'[v] = "freezing" /\ on'[v] \notin crossed' => strikes'[on'[v]] >= Strikes
    BY <2>1, <2>2, <2>5 DEF Striking
  <2>7. \A k \in frozen' \ crossed' :
          (\A v \in Threads : ~IsOn(v, k)') /\ \A q \in Refreshers : clearing'[q] # k
    BY <2>1, <2>2, <2>4 DEF IsOn
  <2>8. FrozenWhileStruckOut'
    BY <2>1, <2>2, <2>4 DEF FrozenWhileStruckOut, BeingFrozen, BeingRefreshed
  <2> QED
    BY <2>1, <2>2, <2>3, <2>6, <2>7, <2>8
<1>7. ASSUME NEW r \in Refreshers, ForgetStrikes(r), Meet(crossed) PROVE FreezeInv'
  <2>1. crossed \subseteq crossed' /\ \A k \in Trainees : Meeting(k)' => k \in crossed'
    BY <1>7 DEF Meet
  <2> DEFINE m == clearing[r]
  <2>2. /\ on' = on /\ doing' = doing /\ frozen' = frozen /\ m \in Trainees
        /\ strikes' = [strikes EXCEPT ![m] = 0] /\ clearing' = [clearing EXCEPT ![r] = NoModel]
    BY <1>7 DEF ForgetStrikes, TypeOKFreeze
  <2>3. TypeOKFreeze'
    BY <1>7, <2>2 DEF ForgetStrikes, Meet, TypeOKFreeze
  <2>4. /\ clearing'[r] = NoModel /\ \A q \in Refreshers \ {r} : clearing'[q] = clearing[q]
        /\ strikes'[m] = 0 /\ \A k \in Trainees \ {m} : strikes'[k] = strikes[k]
    BY <2>2 DEF TypeOKFreeze
  <2>5. \A v \in Threads : on[v] = m /\ doing[v] = "freezing" => m \in crossed
    BY <2>2 DEF Meeting, Striking
  <2>6. \A v \in Threads : doing'[v] = "freezing" /\ on'[v] \notin crossed' => strikes'[on'[v]] >= Strikes
    BY <2>1, <2>2, <2>4, <2>5 DEF Striking
  <2>7. \A k \in frozen' \ crossed' :
          (\A v \in Threads : ~IsOn(v, k)') /\ \A q \in Refreshers : clearing'[q] # k
    BY <2>1, <2>2, <2>4 DEF IsOn, TypeOKFreeze
  <2>8. FrozenWhileStruckOut'
    BY <2>1, <2>2, <2>4 DEF FrozenWhileStruckOut, BeingFrozen, BeingRefreshed
  <2> QED
    BY <2>1, <2>2, <2>3, <2>6, <2>7, <2>8
<1>8. ASSUME NEW w \in Threads, Meet(crossed),
             \/ ListTrainable(w) \/ AbandonTraining(w) \/ LeaveRound(w) \/ MissImprovement(w)
      PROVE  FreezeInv'
  <2>1. TypeOKFreeze'
    BY <1>8 DEF ListTrainable, AbandonTraining, LeaveRound, MissImprovement, Moves, Meet,
       TypeOKFreeze, Stages, Striking
  <2> QED
    BY <1>1, <1>8, <2>1 DEF ListTrainable, AbandonTraining, LeaveRound, MissImprovement, Moves
<1>9. ASSUME NEW w \in Threads, Meet(crossed), CountStrike(w) PROVE FreezeInv'
  <2>1. read[w] + 1 \in Nat
    BY DEF TypeOKFreeze
  <2>2. TypeOKFreeze'
    BY <1>9, <2>1 DEF CountStrike, Moves, Meet, TypeOKFreeze, Stages, Striking
  <2> QED
    BY <1>3, <1>9, <2>1, <2>2 DEF CountStrike, Moves
<1>10. ASSUME NEW w \in Threads, Meet(crossed), ClearStrikes(w) PROVE FreezeInv'
  <2>1. TypeOKFreeze'
    BY <1>10 DEF ClearStrikes, Moves, Meet, TypeOKFreeze, Stages
  <2> QED
    BY <1>3, <1>10, <2>1 DEF ClearStrikes, Moves
<1>11. CASE UNCHANGED freezeVars
  BY <1>11 DEF freezeVars, TypeOKFreeze, Meeting, IsOn, FrozenWhileStruckOut, BeingFrozen, BeingRefreshed
<1> QED
  BY <1>2, <1>4, <1>5, <1>6, <1>7, <1>8, <1>9, <1>10, <1>11 DEF NextFreeze

\* The tables of strikes and of freezes agree wherever no two threads have met.
THEOREM FreezeSafe == SpecFreeze => []FrozenWhileStruckOut
<1>1. FreezeInv => FrozenWhileStruckOut
  BY DEF FreezeInv
<1> QED
  BY InitFreezeInv, NextKeepsFreeze, <1>1, PTL DEF SpecFreeze
-----------------------------------------------------------------------------
(* Conservation                                                             *)

Liquids == SumFunctionOnSet(balance, Holders)
InStake == SumFunctionOnSet(staked, Accounts)
InEscrow == SumFunctionOnSet(escrow, Models)

\* All that is queued, whenever it unlocks.
Unbonding == [a \in Accounts |-> due[a][MaxHeight + Cooldown]]
InQueue == SumFunctionOnSet(Unbonding, Accounts)

\* What the ledger and the wallet hold and what was destroyed, less what
\* "system" paid out of nothing.
Wealth == Liquids + InStake + InQueue + InEscrow + wallet + burnt - issued

MoneyInv == LedgerInv /\ burnt \in Int /\ issued \in Int /\ Wealth = Supply + StartWallet

LEMMA HoldersAreFinite == IsFiniteSet(Holders) /\ IsFiniteSet(Accounts) /\ IsFiniteSet(Models)
<1>1. Holders = Accounts \cup {Genesis, System}
  BY DEF Holders
<1>2. IsFiniteSet({Genesis})
  BY FS_Singleton
<1>3. IsFiniteSet({Genesis} \cup {System}) /\ {Genesis} \cup {System} = {Genesis, System}
  BY <1>2, FS_AddElement
<1> QED BY <1>1, <1>3, FS_Union, EconomicsConstants

\* The sums are numbers.
LEMMA SumTypes ==
  ASSUME LedgerInv
  PROVE  /\ Liquids \in Int /\ InStake \in Int /\ InEscrow \in Int /\ InQueue \in Int
         /\ wallet \in Int
         /\ \A h \in Holders : balance[h] \in Int
         /\ \A a \in Accounts : staked[a] \in Int /\ Unbonding[a] \in Int
         /\ \A m \in Models : escrow[m] \in Int
<1>1. MaxHeight + Cooldown \in Blocks
  BY ConstantTypes DEF Blocks
<1>2. /\ \A h \in Holders : balance[h] \in Int
      /\ \A a \in Accounts : staked[a] \in Int /\ Unbonding[a] \in Int
      /\ \A m \in Models : escrow[m] \in Int
      /\ wallet \in Int
  BY <1>1 DEF Unbonding, LedgerInv, TypeOK
<1> QED
  BY <1>2, HoldersAreFinite, SumInt DEF Liquids, InStake, InEscrow, InQueue

\* They still are after a step that keeps the ledger.
LEMMA SumTypesNext ==
  ASSUME LedgerInv'
  PROVE  Liquids' \in Int /\ InStake' \in Int /\ InEscrow' \in Int /\ InQueue' \in Int
<1>1. MaxHeight + Cooldown \in Blocks
  BY ConstantTypes DEF Blocks
<1>2. /\ \A h \in Holders : balance'[h] \in Int
      /\ \A a \in Accounts : staked'[a] \in Int /\ Unbonding'[a] \in Int
      /\ \A m \in Models : escrow'[m] \in Int
  BY <1>1 DEF Unbonding, LedgerInv, TypeOK
<1> QED
  BY <1>2, HoldersAreFinite, SumInt DEF Liquids, InStake, InEscrow, InQueue

\* One balance, one stake or one escrow is overwritten.
LEMMA LiquidSet ==
  ASSUME LedgerInv, NEW a \in Holders, NEW v \in Int
  PROVE  balance' = [balance EXCEPT ![a] = v] => Liquids' = Liquids - balance[a] + v
<1>1. balance \in [Holders -> Int]
  BY DEF LedgerInv, TypeOK
<1>2. balance' = [balance EXCEPT ![a] = v]
        => (\A y \in Holders \ {a} : balance'[y] = balance[y]) /\ balance'[a] = v
  BY <1>1
<1>3. ASSUME \A y \in Holders \ {a} : balance'[y] = balance[y], balance'[a] = v
      PROVE  Liquids' = Liquids - balance[a] + v
  BY <1>1, <1>3, HoldersAreFinite, SumUpdate DEF Liquids
<1> QED BY <1>2, <1>3

LEMMA StakeSet ==
  ASSUME LedgerInv, NEW a \in Accounts, NEW v \in Int
  PROVE  staked' = [staked EXCEPT ![a] = v] => InStake' = InStake - staked[a] + v
<1>1. staked \in [Accounts -> Int]
  BY DEF LedgerInv, TypeOK
<1>2. staked' = [staked EXCEPT ![a] = v]
        => (\A y \in Accounts \ {a} : staked'[y] = staked[y]) /\ staked'[a] = v
  BY <1>1
<1>3. ASSUME \A y \in Accounts \ {a} : staked'[y] = staked[y], staked'[a] = v
      PROVE  InStake' = InStake - staked[a] + v
  BY <1>1, <1>3, HoldersAreFinite, SumUpdate DEF InStake
<1> QED BY <1>2, <1>3

LEMMA EscrowSet ==
  ASSUME LedgerInv, NEW m \in Models, NEW v \in Int
  PROVE  escrow' = [escrow EXCEPT ![m] = v] => InEscrow' = InEscrow - escrow[m] + v
<1>1. escrow \in [Models -> Int]
  BY DEF LedgerInv, TypeOK
<1>2. escrow' = [escrow EXCEPT ![m] = v]
        => (\A y \in Models \ {m} : escrow'[y] = escrow[y]) /\ escrow'[m] = v
  BY <1>1
<1>3. ASSUME \A y \in Models \ {m} : escrow'[y] = escrow[y], escrow'[m] = v
      PROVE  InEscrow' = InEscrow - escrow[m] + v
  BY <1>1, <1>3, HoldersAreFinite, SumUpdate DEF InEscrow
<1> QED BY <1>2, <1>3

\* One balance is overwritten and then another, or the same one, grows.
LEMMA LiquidMoved ==
  ASSUME LedgerInv, NEW a \in Holders, NEW b \in Holders, NEW v \in Int, NEW x \in Int
  PROVE  balance' = [[balance EXCEPT ![a] = v] EXCEPT ![b] = @ + x]
           => Liquids' = Liquids - balance[a] + v + x
<1> DEFINE mid == [balance EXCEPT ![a] = v]
<1>1. balance \in [Holders -> Int] /\ \A y \in Holders : balance[y] \in Int
  BY DEF LedgerInv, TypeOK
<1>2. (\A y \in Holders \ {a} : mid[y] = balance[y]) /\ mid[a] = v /\ mid \in [Holders -> Int]
  BY <1>1
<1> HIDE DEF mid
<1>3. \A y \in Holders : mid[y] \in Int
  BY <1>2
<1>4. mid[b] \in Int /\ mid[b] + x \in Int
  BY <1>3
<1>5. SumFunctionOnSet(mid, Holders) = SumFunctionOnSet(balance, Holders) - balance[a] + v
  BY <1>1, <1>2, HoldersAreFinite, SumUpdate
<1>6. balance' = [[balance EXCEPT ![a] = v] EXCEPT ![b] = @ + x]
        => (\A y \in Holders \ {b} : balance'[y] = mid[y]) /\ balance'[b] = mid[b] + x
  BY <1>2 DEF mid
<1>7. ASSUME \A y \in Holders \ {b} : balance'[y] = mid[y], balance'[b] = mid[b] + x
      PROVE  Liquids' = Liquids - balance[a] + v + x
  <2>1. SumFunctionOnSet(balance', Holders)
          = SumFunctionOnSet(mid, Holders) - mid[b] + (mid[b] + x)
    BY <1>3, <1>4, <1>7, HoldersAreFinite, SumUpdate
  <2>2. SumFunctionOnSet(balance, Holders) \in Int /\ balance[a] \in Int
    BY <1>1, HoldersAreFinite, SumInt
  <2> QED BY <1>4, <1>5, <2>1, <2>2 DEF Liquids
<1> QED BY <1>6, <1>7

\* What matures leaves the queue.
LEMMA QueueMatures ==
  ASSUME LedgerInv, NEW a \in Accounts, NEW tip \in 0 .. MaxHeight, due' = Flushed(a, tip)
  PROVE  /\ InQueue' = InQueue - due[a][tip] /\ due[a][tip] \in Int
         /\ Liquid(a, tip) = balance[a] + due[a][tip] /\ Liquid(a, tip) \in Int
<1>1. MaxHeight + Cooldown \in Blocks /\ tip \in Blocks /\ tip <= MaxHeight + Cooldown
  BY ConstantTypes DEF Blocks
<1>2. due \in [Accounts -> [Blocks -> Nat]]
  BY DEF LedgerInv, TypeOK
<1>3. /\ \A c \in Accounts \ {a} : Unbonding'[c] = Unbonding[c]
      /\ Unbonding'[a] = Unbonding[a] - due[a][tip]
  <2> DEFINE q == [u \in Blocks |-> IF u <= tip THEN 0 ELSE due[a][u] - due[a][tip]]
             Top == MaxHeight + Cooldown
  <2>1. due' = [due EXCEPT ![a] = q]
    BY DEF Flushed, LedgerInv, TypeOK
  <2>2. \A u \in Blocks : due[a][u] \in Int
    BY <1>2
  <2>3. q[Top] = due[a][Top] - due[a][tip]
    <3>1. q[Top] = IF Top <= tip THEN 0 ELSE due[a][Top] - due[a][tip]
      BY <1>1
    <3>2. Top <= tip => Top = tip
      BY <1>1, ConstantTypes
    <3> HIDE DEF q, Top
    <3> QED BY <1>1, <2>2, <3>1, <3>2
  <2> HIDE DEF q
  <2>4. due'[a] = q /\ \A c \in Accounts \ {a} : due'[c] = due[c]
    BY <1>2, <2>1
  <2>5. /\ \A c \in Accounts : Unbonding[c] = due[c][Top]
        /\ \A c \in Accounts : Unbonding'[c] = due'[c][Top]
    BY DEF Unbonding
  <2> HIDE DEF Top
  <2> QED BY <2>3, <2>4, <2>5
<1>4. due[a][tip] \in Int
  BY <1>1, <1>2
<1>5. Unbonding[a] \in Int /\ \A c \in Accounts : Unbonding[c] \in Int
  BY SumTypes
<1>6. Unbonding'[a] \in Int
  BY <1>3, <1>4, <1>5
<1>7. SumFunctionOnSet(Unbonding', Accounts)
        = SumFunctionOnSet(Unbonding, Accounts) - Unbonding[a] + Unbonding'[a]
  <2> DEFINE f == Unbonding
             g == Unbonding'
  <2>1. (\A c \in Accounts \ {a} : g[c] = f[c]) /\ g[a] \in Int /\ \A c \in Accounts : f[c] \in Int
    BY <1>3, <1>5, <1>6
  <2> HIDE DEF f, g
  <2>2. SumFunctionOnSet(g, Accounts) = SumFunctionOnSet(f, Accounts) - f[a] + g[a]
    BY <2>1, HoldersAreFinite, SumUpdate
  <2> QED BY <2>2 DEF f, g
<1>8. InQueue \in Int /\ InQueue' = SumFunctionOnSet(Unbonding', Accounts)
  BY SumTypes DEF InQueue
<1>9. InQueue' = InQueue - due[a][tip]
  BY <1>3, <1>4, <1>5, <1>7, <1>8 DEF InQueue
<1> QED
  BY <1>4, <1>9, FlushShape DEF Liquid

\* What is asked back enters the queue.
LEMMA QueueGrows ==
  ASSUME LedgerInv, NEW a \in Accounts, NEW x \in Nat, height \in 0 .. MaxHeight,
         due' = [due EXCEPT ![a] =
                   [u \in Blocks |-> IF u >= height + Cooldown THEN @[u] + x ELSE @[u]]]
  PROVE  InQueue' = InQueue + x
<1> DEFINE Top == MaxHeight + Cooldown
           f == Unbonding
           g == Unbonding'
<1>1. Top \in Blocks /\ Top >= height + Cooldown
  BY ConstantTypes DEF Blocks
<1>2. due \in [Accounts -> [Blocks -> Nat]]
  BY DEF LedgerInv, TypeOK
<1>3. due'[a][Top] = due[a][Top] + x /\ \A c \in Accounts \ {a} : due'[c] = due[c]
  BY <1>1, <1>2
<1>4. /\ \A c \in Accounts : f[c] = due[c][Top] /\ f[c] \in Int
      /\ \A c \in Accounts : g[c] = due'[c][Top]
  BY <1>1, <1>2 DEF Unbonding
<1> HIDE DEF f, g, Top
<1>5. g[a] = f[a] + x /\ (\A c \in Accounts \ {a} : g[c] = f[c]) /\ f[a] + x \in Int
  <2>1. g[a] = due'[a][Top] /\ f[a] = due[a][Top] /\ f[a] \in Int
    BY <1>4
  <2>2. \A c \in Accounts \ {a} : g[c] = due'[c][Top] /\ f[c] = due[c][Top]
    BY <1>4
  <2>3. \A c \in Accounts \ {a} : g[c] = f[c]
    BY <1>3, <2>2, Zenon
  <2>4. g[a] = f[a] + x
    BY <1>3, <2>1, Zenon
  <2> QED BY <2>1, <2>3, <2>4
<1>6. SumFunctionOnSet(g, Accounts) = SumFunctionOnSet(f, Accounts) - f[a] + (f[a] + x)
  BY <1>4, <1>5, HoldersAreFinite, SumUpdate
<1>7. SumFunctionOnSet(f, Accounts) \in Int /\ f[a] \in Int
  BY <1>4, HoldersAreFinite, SumInt
<1>8. SumFunctionOnSet(g, Accounts) = SumFunctionOnSet(f, Accounts) + x
  BY <1>6, <1>7
<1> QED BY <1>8 DEF f, g, InQueue

\* Spending takes x from what is liquid or queued.
LEMMA SpendWealth ==
  ASSUME LedgerInv, NEW a \in Accounts, NEW x \in Nat, NEW tip \in 0 .. MaxHeight,
         Spend(a, x, tip)
  PROVE  Liquids' + InQueue' = Liquids + InQueue - x
<1>1. due' = Flushed(a, tip) /\ balance' = [balance EXCEPT ![a] = Liquid(a, tip) - x]
  BY DEF Spend
<1>2. /\ InQueue' = InQueue - due[a][tip] /\ due[a][tip] \in Int
      /\ Liquid(a, tip) = balance[a] + due[a][tip] /\ Liquid(a, tip) \in Int
  BY <1>1, QueueMatures
<1>3. a \in Holders /\ Liquid(a, tip) - x \in Int
  BY <1>2 DEF Holders
<1>4. Liquids' = Liquids - balance[a] + (Liquid(a, tip) - x)
  BY <1>1, <1>3, LiquidSet
<1> QED BY <1>2, <1>3, <1>4, SumTypes

\* A payment, granted or refused, changes nothing in total.
LEMMA PayOverWealth ==
  ASSUME LedgerInv, NEW a \in Accounts, NEW b \in Accounts \cup {System}, NEW x \in Nat,
         NEW tip \in 0 .. MaxHeight, PayOver(a, b, x, tip)
  PROVE  Liquids' + InQueue' = Liquids + InQueue
<1>1. due' = Flushed(a, tip)
  BY DEF PayOver
<1>2. /\ InQueue' = InQueue - due[a][tip] /\ due[a][tip] \in Int
      /\ Liquid(a, tip) = balance[a] + due[a][tip] /\ Liquid(a, tip) \in Int
  BY <1>1, QueueMatures
<1>3. a \in Holders /\ b \in Holders /\ Liquid(a, tip) - x \in Int
  BY <1>2 DEF Holders
<1>4. CASE Liquid(a, tip) < x
  <2>1. balance' = [balance EXCEPT ![a] = Liquid(a, tip)]
    BY <1>4 DEF PayOver
  <2>2. Liquids' = Liquids - balance[a] + Liquid(a, tip)
    BY <1>2, <1>3, <2>1, LiquidSet
  <2> QED BY <1>2, <1>3, <2>2, SumTypes
<1>5. CASE ~(Liquid(a, tip) < x)
  <2>0. x \in Int
    OBVIOUS
  <2>1. balance' = [[balance EXCEPT ![a] = Liquid(a, tip) - x] EXCEPT ![b] = @ + x]
    BY <1>5 DEF PayOver
  <2>2. Liquids' = Liquids - balance[a] + (Liquid(a, tip) - x) + x
    BY <1>3, <2>0, <2>1, LiquidMoved, Zenon
  <2> QED BY <1>2, <1>3, <2>2, SumTypes
<1> QED BY <1>4, <1>5

\* Minting moves tokens from genesis.
LEMMA MintWealth ==
  ASSUME LedgerInv, NEW a \in Accounts, NEW x \in Nat, NEW toStake \in BOOLEAN,
         Mint(a, x, toStake)
  PROVE  Liquids' + InStake' = Liquids + InStake
<1> DEFINE pay == Smaller(x, balance[Genesis])
<1>1. balance[Genesis] \in Nat /\ Genesis \in Holders /\ a \in Holders /\ a # Genesis
  BY ConstantTypes DEF LedgerInv, TypeOK, Holders
<1>2. pay \in Nat /\ balance[Genesis] - pay \in Int
  BY <1>1, SmallerLargerType
<1>3. CASE toStake
  <2>1. balance' = [balance EXCEPT ![Genesis] = balance[Genesis] - pay]
        /\ staked' = [staked EXCEPT ![a] = staked[a] + pay]
    BY <1>3 DEF Mint
  <2>2. staked[a] + pay \in Int /\ staked[a] \in Int
    BY <1>2, SumTypes
  <2> HIDE DEF pay
  <2>3. Liquids' = Liquids - balance[Genesis] + (balance[Genesis] - pay)
    BY <1>1, <1>2, <2>1, LiquidSet
  <2>4. InStake' = InStake - staked[a] + (staked[a] + pay)
    BY <2>1, <2>2, StakeSet
  <2> QED BY <1>1, <1>2, <2>2, <2>3, <2>4, SumTypes
<1>4. CASE ~toStake
  <2>1. balance' = [balance EXCEPT ![Genesis] = @ - pay, ![a] = @ + pay] /\ staked' = staked
    BY <1>4 DEF Mint
  <2> HIDE DEF pay
  <2>2. balance' = [[balance EXCEPT ![Genesis] = balance[Genesis] - pay] EXCEPT ![a] = @ + pay]
    BY <1>1, <2>1 DEF LedgerInv, TypeOK
  <2>3. Liquids' = Liquids - balance[Genesis] + (balance[Genesis] - pay) + pay
    <3>1. pay \in Int
      BY <1>2
    <3> QED BY <1>1, <1>2, <2>2, <3>1, LiquidMoved, Zenon
  <2>4. InStake' = InStake
    BY <2>1 DEF InStake
  <2> QED BY <1>1, <1>2, <2>3, <2>4, SumTypes
<1> QED BY <1>3, <1>4

\* What an action does not mention keeps its sum.
LEMMA SumsUntouched ==
  /\ balance' = balance => Liquids' = Liquids
  /\ staked' = staked => InStake' = InStake
  /\ due' = due => InQueue' = InQueue
  /\ escrow' = escrow => InEscrow' = InEscrow
BY DEF Liquids, InStake, InQueue, Unbonding, InEscrow

WealthKept == Wealth' = Wealth /\ burnt' \in Int /\ issued' \in Int

LEMMA MoneyUntouched ==
  ASSUME burnt \in Int, issued \in Int, UNCHANGED <<balance, staked, due, escrow, wallet, burnt, issued>>
  PROVE  WealthKept
BY SumsUntouched DEF WealthKept, Wealth

\* What leaves the balances and the queue together for the stake, or stays.
LEMMA QueueTraded ==
  ASSUME LedgerInv, LedgerInv', burnt \in Int, issued \in Int, NEW x \in Int,
         Liquids' + InQueue' = Liquids + InQueue - x, InStake' = InStake + x,
         UNCHANGED <<escrow, wallet, burnt, issued>>
  PROVE  WealthKept
<1> DEFINE l == Liquids'
           q == InQueue'
<1>1. l \in Int /\ q \in Int /\ l + q = Liquids + InQueue - x
  BY SumTypesNext
<1>2. Wealth' = l + (InStake + x) + q + InEscrow + wallet + burnt - issued
  BY SumsUntouched DEF Wealth
<1> HIDE DEF l, q
<1>3. l + (InStake + x) + q = Liquids + InStake + InQueue
  BY <1>1, SumTypes
<1>4. Wealth' = Wealth
  BY <1>2, <1>3 DEF Wealth
<1> QED BY <1>4 DEF WealthKept

\* The settlement of a block's payment moves tokens between owner, escrow and miner.
LEMMA PayMinerWealth ==
  ASSUME LedgerInv, PayMiner
  PROVE  Liquids' + InStake' + InQueue' + InEscrow' = Liquids + InStake + InQueue + InEscrow
<1>1. index \in 0 .. MaxHeight /\ Me \in Holders
  BY ConstantTypes DEF LedgerInv, TypeOK, Holders
<1>2. CASE ~MustPay
  BY <1>2, SumsUntouched DEF PayMiner
<1>3. CASE MustPay
  <2> DEFINE o == Owner[model]
             held == Smaller(escrow[model], Cost[model])
             rest == Cost[model] - held
             short == Larger(0, rest - Liquid(o, index))
             unwrapped == IF rest > 0 /\ InBootstrap(index) THEN Smaller(short, staked[o]) ELSE 0
             liquid == Liquid(o, index) + unwrapped
  <2>1. model \in Models /\ o \in Accounts /\ o \in Holders
    BY <1>3, ConstantTypes DEF MustPay, LedgerInv, TypeOK, Holders
  <2>2. Cost[model] \in Nat /\ escrow[model] \in Nat /\ staked[o] \in Nat /\ balance[o] \in Nat
        /\ balance[Me] \in Nat
    BY <1>1, <2>1, ConstantTypes DEF LedgerInv, TypeOK
  <2>3. held \in Nat /\ held <= Cost[model] /\ rest \in Nat
    <3>1. held \in Nat /\ held <= Cost[model]
      BY <2>2, SmallerLargerType
    <3> HIDE DEF held
    <3> QED BY <2>2, <3>1
  <2>4. Liquid(o, index) \in Nat
    <3> HIDE DEF o
    <3> QED BY <1>1, <2>1, FlushShape
  <2>5. unwrapped \in Nat
    <3>1. short \in Nat
      <4> HIDE DEF rest
      <4> QED BY <2>3, <2>4, ShortfallType
    <3>2. Smaller(short, staked[o]) \in Nat
      <4> HIDE DEF short, o
      <4> QED BY <2>2, <3>1, SmallerLargerType
    <3> HIDE DEF short, rest, o
    <3> QED BY <3>2
  <2>6. /\ staked' = [staked EXCEPT ![o] = staked[o] - unwrapped]
        /\ due' = IF rest > 0 THEN Flushed(o, index) ELSE due
        /\ escrow' = IF CanPay THEN [escrow EXCEPT ![model] = escrow[model] - held] ELSE escrow
        /\ balance' = IF rest = 0 THEN [balance EXCEPT ![Me] = balance[Me] + held]
                      ELSE IF CanPay
                      THEN [[balance EXCEPT ![o] = liquid - rest] EXCEPT ![Me] = @ + (held + rest)]
                      ELSE [balance EXCEPT ![o] = liquid]
    BY <1>3 DEF PayMiner
  <2>7. rest = 0 => CanPay /\ unwrapped = 0
    <3>1. Larger(0, Cost[model] - escrow[model]) = rest
      BY <2>2 DEF Larger, Smaller
    <3> QED BY <3>1 DEF CanPay
  <2>8. liquid = Liquid(o, index) + unwrapped /\ liquid - rest \in Int /\ held + rest \in Int
        /\ staked[o] - unwrapped \in Int /\ escrow[model] - held \in Int /\ liquid \in Int
        /\ balance[Me] + held \in Int
    <3> HIDE DEF rest, held, unwrapped
    <3> QED BY <2>2, <2>3, <2>4, <2>5
  <2>9. rest > 0 => /\ InQueue' = InQueue - due[o][index] /\ due[o][index] \in Int
                    /\ Liquid(o, index) = balance[o] + due[o][index]
    <3> HIDE DEF o, rest
    <3> QED BY <1>1, <2>1, <2>6, QueueMatures
  <2> HIDE DEF o, held, rest, unwrapped, liquid
  <2>10. InStake' = InStake - staked[o] + (staked[o] - unwrapped)
    BY <2>1, <2>6, <2>8, StakeSet
  <2>11. InEscrow' = IF CanPay THEN InEscrow - escrow[model] + (escrow[model] - held) ELSE InEscrow
    BY <2>1, <2>6, <2>8, EscrowSet, SumsUntouched
  <2>12. CASE rest = 0
    <3>1. Liquids' = Liquids - balance[Me] + (balance[Me] + held)
      BY <1>1, <2>6, <2>8, <2>12, LiquidSet
    <3>2. InQueue' = InQueue
      BY <2>3, <2>6, <2>12, SumsUntouched
    <3> QED BY <2>2, <2>3, <2>5, <2>7, <2>10, <2>11, <2>12, <3>1, <3>2, SumTypes
  <2>13. CASE rest # 0 /\ CanPay
    <3>1. balance' = [[balance EXCEPT ![o] = liquid - rest] EXCEPT ![Me] = @ + (held + rest)]
      BY <2>6, <2>13
    <3>2. Liquids' = Liquids - balance[o] + (liquid - rest) + (held + rest)
      <4> DEFINE v == liquid - rest
                 x == held + rest
      <4>1. v \in Int /\ x \in Int
        BY <2>8
      <4>2. balance' = [[balance EXCEPT ![o] = v] EXCEPT ![Me] = @ + x]
        BY <3>1
      <4> HIDE DEF v, x
      <4>3. Liquids' = Liquids - balance[o] + v + x
        BY <1>1, <2>1, <4>1, <4>2, LiquidMoved, Zenon
      <4> QED BY <4>3 DEF v, x
    <3>3. /\ InQueue' = InQueue - due[o][index] /\ due[o][index] \in Int
          /\ Liquid(o, index) = balance[o] + due[o][index]
      BY <2>3, <2>9, <2>13
    <3>4. InEscrow' = InEscrow - escrow[model] + (escrow[model] - held)
      BY <2>11, <2>13
    <3>5. liquid = Liquid(o, index) + unwrapped
      BY <2>8
    <3> QED BY <2>2, <2>3, <2>4, <2>5, <2>10, <3>2, <3>3, <3>4, <3>5, SumTypes
  <2>14. CASE rest # 0 /\ ~CanPay
    <3>1. Liquids' = Liquids - balance[o] + liquid
      BY <2>1, <2>6, <2>8, <2>14, LiquidSet
    <3> QED BY <2>2, <2>3, <2>4, <2>5, <2>8, <2>9, <2>10, <2>11, <2>14, <3>1, SumTypes
  <2> QED BY <2>12, <2>13, <2>14
<1> QED BY <1>2, <1>3

\* Every step of the mining thread keeps what there is.
LEMMA MiningKeepsWealth ==
  ASSUME MoneyInv, Mining
  PROVE  WealthKept
<1>1. LedgerInv /\ burnt \in Int /\ issued \in Int
  BY DEF MoneyInv
<1>2. height \in 0 .. MaxHeight /\ index \in 0 .. MaxHeight
  BY <1>1 DEF LedgerInv, TypeOK
<1>3. CASE BeginRound \/ EnterRound \/ SkipRound \/ ChooseNoop
  BY <1>1, <1>3, MoneyUntouched DEF BeginRound, EnterRound, SkipRound, ChooseNoop, tokens
<1>4. CASE ReadHeight \/ Settle \/ EndMaterialisation \/ AppendBlock
  BY <1>1, <1>4, MoneyUntouched DEF ReadHeight, Settle, EndMaterialisation, AppendBlock, tokens
<1>5. ASSUME NEW m \in Models, Preflight(m) PROVE WealthKept
  <2> DEFINE o == Owner[m]
             rest == Larger(0, Cost[m] - escrow[m])
  <2>1. UNCHANGED <<staked, escrow, wallet, burnt, issued>>
    BY <1>5 DEF Preflight
  <2>2. CASE o = System \/ rest = 0
    BY <1>1, <1>5, <2>1, <2>2, MoneyUntouched DEF Preflight
  <2>3. CASE ~(o = System \/ rest = 0)
    <3>1. Spend(o, 0, height) /\ o \in Accounts
      BY <1>5, <2>3, ConstantTypes DEF Preflight
    <3> HIDE DEF o
    <3>2. Liquids' + InQueue' = Liquids + InQueue - 0
      BY <1>1, <1>2, <3>1, SpendWealth
    <3>3. Liquids' \in Int /\ InQueue' \in Int
      BY <1>1, <1>2, <1>5, MiningKeepsLedger, SumTypesNext DEF Mining
    <3> QED BY <1>1, <2>1, <3>2, <3>3, SumTypes, SumsUntouched DEF WealthKept, Wealth
  <2> QED BY <2>2, <2>3
<1>6. ASSUME FailTraining PROVE WealthKept
  BY <1>1, <1>6, MoneyUntouched DEF FailTraining, tokens
<1>7. ASSUME NEW a \in Accounts, Materialise(a) PROVE WealthKept
  <2>1. UNCHANGED <<due, escrow, wallet, burnt, issued>>
    BY <1>7 DEF Materialise
  <2>2. CASE a \in slashed
    BY <1>1, <1>7, <2>1, <2>2, MoneyUntouched DEF Materialise
  <2>3. CASE a \notin slashed
    <3> DEFINE minted == Smaller(virtual[a] + Grant, balance[Genesis])
    <3>1. Genesis \in Holders /\ balance[Genesis] \in Nat /\ virtual[a] + Grant \in Nat
          /\ staked[a] \in Int
      BY <1>1, ConstantTypes DEF Holders, LedgerInv, TypeOK
    <3>2. minted \in Int
      BY <3>1, SmallerLargerType
    <3>3. /\ balance' = [balance EXCEPT ![Genesis] = balance[Genesis] - minted]
          /\ staked' = [staked EXCEPT ![a] = staked[a] + minted]
      BY <1>7, <2>3 DEF Materialise
    <3>4. balance[Genesis] - minted \in Int /\ staked[a] + minted \in Int
      BY <3>1, <3>2
    <3> HIDE DEF minted
    <3>5. Liquids' = Liquids - balance[Genesis] + (balance[Genesis] - minted)
      BY <1>1, <3>1, <3>3, <3>4, LiquidSet
    <3>6. InStake' = InStake - staked[a] + (staked[a] + minted)
      BY <1>1, <3>3, <3>4, StakeSet
    <3> QED BY <1>1, <2>1, <3>1, <3>2, <3>5, <3>6, SumTypes, SumsUntouched DEF WealthKept, Wealth
  <2> QED BY <2>2, <2>3
<1>8. CASE RewardMiner
  <2> DEFINE reward == Emission(period, index) + (IF model = Noop THEN 0 ELSE Bonus)
  <2>1. reward \in Nat /\ (period > 0) \in BOOLEAN /\ Me \in Accounts
    BY <1>1, ConstantTypes DEF LedgerInv, TypeOK
  <2>2. Mint(Me, reward, period > 0) /\ UNCHANGED <<due, escrow, wallet, burnt, issued>>
    BY <1>8 DEF RewardMiner
  <2> HIDE DEF reward
  <2>3. Liquids' + InStake' = Liquids + InStake
    BY <1>1, <2>1, <2>2, MintWealth
  <2>4. Liquids' \in Int /\ InStake' \in Int
    BY <1>1, <1>8, MiningKeepsLedger, SumTypesNext DEF Mining
  <2> QED BY <1>1, <2>2, <2>3, <2>4, SumTypes, SumsUntouched DEF WealthKept, Wealth
<1>9. CASE PayMiner
  <2>1. Liquids' + InStake' + InQueue' + InEscrow' = Liquids + InStake + InQueue + InEscrow
    BY <1>1, <1>9, PayMinerWealth
  <2>2. UNCHANGED <<wallet, burnt, issued>>
    BY <1>9 DEF PayMiner
  <2>3. Liquids' \in Int /\ InStake' \in Int /\ InQueue' \in Int /\ InEscrow' \in Int
    BY <1>1, <1>9, MiningKeepsLedger, SumTypesNext DEF Mining
  <2> QED BY <1>1, <2>1, <2>2, <2>3, SumTypes DEF WealthKept, Wealth
<1>10. CASE RankParticipants
  <2> DEFINE out == IF InBootstrap(index) THEN Participants \ Active ELSE {}
  <2>1. /\ UNCHANGED <<balance, due, escrow, wallet, issued>>
        /\ staked' = [a \in Accounts |-> IF a \in out THEN 0 ELSE staked[a]]
        /\ burnt' = burnt + SumFunctionOnSet(staked, out)
    BY <1>10 DEF RankParticipants
  <2>2. out \subseteq Accounts
    BY DEF Participants, Registered
  <2> HIDE DEF out
  <2>3. (\A a \in Accounts : staked[a] \in Int) /\ (\A a \in out : staked[a] \in Int)
    BY <1>1, <2>2, SumTypes
  <2>4. \A a \in Accounts : staked'[a] = IF a \in out THEN 0 ELSE staked[a]
    BY <2>1
  <2>5. IsFiniteSet(out)
    BY <2>2, HoldersAreFinite, FS_Subset
  <2>6. SumFunctionOnSet(staked, out) \in Int
    BY <2>3, <2>5, SumInt
  <2>7. SumFunctionOnSet(staked', Accounts)
          = SumFunctionOnSet(staked, Accounts) - SumFunctionOnSet(staked, out)
    BY <2>2, <2>3, <2>4, HoldersAreFinite, SumCleared
  <2>8. InStake' = InStake - SumFunctionOnSet(staked, out)
    BY <2>7 DEF InStake
  <2> QED BY <1>1, <2>1, <2>6, <2>8, SumTypes, SumsUntouched DEF WealthKept, Wealth
<1> QED
  BY <1>3, <1>4, <1>5, <1>6, <1>7, <1>8, <1>9, <1>10 DEF Mining

\* A refresh moves tokens from the wallet to the ledger, whether or not it is granted.
LEMMA RefreshKeepsWealth ==
  ASSUME MoneyInv, NEW m \in Models, NEW fee \in Nat, NEW topup \in Nat,
         NEW iced \in BOOLEAN, RefreshTrainingData(m, fee, topup, iced)
  PROVE  WealthKept
<1> DEFINE total == fee + topup
           liquid == Liquid(Me, height)
           short == Larger(0, total - liquid)
           granted == /\ fee >= MinFee /\ Owner[m] = Me
                      /\ iced => topup >= MinEscrow
<1>1. LedgerInv /\ burnt \in Int /\ issued \in Int
  BY DEF MoneyInv
<1>2. /\ Me \in Accounts /\ height \in 0 .. MaxHeight /\ Me \in Holders /\ System \in Holders
      /\ Me # System
  BY <1>1, ConstantTypes DEF LedgerInv, TypeOK, Holders
<1>3. due' = Flushed(Me, height) /\ UNCHANGED <<staked, burnt, issued>>
  BY DEF RefreshTrainingData
<1>4. /\ InQueue' = InQueue - due[Me][height] /\ due[Me][height] \in Int
      /\ liquid = balance[Me] + due[Me][height] /\ liquid \in Nat
  BY <1>1, <1>2, <1>3, QueueMatures, FlushShape
<1>5. balance[Me] \in Int /\ balance[System] \in Int /\ escrow[m] \in Int /\ wallet \in Int
  BY <1>1, <1>2, SumTypes
<1>6. short \in Nat /\ total = fee + topup
  <2>1. total \in Nat
    OBVIOUS
  <2> HIDE DEF total, liquid
  <2> QED BY <1>4, <2>1, ShortfallType DEF total
<1>7. CASE short > wallet
  <2>1. balance' = [balance EXCEPT ![Me] = liquid] /\ wallet' = wallet /\ escrow' = escrow
    BY <1>7 DEF RefreshTrainingData
  <2>2. liquid \in Int
    BY <1>4
  <2> HIDE DEF liquid, total, short
  <2>3. Liquids' = Liquids - balance[Me] + liquid
    BY <1>1, <1>2, <2>1, <2>2, LiquidSet
  <2> QED
    BY <1>1, <1>3, <1>4, <1>5, <2>1, <2>3, SumTypes, SumsUntouched DEF WealthKept, Wealth
<1>8. CASE ~(short > wallet) /\ granted
  <2>1. /\ balance' = [balance EXCEPT ![Me] = liquid + short - total, ![System] = @ + fee]
        /\ wallet' = wallet - short
        /\ escrow' = [escrow EXCEPT ![m] = escrow[m] + topup]
    BY <1>8 DEF RefreshTrainingData
  <2> HIDE DEF liquid, total, short
  <2>2. balance' = [[balance EXCEPT ![Me] = liquid + short - total] EXCEPT ![System] = @ + fee]
    BY <1>1, <1>2, <2>1 DEF LedgerInv, TypeOK
  <2>3. liquid + short - total \in Int /\ fee \in Int /\ escrow[m] + topup \in Int
    BY <1>4, <1>5, <1>6
  <2>4. Liquids' = Liquids - balance[Me] + (liquid + short - total) + fee
    BY <1>1, <1>2, <2>2, <2>3, LiquidMoved, ZenonT(60)
  <2>5. InEscrow' = InEscrow - escrow[m] + (escrow[m] + topup)
    BY <1>1, <2>1, <2>3, EscrowSet
  <2>6. wallet' = wallet - short
    BY <2>1
  <2> QED
    BY <1>1, <1>3, <1>4, <1>5, <1>6, <2>4, <2>5, <2>6, SumTypes, SumsUntouched
    DEF WealthKept, Wealth
<1>9. CASE ~(short > wallet) /\ ~granted
  <2>1. /\ balance' = [balance EXCEPT ![Me] = liquid + short]
        /\ wallet' = wallet - short /\ escrow' = escrow
    BY <1>9 DEF RefreshTrainingData
  <2> HIDE DEF liquid, total, short
  <2>2. liquid + short \in Int
    BY <1>4, <1>6
  <2>3. Liquids' = Liquids - balance[Me] + (liquid + short)
    BY <1>1, <1>2, <2>1, <2>2, LiquidSet
  <2> QED
    BY <1>1, <1>3, <1>4, <1>5, <1>6, <2>1, <2>3, SumTypes, SumsUntouched DEF WealthKept, Wealth
<1> QED
  BY <1>7, <1>8, <1>9

\* Every call from outside keeps what there is.
LEMMA CallsKeepWealth ==
  ASSUME MoneyInv, Calls
  PROVE  WealthKept
<1>1. LedgerInv /\ burnt \in Int /\ issued \in Int
  BY DEF MoneyInv
<1>2. height \in 0 .. MaxHeight /\ 0 \in 0 .. MaxHeight /\ Amounts \subseteq Nat
  BY <1>1, ConstantTypes DEF LedgerInv, TypeOK
<1>3. /\ Liquids' \in Int /\ InStake' \in Int /\ InQueue' \in Int /\ InEscrow' \in Int
      /\ Liquids \in Int /\ InStake \in Int /\ InQueue \in Int /\ InEscrow \in Int /\ wallet \in Int
      /\ LedgerInv'
  BY <1>1, CallsKeepLedger, SumTypes, SumTypesNext
<1>4. ASSUME NEW a \in Accounts, Register(a) PROVE WealthKept
  BY <1>1, <1>4, MoneyUntouched DEF Register
<1>5. ASSUME NEW a \in Accounts, RewardVerifier(a) PROVE WealthKept
  <2>1. UNCHANGED <<due, escrow, wallet, burnt>>
    BY <1>5 DEF RewardVerifier
  <2>2. CASE period > 0
    <3>1. Mint(a, AttestationReward, TRUE) /\ issued' = issued
      BY <1>5, <2>2 DEF RewardVerifier
    <3>2. Liquids' + InStake' = Liquids + InStake
      BY <1>1, <3>1, MintWealth, ConstantTypes
    <3> QED BY <1>1, <1>3, <2>1, <3>1, <3>2, SumsUntouched DEF WealthKept, Wealth
  <2>3. CASE ~(period > 0)
    <3>1. /\ balance' = [balance EXCEPT ![a] = balance[a] + AttestationReward]
          /\ issued' = issued + AttestationReward /\ staked' = staked
      BY <1>5, <2>3 DEF RewardVerifier
    <3>2. a \in Holders /\ balance[a] \in Int /\ AttestationReward \in Int
      BY <1>1, ConstantTypes DEF LedgerInv, TypeOK, Holders
    <3>3. balance[a] + AttestationReward \in Int
      BY <3>2
    <3>4. Liquids' = Liquids - balance[a] + (balance[a] + AttestationReward)
      BY <1>1, <3>1, <3>2, <3>3, LiquidSet
    <3> QED BY <1>1, <1>3, <2>1, <3>1, <3>2, <3>4, SumsUntouched DEF WealthKept, Wealth
  <2> QED BY <2>2, <2>3
<1>6. ASSUME NEW a \in Accounts, NEW x \in Amounts, RequestUnstake(a, x) PROVE WealthKept
  <2>1. /\ staked' = [staked EXCEPT ![a] = staked[a] - x]
        /\ UNCHANGED <<escrow, wallet, burnt, issued>>
    BY <1>6 DEF RequestUnstake
  <2>2. x \in Int /\ a \in Holders /\ staked[a] \in Int /\ balance[a] \in Int
    BY <1>1, <1>2 DEF LedgerInv, TypeOK, Holders
  <2>3. staked[a] - x \in Int /\ balance[a] + x \in Int
    BY <2>2
  <2>4. InStake' = InStake - staked[a] + (staked[a] - x)
    BY <1>1, <2>1, <2>3, StakeSet
  <2>5. CASE Cooldown = 0
    <3>1. balance' = [balance EXCEPT ![a] = balance[a] + x] /\ due' = due
      BY <1>6, <2>5 DEF RequestUnstake
    <3>2. Liquids' = Liquids - balance[a] + (balance[a] + x)
      BY <1>1, <2>2, <2>3, <3>1, LiquidSet
    <3> QED BY <1>1, <1>3, <2>1, <2>2, <2>4, <3>1, <3>2, SumsUntouched DEF WealthKept, Wealth
  <2>6. CASE Cooldown # 0
    <3>1. balance' = balance /\ InQueue' = InQueue + x
      BY <1>1, <1>2, <1>6, <2>6, QueueGrows DEF RequestUnstake
    <3> QED BY <1>1, <1>3, <2>1, <2>2, <2>4, <3>1, SumsUntouched DEF WealthKept, Wealth
  <2> QED BY <2>5, <2>6
<1>7. ASSUME NEW a \in Accounts, NEW x \in Amounts, Penalise(a, x) PROVE WealthKept
  <2> DEFINE cut == Smaller(x, staked[a] + balance[a])
             fromStake == Smaller(cut, staked[a])
             fromLiquid == cut - fromStake
  <2>1. /\ staked' = [staked EXCEPT ![a] = staked[a] - fromStake]
        /\ balance' = [balance EXCEPT ![a] = balance[a] - fromLiquid]
        /\ burnt' = burnt + cut
        /\ UNCHANGED <<due, escrow, wallet, issued>>
    BY <1>7 DEF Penalise
  <2>2. x \in Nat /\ a \in Holders /\ staked[a] \in Nat /\ balance[a] \in Nat
    BY <1>1, <1>2 DEF LedgerInv, TypeOK, Holders
  <2>3. cut \in Int /\ fromStake \in Int /\ cut = fromStake + fromLiquid /\ fromLiquid \in Int
    BY <2>2 DEF Smaller
  <2> HIDE DEF cut, fromStake, fromLiquid
  <2>4. staked[a] - fromStake \in Int /\ balance[a] - fromLiquid \in Int
    BY <2>2, <2>3
  <2>5. InStake' = InStake - staked[a] + (staked[a] - fromStake)
    BY <1>1, <2>1, <2>4, StakeSet
  <2>6. Liquids' = Liquids - balance[a] + (balance[a] - fromLiquid)
    BY <1>1, <2>1, <2>2, <2>4, LiquidSet
  <2> QED
    BY <1>1, <1>3, <2>1, <2>2, <2>3, <2>5, <2>6, SumsUntouched DEF WealthKept, Wealth
<1>8. ASSUME NEW a \in Accounts, NEW x \in Amounts, NEW tip \in {0, height}, StakeTokens(a, x, tip)
      PROVE  WealthKept
  <2>1. tip \in 0 .. MaxHeight /\ x \in Nat /\ staked[a] \in Int
    BY <1>1, <1>2 DEF LedgerInv, TypeOK
  <2>2. UNCHANGED <<escrow, wallet, burnt, issued>>
    BY <1>8 DEF StakeTokens
  <2>3. CASE Liquid(a, tip) < x
    <3>1. Spend(a, 0, tip) /\ staked' = staked
      BY <1>8, <2>3 DEF StakeTokens
    <3>2. Liquids' + InQueue' = Liquids + InQueue - 0
      BY <1>1, <2>1, <3>1, SpendWealth
    <3>3. InStake' = InStake + 0 /\ 0 \in Int
      BY <1>3, <3>1, SumsUntouched
    <3> QED BY <1>1, <1>3, <2>2, <3>2, <3>3, QueueTraded
  <2>4. CASE ~(Liquid(a, tip) < x)
    <3>1. Spend(a, x, tip) /\ staked' = [staked EXCEPT ![a] = staked[a] + x]
      BY <1>8, <2>4 DEF StakeTokens
    <3>2. Liquids' + InQueue' = Liquids + InQueue - x
      BY <1>1, <2>1, <3>1, SpendWealth
    <3>3. InStake' = InStake - staked[a] + (staked[a] + x)
      <4>1. staked[a] + x \in Int
        BY <2>1
      <4> QED BY <1>1, <3>1, <4>1, StakeSet
    <3>4. InStake' = InStake + x /\ x \in Int
      BY <1>3, <2>1, <3>3
    <3> QED BY <1>1, <1>3, <2>2, <3>2, <3>4, QueueTraded
  <2> QED BY <2>3, <2>4
<1>9. ASSUME NEW a \in Accounts, NEW x \in Amounts, NEW b \in Accounts \cup {System}, Pay(a, b, x)
      PROVE  WealthKept
  <2>1. x \in Nat /\ PayOver(a, b, x, height) /\ UNCHANGED <<staked, escrow, wallet, burnt, issued>>
    BY <1>2, <1>9 DEF Pay
  <2>2. Liquids' + InQueue' = Liquids + InQueue
    BY <1>1, <1>2, <2>1, PayOverWealth
  <2>3. InStake' = InStake
    BY <2>1, SumsUntouched
  <2>4. Liquids' + InQueue' = Liquids + InQueue - 0 /\ InStake' = InStake + 0 /\ 0 \in Int
    <3>1. Liquids + InQueue - 0 = Liquids + InQueue /\ InStake + 0 = InStake /\ 0 \in Int
      BY <1>3
    <3> QED BY <2>2, <2>3, <3>1, Zenon
  <2> QED BY <1>1, <1>3, <2>1, <2>4, QueueTraded
<1>10. ASSUME NEW m \in Models, NEW fee \in Amounts \cup {0}, NEW topup \in Amounts \cup {0},
              NEW iced \in BOOLEAN, RefreshTrainingData(m, fee, topup, iced)
       PROVE  WealthKept
  BY <1>2, <1>10, RefreshKeepsWealth
<1> QED
  BY <1>4, <1>5, <1>6, <1>7, <1>8, <1>9, <1>10 DEF Calls

LEMMA InitMoney == Init => MoneyInv
<1> SUFFICES ASSUME Init PROVE MoneyInv
  OBVIOUS
<1>1. LedgerInv
  BY InitLedger
<1>2. /\ \A a \in Accounts : staked[a] = 0 /\ Unbonding[a] = 0
      /\ \A m \in Models : escrow[m] = 0
  <2>1. MaxHeight + Cooldown \in Blocks
    BY ConstantTypes DEF Blocks
  <2> QED BY <2>1 DEF Init, Unbonding
<1>3. InStake = 0 /\ InQueue = 0 /\ InEscrow = 0
  BY <1>2, HoldersAreFinite, SumZero DEF InStake, InQueue, InEscrow
<1>4. Liquids = Supply
  <2>1. /\ balance[System] = 0 /\ balance[Genesis] = Endowment
        /\ \A a \in Accounts : balance[a] = StartLiquid
    BY ConstantTypes DEF Init, Holders, Endowment
  <2>2. /\ Accounts \subseteq Holders /\ Holders \ Accounts = {Genesis, System}
        /\ \A h \in Holders : balance[h] \in Int
    BY <1>1, ConstantTypes, SumTypes DEF Holders
  <2>3. Liquids = SumFunctionOnSet(balance, Accounts) + SumFunctionOnSet(balance, {Genesis, System})
    BY <2>2, HoldersAreFinite, SumSplit DEF Liquids
  <2>4. SumFunctionOnSet(balance, Accounts) = StartLiquid * Cardinality(Accounts)
    BY <2>1, ConstantTypes, HoldersAreFinite, SumConstant
  <2>5. SumFunctionOnSet(balance, {Genesis, System}) = Endowment
    <3>1. IsFiniteSet({Genesis, System})
      BY <2>2, HoldersAreFinite, FS_Subset
    <3>2. /\ \A h \in {Genesis, System} : balance[h] \in Int
          /\ {Genesis, System} \ {Genesis} = {System} /\ {System} \ {System} = {}
      BY <2>1, EndowmentType, ConstantTypes
    <3>3. SumFunctionOnSet(balance, {Genesis, System})
            = balance[Genesis] + SumFunctionOnSet(balance, {System})
      BY <3>1, <3>2, SumTakeOut
    <3>4. SumFunctionOnSet(balance, {System}) = 0
      BY <2>1, FS_Singleton, SumZero
    <3> QED BY <2>1, <3>3, <3>4, EndowmentType
  <2>6. StartLiquid * Cardinality(Accounts) \in Int
    BY HoldersAreFinite, FS_CardinalityType, ConstantTypes
  <2> QED BY <2>3, <2>4, <2>5, <2>6, ConstantTypes DEF Endowment
<1>5. wallet = StartWallet /\ burnt = 0 /\ issued = 0
  BY DEF Init
<1> QED
  BY <1>1, <1>3, <1>4, <1>5, ConstantTypes DEF MoneyInv, Wealth

LEMMA MoneyIsConserved == MoneyInv => Conserved
<1> SUFFICES ASSUME MoneyInv PROVE Conserved
  OBVIOUS
<1>1. /\ DOMAIN balance = Holders /\ DOMAIN staked = Accounts /\ DOMAIN escrow = Models
      /\ DOMAIN Unbonding = Accounts
  BY DEF MoneyInv, LedgerInv, TypeOK, Unbonding
<1>2. /\ SumFunction(balance) = Liquids /\ SumFunction(staked) = InStake
      /\ SumFunction(escrow) = InEscrow /\ SumFunction(Unbonding) = InQueue
  BY <1>1, Zenon DEF SumFunction, Liquids, InStake, InEscrow, InQueue
<1>3. /\ Liquids + InStake + InQueue + InEscrow + wallet + burnt - issued = Supply + StartWallet
      /\ burnt \in Int /\ issued \in Int /\ LedgerInv
  BY DEF MoneyInv, Wealth
<1>4. Liquids + InStake + InQueue + InEscrow + wallet + burnt = Supply + StartWallet + issued
  BY <1>3, SumTypes, ConstantTypes
<1> QED BY <1>2, <1>4 DEF Conserved, Unbonding

\* No token appears or vanishes, whatever settles while callers move tokens:
\* what accounts, stakes, the queue, the escrows and the wallet hold, with what
\* slashing destroyed, is the supply, the wallet's tokens and what "system" issued.
THEOREM MoneySafe == Spec => []Conserved
<1>1. MoneyInv /\ [Next]_vars => MoneyInv'
  <2> SUFFICES ASSUME MoneyInv, [Next]_vars PROVE MoneyInv'
    OBVIOUS
  <2>1. LedgerInv'
    BY NextKeepsLedger DEF MoneyInv
  <2>2. WealthKept
    <3>1. CASE ReceiveBlock
      BY <3>1, MoneyUntouched DEF ReceiveBlock, tokens, MoneyInv
    <3>2. CASE UNCHANGED vars
      BY <3>2, MoneyUntouched DEF vars, tokens, MoneyInv
    <3> QED BY <3>1, <3>2, MiningKeepsWealth, CallsKeepWealth DEF Next
  <2> QED BY <2>1, <2>2 DEF MoneyInv, WealthKept
<1> QED
  BY InitMoney, <1>1, MoneyIsConserved, PTL DEF Spec

-----------------------------------------------------------------------------
(* The active set                                                           *)

\* Somebody among a nonempty set of accounts is outranked by nobody in it.
LEMMA TopRanked ==
  ASSUME LedgerInv, NEW P, P \subseteq Accounts, P # {}
  PROVE  \E a \in P : \A b \in P : ~Outranks(b, a)
<1> DEFINE e == [a \in Accounts |-> Effective(a)]
<1>1. /\ \A a \in P : e[a] = Effective(a) /\ e[a] \in Int /\ order[a] \in Int
      /\ IsFiniteSet(P)
  BY EconomicsConstants, FS_Subset DEF Effective, LedgerInv, TypeOK
<1> HIDE DEF e
<1>2. PICK m \in P : \A x \in P : e[x] <= e[m]
  BY <1>1, GreatestExists
<1> DEFINE Best == {a \in P : e[a] = e[m]}
<1>3. /\ IsFiniteSet(Best) /\ Best # {} /\ Best \subseteq P
      /\ \A x \in P : x \in Best <=> e[x] = e[m]
  BY <1>1, FS_Subset
<1> HIDE DEF Best
<1>4. PICK a \in Best : \A b \in Best : order[a] <= order[b]
  <2>1. \A b \in Best : order[b] \in Int
    BY <1>1, <1>3
  <2> QED BY <1>3, <2>1, LeastExists
<1>5. a \in P /\ e[a] = e[m]
  BY <1>3
<1>6. ASSUME NEW b \in P PROVE ~Outranks(b, a)
  <2>1. e[b] <= e[a]
    BY <1>2, <1>5
  <2>2. e[b] = e[a] => order[a] <= order[b]
    BY <1>3, <1>4, <1>5
  <2> QED BY <1>1, <1>5, <2>1, <2>2 DEF Outranks
<1> QED BY <1>5, <1>6

\* While somebody takes part, somebody is active.
LEMMA ActiveIfAny ==
  ASSUME LedgerInv, Participants # {}
  PROVE  Active # {}
<1>1. Participants \subseteq Accounts
  BY DEF Participants, Registered
<1>2. PICK a \in Participants : \A b \in Participants : ~Outranks(b, a)
  BY <1>1, TopRanked
<1>3. {b \in Participants : Outranks(b, a)} = {}
  BY <1>2
<1>4. Cardinality({b \in Participants : Outranks(b, a)}) = 0
  BY <1>3, FS_EmptySet
<1>5. 0 < MaxActive
  BY EconomicsConstants
<1> QED BY <1>4, <1>5 DEF Active

\* Not everybody who registered has been slashed.
SurvivorInv == LedgerInv /\ (Registered # {} => Participants # {})

LEMMA SurvivorsUntouched ==
  ASSUME SurvivorInv, order' = order, slashed' = slashed
  PROVE  Registered' # {} => Participants' # {}
BY DEF SurvivorInv, Registered, Participants

\* Who registers takes part, and nobody leaves.
LEMMA EnrollSurvivors ==
  ASSUME SurvivorInv, NEW a \in Accounts, a \notin slashed, Enroll(a), slashed' = slashed
  PROVE  Registered' # {} => Participants' # {}
<1>1. order'[a] > 0
  BY RegisteredIsCounted DEF Enroll, SurvivorInv, LedgerInv, TypeOK
<1> QED BY <1>1 DEF Registered, Participants

LEMMA NextKeepsSurvivors ==
  ASSUME SurvivorInv, [Next]_vars
  PROVE  Registered' # {} => Participants' # {}
<1>1. CASE BeginRound
  <2>1. CASE MayRegister(Me)
    BY <1>1, <2>1, EnrollSurvivors, ConstantTypes DEF BeginRound, MayRegister
  <2>2. CASE ~MayRegister(Me)
    BY <1>1, <2>2, SurvivorsUntouched DEF BeginRound
  <2> QED BY <2>1, <2>2
<1>2. CASE EnterRound \/ SkipRound \/ ChooseNoop \/ ReadHeight \/ Settle \/ AppendBlock
  BY <1>2, SurvivorsUntouched
  DEF EnterRound, SkipRound, ChooseNoop, ReadHeight, Settle, AppendBlock, bootstrap
<1>3. CASE EndMaterialisation \/ RewardMiner \/ PayMiner \/ ReceiveBlock
  BY <1>3, SurvivorsUntouched DEF EndMaterialisation, RewardMiner, PayMiner, ReceiveBlock, bootstrap
<1>4. ASSUME NEW m \in Models, Preflight(m) PROVE Registered' # {} => Participants' # {}
  BY <1>4, SurvivorsUntouched DEF Preflight, bootstrap
<1>5. ASSUME FailTraining
      PROVE  Registered' # {} => Participants' # {}
  BY <1>5, SurvivorsUntouched DEF FailTraining, bootstrap
<1>6. ASSUME NEW a \in Accounts, Materialise(a) PROVE Registered' # {} => Participants' # {}
  BY <1>6, SurvivorsUntouched DEF Materialise, bootstrap
<1>7. CASE RankParticipants
  <2>1. /\ order' = order
        /\ slashed' = slashed \cup (IF InBootstrap(index) THEN Participants \ Active ELSE {})
    BY <1>7 DEF RankParticipants
  <2>2. Registered' = Registered /\ Active \subseteq Participants
    BY <2>1 DEF Registered, Active
  <2>3. Participants' = IF InBootstrap(index) THEN Active ELSE Participants
    BY <2>1, <2>2 DEF Participants
  <2> QED BY <2>2, <2>3, ActiveIfAny DEF SurvivorInv
<1>8. CASE Calls
  <2>1. ASSUME NEW a \in Accounts, Register(a) PROVE Registered' # {} => Participants' # {}
    BY <2>1, EnrollSurvivors DEF Register, MayRegister
  <2>2. CASE ~ \E a \in Accounts : Register(a)
    <3>1. order' = order /\ slashed' = slashed
      BY ZenonT(60), <1>8, <2>2
      DEF Calls, RewardVerifier, RequestUnstake, Penalise, StakeTokens, Pay, RefreshTrainingData,
          bootstrap
    <3> QED BY <3>1, SurvivorsUntouched
  <2> QED BY <2>1, <2>2
<1>9. CASE UNCHANGED vars
  BY <1>9, SurvivorsUntouched DEF vars, bootstrap
<1> QED
  BY <1>1, <1>2, <1>3, <1>4, <1>5, <1>6, <1>7, <1>8, <1>9 DEF Next, Mining

\* The ranking slash never empties the active set: once somebody has registered,
\* somebody outranked by nobody remains, however stake and rank move.
THEOREM ActiveSetNeverEmpties == Spec => []SomebodyMayMine
<1>1. Init => SurvivorInv
  BY InitLedger DEF Init, SurvivorInv, Registered
<1>2. SurvivorInv /\ [Next]_vars => SurvivorInv'
  BY NextKeepsLedger, NextKeepsSurvivors DEF SurvivorInv
<1>3. SurvivorInv => SomebodyMayMine
  BY ActiveIfAny DEF SurvivorInv, SomebodyMayMine
<1> QED
  BY <1>1, <1>2, <1>3, PTL DEF Spec
=============================================================================
