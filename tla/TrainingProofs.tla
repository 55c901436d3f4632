--------------------------- MODULE TrainingProofs ---------------------------
(***************************************************************************)
(* Proofs about training: the scheduler's books and its rotation, for any  *)
(* models, prices and priorities; the market that decides which models a   *)
(* block trains, for any tasks, tips and cooldowns; and the evidence that  *)
(* a training block carries, for any states, steps and layers.             *)
(*                                                                         *)
(* Recursive functions are defined by a CHOOSE.  What they are is proved   *)
(* in two steps: a function with the equation exists, since the smallest   *)
(* number for which there is none would need only one value more than the  *)
(* number before it; and what the equation says of its values holds, since *)
(* the smallest counterexample would follow from the value before it.      *)
(***************************************************************************)
EXTENDS ModelSchedulerProps, TrainingMarketProps, SpotCheckProps, SumTheorems, SequenceTheorems, TLAPS

-----------------------------------------------------------------------------
(* The scheduler's books                                                    *)

\* Slots are of models, a model without a slot has left nothing behind, and the balances
\* are what the accounts say.
BooksInv ==
  /\ order \in Seq(Models)
  /\ balance \in [Models -> Int]
  /\ \A m \in Models \ Registered : balance[m] = 0
  /\ {paid, spent, returned, forfeited} \subseteq Int
  /\ PaymentsAreAccounted

LEMMA RegisteredAreModels ==
  ASSUME order \in Seq(Models)
  PROVE  Registered \subseteq Models
BY DEF Registered

\* Whoever loses a slot, the others keep theirs.
LEMMA RemovalKeepsOthers ==
  ASSUME NEW S, NEW s \in Seq(S), NEW i \in 1 .. Len(s)
  PROVE  /\ RemoveAt(s, i) \in Seq(S)
         /\ \A j \in 1 .. Len(s) : j # i => \E k \in DOMAIN RemoveAt(s, i) : RemoveAt(s, i)[k] = s[j]
<1> DEFINE a == SubSeq(s, 1, i - 1)
           b == SubSeq(s, i + 1, Len(s))
<1>1. a \in Seq(S) /\ Len(a) = i - 1 /\ \A j \in 1 .. i - 1 : a[j] = s[j]
  <2>1. \A j \in 1 .. i - 1 : s[j] \in S
    OBVIOUS
  <2> QED
    BY <2>1, SubSeqProperties
<1>2. b \in Seq(S) /\ Len(b) = Len(s) - i /\ \A j \in 1 .. Len(s) - i : b[j] = s[i + j]
  <2>1. \A j \in i + 1 .. Len(s) : s[j] \in S
    OBVIOUS
  <2> QED
    BY <2>1, SubSeqProperties
<1> DEFINE c == a \o b
<1>3. RemoveAt(s, i) = c
  BY DEF RemoveAt
<1> HIDE DEF a, b
<1>4. /\ c \in Seq(S) /\ Len(c) = Len(s) - 1
      /\ \A k \in 1 .. Len(s) - 1 : c[k] = IF k <= i - 1 THEN a[k] ELSE b[k - (i - 1)]
  <2>1. a \in Seq(S) /\ b \in Seq(S) /\ Len(a) = i - 1 /\ Len(a) + Len(b) = Len(s) - 1
    BY <1>1, <1>2
  <2>2. /\ c \in Seq(S) /\ Len(c) = Len(a) + Len(b)
        /\ \A k \in 1 .. Len(a) + Len(b) :
             c[k] = IF k <= Len(a) THEN a[k] ELSE b[k - Len(a)]
    BY <2>1, ConcatProperties
  <2> QED
    BY <2>1, <2>2
<1> HIDE DEF c
<1>5. ASSUME NEW j \in 1 .. Len(s), j # i
      PROVE  \E k \in 1 .. Len(s) - 1 : c[k] = s[j]
  <2>1. CASE j < i
    <3>1. j \in 1 .. Len(s) - 1 /\ j \in 1 .. i - 1 /\ j <= i - 1
      BY <2>1
    <3>2. c[j] = a[j]
      BY <1>4, <3>1
    <3>3. a[j] = s[j]
      BY <1>1, <3>1
    <3> QED
      BY <3>1, <3>2, <3>3
  <2>2. CASE j > i
    <3>1. /\ j - 1 \in 1 .. Len(s) - 1 /\ ~(j - 1 <= i - 1)
          /\ j - i \in 1 .. Len(s) - i /\ (j - 1) - (i - 1) = j - i /\ i + (j - i) = j
      BY <2>2
    <3>2. c[j - 1] = b[j - i]
      BY <1>4, <3>1
    <3>3. b[j - i] = s[j]
      BY <1>2, <3>1
    <3> QED
      BY <3>1, <3>2, <3>3
  <2> QED
    BY <1>5, <2>1, <2>2
<1>6. DOMAIN c = 1 .. Len(s) - 1
  BY <1>4
<1> QED
  BY <1>3, <1>4, <1>5, <1>6

\* The sum of the balances when the balance of one model changes.
OnlyChange(f, g, m, v) ==
  /\ g \in [Models -> Int]
  /\ SumFunctionOnSet(f, Models) \in Int
  /\ SumFunctionOnSet(g, Models) = SumFunctionOnSet(f, Models) - f[m] + v

LEMMA OneBalanceChanges ==
  ASSUME NEW f \in [Models -> Int], NEW m \in Models, NEW v \in Int, NEW g
  PROVE  g = [f EXCEPT ![m] = v] => OnlyChange(f, g, m, v)
<1>1. IsFiniteSet(Models) /\ \A n \in Models : f[n] \in Int
  BY SchedulerConstants
<1>2. g = [f EXCEPT ![m] = v] =>
        g \in [Models -> Int] /\ g[m] = v /\ \A n \in Models \ {m} : g[n] = f[n]
  OBVIOUS
<1>3. SumFunctionOnSet(f, Models) \in Int
  BY <1>1, SumInt
<1>4. g[m] = v /\ (\A n \in Models \ {m} : g[n] = f[n]) =>
        SumFunctionOnSet(g, Models) = SumFunctionOnSet(f, Models) - f[m] + v
  BY <1>1, SumUpdate
<1> QED
  BY <1>2, <1>3, <1>4 DEF OnlyChange

LEMMA BooksInit ==
  ASSUME Init
  PROVE  BooksInv
<1>1. SumFunctionOnSet(balance, Models) = 0
  <2>1. IsFiniteSet(Models) /\ \A m \in Models : balance[m] = 0
    BY SchedulerConstants DEF Init
  <2> QED
    BY <2>1, SumZero
<1> QED
  BY <1>1 DEF Init, BooksInv, PaymentsAreAccounted

LEMMA MinerKeepsBooks ==
  ASSUME BooksInv, Miner
  PROVE  BooksInv'
<1>1. CASE GetNext
  BY <1>1 DEF GetNext, BooksInv, PaymentsAreAccounted, Registered, accounts
<1>2. CASE DropIteration
  BY <1>2 DEF DropIteration, BooksInv, PaymentsAreAccounted, Registered, accounts
<1>3. CASE RecordIteration
  <2>1. training \in Models /\ UNCHANGED <<paid, returned, forfeited>>
    BY <1>3, RegisteredAreModels DEF RecordIteration, BooksInv
  <2>2. Price[training] \in Int /\ balance[training] \in Int
    BY <2>1, SchedulerConstants DEF BooksInv
  <2>3. CASE Charge(training)
    <3> DEFINE rem == balance[training] - Price[training]
    <3>1. order' = order /\ spent' = spent + Price[training]
      BY <1>3, <2>3 DEF Charge, Rebuild, RecordIteration
    <3>2. balance' = [balance EXCEPT ![training] = rem]
      BY <2>3 DEF Charge, Rebuild
    <3>3. rem \in Int /\ balance \in [Models -> Int]
      BY <2>2 DEF BooksInv
    <3>4. \A m \in Models \ Registered : balance'[m] = balance[m]
      BY <1>3, <3>2, <3>3 DEF RecordIteration
    <3> HIDE DEF rem
    <3>5. balance' = [balance EXCEPT ![training] = rem] => OnlyChange(balance, balance', training, rem)
      BY <2>1, <3>3, OneBalanceChanges
    <3>6. OnlyChange(balance, balance', training, rem)
      BY <3>2, <3>5
    <3> QED
      <4>1. PaymentsAreAccounted'
        BY <2>1, <2>2, <3>1, <3>6, SMTT(30) DEF BooksInv, PaymentsAreAccounted, OnlyChange, rem
      <4>2. Registered' = Registered
        BY <3>1 DEF Registered
      <4>3. {paid', spent', returned', forfeited'} \subseteq Int
        BY <2>1, <2>2, <3>1 DEF BooksInv
      <4> QED
        BY <3>1, <3>4, <3>6, <4>1, <4>2, <4>3 DEF BooksInv, OnlyChange
  <2>4. CASE Refuse(training)
    BY <2>1, <2>4 DEF Refuse, Rebuild, BooksInv, PaymentsAreAccounted, Registered
  <2> QED
    BY <1>3, <2>3, <2>4 DEF RecordIteration
<1> QED
  BY <1>1, <1>2, <1>3 DEF Miner

LEMMA RegisterKeepsBooks ==
  ASSUME BooksInv, NEW m \in Models, NEW x \in Payments, RegisterModel(m, x)
  PROVE  BooksInv'
<1>1. /\ m \notin Registered /\ order' = Append(order, m)
      /\ paid' = paid + x /\ UNCHANGED <<spent, returned, forfeited>>
  BY DEF RegisterModel, Rebuild
<1>2. x \in Int /\ balance[m] = 0 /\ balance \in [Models -> Int]
  BY <1>1, SchedulerConstants DEF BooksInv
<1>3. balance' = [balance EXCEPT ![m] = x]
  BY DEF RegisterModel, Rebuild
<1>4. balance' = [balance EXCEPT ![m] = x] => OnlyChange(balance, balance', m, x)
  BY <1>2, OneBalanceChanges
<1>5. OnlyChange(balance, balance', m, x)
  BY <1>3, <1>4
<1>6. order' \in Seq(Models) /\ Registered' = Registered \cup {m}
  <2>1. order \in Seq(Models)
    BY DEF BooksInv
  <2> QED
    BY <1>1, <2>1 DEF Registered
<1>7. \A n \in Models \ Registered' : balance'[n] = 0
  BY <1>3, <1>6 DEF BooksInv
<1> QED
  <2>1. paid \in Int /\ spent \in Int /\ returned \in Int /\ forfeited \in Int
    BY DEF BooksInv
  <2>2. /\ paid = SumFunctionOnSet(balance, Models) + spent + returned + forfeited
        /\ SumFunctionOnSet(balance', Models) = SumFunctionOnSet(balance, Models) - 0 + x
        /\ SumFunctionOnSet(balance, Models) \in Int
    BY <1>2, <1>5 DEF BooksInv, PaymentsAreAccounted, OnlyChange
  <2>3. paid' = paid + x /\ UNCHANGED <<spent, returned, forfeited>> /\ x \in Int
    BY <1>1, <1>2
  <2>4. PaymentsAreAccounted'
    BY <2>1, <2>2, <2>3 DEF PaymentsAreAccounted
  <2> QED
    BY <1>1, <1>2, <1>5, <1>6, <1>7, <2>1, <2>4 DEF BooksInv, OnlyChange

LEMMA PaymentKeepsBooks ==
  ASSUME BooksInv, NEW m \in Models, NEW x \in Payments, AddPayment(m, x)
  PROVE  BooksInv'
<1> DEFINE v == balance[m] + x
<1>1. /\ m \in Registered /\ order' = order
      /\ paid' = paid + x /\ UNCHANGED <<spent, returned, forfeited>>
  BY DEF AddPayment, Rebuild
<1>2. x \in Int /\ v \in Int /\ balance[m] \in Int /\ balance \in [Models -> Int]
  BY SchedulerConstants DEF BooksInv
<1>3. balance' = [balance EXCEPT ![m] = v]
  BY DEF AddPayment, Rebuild
<1>4. \A n \in Models \ Registered : balance'[n] = balance[n]
  BY <1>1, <1>2, <1>3
<1> HIDE DEF v
<1>5. balance' = [balance EXCEPT ![m] = v] => OnlyChange(balance, balance', m, v)
  BY <1>2, OneBalanceChanges
<1>6. OnlyChange(balance, balance', m, v)
  BY <1>3, <1>5
<1> QED
  <2>1. paid \in Int /\ spent \in Int /\ returned \in Int /\ forfeited \in Int
    BY DEF BooksInv
  <2>2. /\ paid = SumFunctionOnSet(balance, Models) + spent + returned + forfeited
        /\ SumFunctionOnSet(balance', Models) = SumFunctionOnSet(balance, Models) - balance[m] + v
        /\ SumFunctionOnSet(balance, Models) \in Int
    BY <1>6 DEF BooksInv, PaymentsAreAccounted, OnlyChange
  <2>3. PaymentsAreAccounted'
    BY <1>1, <1>2, <2>1, <2>2 DEF PaymentsAreAccounted, v
  <2>4. Registered' = Registered
    BY <1>1 DEF Registered
  <2> QED
    BY <1>1, <1>2, <1>4, <1>6, <2>1, <2>3, <2>4 DEF BooksInv, OnlyChange

LEMMA WithdrawKeepsBooks ==
  ASSUME BooksInv, NEW m \in Models, Withdraw(m)
  PROVE  BooksInv'
<1>1. /\ order' = order
      /\ returned' = returned + balance[m] /\ UNCHANGED <<paid, spent, forfeited>>
  BY DEF Withdraw
<1>2. balance[m] \in Int /\ balance \in [Models -> Int]
  BY DEF BooksInv
<1> DEFINE v == 0
<1>3. balance' = [balance EXCEPT ![m] = v] /\ v \in Int
  BY DEF Withdraw
<1>4. \A n \in Models \ Registered : balance'[n] = 0
  BY <1>2, <1>3 DEF BooksInv
<1> HIDE DEF v
<1>5. balance' = [balance EXCEPT ![m] = v] => OnlyChange(balance, balance', m, v)
  BY <1>2, <1>3, OneBalanceChanges
<1>6. OnlyChange(balance, balance', m, v)
  BY <1>3, <1>5
<1>7. PaymentsAreAccounted'
  BY <1>1, <1>2, <1>6 DEF BooksInv, PaymentsAreAccounted, OnlyChange, v
<1> QED
  BY <1>1, <1>2, <1>4, <1>6, <1>7 DEF BooksInv, Registered, OnlyChange

LEMMA RemovalKeepsBooks ==
  ASSUME BooksInv, NEW m \in Models, RemoveModel(m)
  PROVE  BooksInv'
<1> DEFINE place == CHOOSE i \in DOMAIN order : order[i] = m
<1>1. /\ m \in Registered /\ order' = RemoveAt(order, place)
      /\ forfeited' = forfeited + balance[m] /\ UNCHANGED <<paid, spent, returned>>
  BY DEF RemoveModel, Rebuild
<1>2. order \in Seq(Models) /\ place \in 1 .. Len(order) /\ order[place] = m
  BY <1>1 DEF BooksInv, Registered
<1> HIDE DEF place
<1>3. /\ order' \in Seq(Models)
      /\ \A j \in 1 .. Len(order) : j # place => \E k \in DOMAIN order' : order'[k] = order[j]
  BY <1>1, <1>2, RemovalKeepsOthers
<1>4. Registered \ {m} \subseteq Registered'
  BY <1>2, <1>3 DEF Registered
<1>5. balance[m] \in Int /\ balance \in [Models -> Int]
  BY DEF BooksInv
<1> DEFINE v == 0
<1>6. balance' = [balance EXCEPT ![m] = v] /\ v \in Int
  BY DEF RemoveModel, Rebuild
<1>7. \A n \in Models \ Registered' : balance'[n] = 0
  BY <1>4, <1>5, <1>6 DEF BooksInv
<1> HIDE DEF v
<1>8. balance' = [balance EXCEPT ![m] = v] => OnlyChange(balance, balance', m, v)
  BY <1>5, <1>6, OneBalanceChanges
<1>9. OnlyChange(balance, balance', m, v)
  BY <1>6, <1>8
<1>10. PaymentsAreAccounted'
  BY <1>1, <1>5, <1>9 DEF BooksInv, PaymentsAreAccounted, OnlyChange, v
<1> QED
  BY <1>1, <1>3, <1>5, <1>7, <1>9, <1>10 DEF BooksInv, OnlyChange

LEMMA NextKeepsBooks ==
  ASSUME BooksInv, [Next]_vars
  PROVE  BooksInv'
<1>1. CASE Miner
  BY <1>1, MinerKeepsBooks
<1>2. ASSUME NEW m \in Models, NEW x \in Payments, RegisterModel(m, x)
      PROVE  BooksInv'
  BY <1>2, RegisterKeepsBooks
<1>3. ASSUME NEW m \in Models, NEW x \in Payments, AddPayment(m, x)
      PROVE  BooksInv'
  BY <1>3, PaymentKeepsBooks
<1>4. ASSUME NEW m \in Models, Withdraw(m)
      PROVE  BooksInv'
  BY <1>4, WithdrawKeepsBooks
<1>5. ASSUME NEW m \in Models, RemoveModel(m)
      PROVE  BooksInv'
  BY <1>5, RemovalKeepsBooks
<1>6. ASSUME \/ AutoPause
             \/ \E m \in Models : Deprecate(m) \/ \E flag \in BOOLEAN : SetActive(m, flag)
      PROVE  BooksInv'
  <2>1. UNCHANGED <<order, balance, accounts>>
    BY <1>6 DEF AutoPause, Deprecate, SetActive, Rebuild
  <2> QED
    BY <2>1 DEF BooksInv, PaymentsAreAccounted, Registered, accounts
<1>7. CASE UNCHANGED vars
  BY <1>7 DEF vars, BooksInv, PaymentsAreAccounted, Registered, accounts
<1> QED
  BY <1>1, <1>2, <1>3, <1>4, <1>5, <1>6, <1>7 DEF Next, Owners

(* Every token an owner paid in is in a slot, was spent, was withdrawn once *)
(* or was dropped with its slot, in whatever order owners call and the     *)
(* miner trains (record_training_iteration, withdraw_balance, remove_model). *)
THEOREM BooksSafe == Spec => []PaymentsAreAccounted
<1>1. Init => BooksInv
  BY BooksInit
<1>2. BooksInv /\ [Next]_vars => BooksInv'
  BY NextKeepsBooks
<1>3. BooksInv => PaymentsAreAccounted
  BY DEF BooksInv
<1> QED
  BY <1>1, <1>2, <1>3, PTL DEF Spec

-----------------------------------------------------------------------------
(* The rotation                                                             *)

\* A sequence of sequences is laid end to end by a recursive function: what f is, if it
\* is that function for n sequences.
LaysOut(f, n, parts) == f = [i \in 1 .. n |-> IF i = 1 THEN parts[i] ELSE f[i - 1] \o parts[i]]

LEMMA LayoutsExist ==
  ASSUME NEW parts, NEW m \in Nat \ {0}
  PROVE  \E f : LaysOut(f, m, parts)
<1> DEFINE Bad == {n \in 1 .. m : ~ \E f : LaysOut(f, n, parts)}
<1> SUFFICES ASSUME m \in Bad PROVE FALSE
  OBVIOUS
<1>1. PICK n \in Bad : \A u \in Bad : n <= u
  <2>1. Bad \subseteq 0 .. m /\ Bad # {}
    OBVIOUS
  <2> HIDE DEF Bad
  <2> QED
    BY <2>1, SmallestNumber
<1>2. n \in 1 .. m /\ ~ \E f : LaysOut(f, n, parts)
  OBVIOUS
<1>3. n # 1
  <2> DEFINE f == [i \in 1 .. 1 |-> parts[i]]
  <2>1. LaysOut(f, 1, parts)
    BY DEF LaysOut
  <2> QED
    BY <1>2, <2>1
<1>4. PICK g : LaysOut(g, n - 1, parts)
  <2>1. n - 1 \in 1 .. m /\ ~(n <= n - 1)
    BY <1>2, <1>3
  <2> QED
    BY <1>1, <2>1
<1> DEFINE last == g[n - 1] \o parts[n]
           f == [i \in 1 .. n |-> IF i < n THEN g[i] ELSE last]
           F(i) == IF i = 1 THEN parts[i] ELSE f[i - 1] \o parts[i]
<1>5. \A i \in 1 .. n - 1 : g[i] = IF i = 1 THEN parts[i] ELSE g[i - 1] \o parts[i]
  BY <1>4 DEF LaysOut
<1>6. ASSUME NEW i \in 1 .. n
      PROVE  f[i] = F(i)
  <2>1. i # 1 => i - 1 \in 1 .. n /\ i - 1 < n /\ f[i - 1] = g[i - 1]
    BY <1>2
  <2>2. CASE i < n
    <3>1. i \in 1 .. n - 1 /\ f[i] = g[i]
      BY <1>2, <2>2
    <3> QED
      BY <1>5, <2>1, <3>1
  <2>3. CASE ~(i < n)
    <3>1. i = n
      BY <1>2, <2>3
    <3>2. f[n] = last
      <4> HIDE DEF last
      <4> QED
        BY <1>2
    <3> HIDE DEF f
    <3> QED
      BY <1>3, <2>1, <3>1, <3>2
  <2> QED
    BY <2>2, <2>3
<1>7. LaysOut(f, n, parts)
  <2>1. f = [i \in 1 .. n |-> f[i]]
    OBVIOUS
  <2> HIDE DEF f
  <2> QED
    BY <1>6, <2>1 DEF LaysOut
<1> QED
  BY <1>2, <1>7

\* What two sequences hold, end to end.
LEMMA JoinedHolds ==
  ASSUME NEW S, NEW s \in Seq(S), NEW t \in Seq(S)
  PROVE  s \o t \in Seq(S) /\ ToSet(s \o t) = ToSet(s) \cup ToSet(t)
<1> DEFINE c == s \o t
<1>1. /\ c \in Seq(S) /\ Len(c) = Len(s) + Len(t)
      /\ \A i \in 1 .. Len(s) + Len(t) : c[i] = IF i <= Len(s) THEN s[i] ELSE t[i - Len(s)]
  BY ConcatProperties
<1>2. Len(s) \in Nat /\ Len(t) \in Nat
  OBVIOUS
<1> HIDE DEF c
<1>3. ToSet(c) \subseteq ToSet(s) \cup ToSet(t)
  <2> SUFFICES ASSUME NEW i \in 1 .. Len(s) + Len(t) PROVE c[i] \in ToSet(s) \cup ToSet(t)
    BY <1>1 DEF ToSet
  <2>1. CASE i <= Len(s)
    BY <1>1, <1>2, <2>1 DEF ToSet
  <2>2. CASE ~(i <= Len(s))
    <3>1. i - Len(s) \in 1 .. Len(t)
      BY <1>2, <2>2
    <3> QED
      BY <1>1, <2>2, <3>1 DEF ToSet
  <2> QED
    BY <2>1, <2>2
<1>4. ToSet(s) \subseteq ToSet(c)
  <2> SUFFICES ASSUME NEW i \in 1 .. Len(s) PROVE s[i] \in ToSet(c)
    BY DEF ToSet
  <2>1. i \in 1 .. Len(s) + Len(t) /\ i <= Len(s)
    BY <1>2
  <2> QED
    BY <1>1, <2>1 DEF ToSet
<1>5. ToSet(t) \subseteq ToSet(c)
  <2> SUFFICES ASSUME NEW i \in 1 .. Len(t) PROVE t[i] \in ToSet(c)
    BY DEF ToSet
  <2>1. i + Len(s) \in 1 .. Len(s) + Len(t) /\ ~(i + Len(s) <= Len(s)) /\ (i + Len(s)) - Len(s) = i
    BY <1>2
  <2> QED
    BY <1>1, <2>1 DEF ToSet
<1> QED
  BY <1>1, <1>3, <1>4, <1>5 DEF c

\* What any number of sequences hold, end to end.
LEMMA FlattenedHolds ==
  ASSUME NEW S, NEW n \in Nat, NEW parts, parts = [i \in 1 .. n |-> parts[i]],
         \A i \in 1 .. n : parts[i] \in Seq(S)
  PROVE  /\ FlattenSeq(parts) \in Seq(S)
         /\ ToSet(FlattenSeq(parts)) = UNION {ToSet(parts[i]) : i \in 1 .. n}
<1>1. Len(parts) = n
  OBVIOUS
<1>2. CASE n = 0
  <2>1. FlattenSeq(parts) = <<>>
    BY <1>1, <1>2 DEF FlattenSeq
  <2>2. FlattenSeq(parts) \in Seq(S) /\ ToSet(FlattenSeq(parts)) = {}
    BY <2>1 DEF ToSet
  <2>3. UNION {ToSet(parts[i]) : i \in 1 .. n} = {}
    BY <1>2
  <2> QED
    BY <2>2, <2>3
<1>3. CASE n # 0
  <2> DEFINE G == CHOOSE f : LaysOut(f, n, parts)
             Joined(i) == UNION {ToSet(parts[k]) : k \in 1 .. i}
             Good(i) == G[i] \in Seq(S) /\ ToSet(G[i]) = Joined(i)
             Bad == {i \in 1 .. n : ~Good(i)}
  <2>1. FlattenSeq(parts) = G[n]
    BY <1>1, <1>3 DEF FlattenSeq, LaysOut
  <2>2. LaysOut(G, n, parts)
    BY <1>3, LayoutsExist
  <2> HIDE DEF G
  <2>3. \A i \in 1 .. n : G[i] = IF i = 1 THEN parts[i] ELSE G[i - 1] \o parts[i]
    BY <2>2 DEF LaysOut
  <2>4. Good(1)
    <3>1. G[1] = parts[1] /\ parts[1] \in Seq(S) /\ 1 .. 1 = {1}
      BY <1>3, <2>3
    <3> QED
      BY <3>1
  <2>5. Bad = {}
    <3> SUFFICES ASSUME Bad # {} PROVE FALSE
      OBVIOUS
    <3>1. PICK i \in Bad : \A u \in Bad : i <= u
      <4>1. Bad \subseteq 0 .. n
        OBVIOUS
      <4> HIDE DEF Bad
      <4> QED
        BY <4>1, SmallestNumber
    <3>2. i \in 1 .. n /\ ~Good(i) /\ i # 1
      BY <2>4
    <3>3. i - 1 \in 1 .. n /\ ~(i <= i - 1)
      BY <3>2
    <3>4. Good(i - 1)
      BY <3>1, <3>3
    <3>5. G[i] = G[i - 1] \o parts[i]
      BY <2>3, <3>2
    <3>6. G[i] \in Seq(S) /\ ToSet(G[i]) = ToSet(G[i - 1]) \cup ToSet(parts[i])
      BY <3>2, <3>4, <3>5, JoinedHolds
    <3>7. 1 .. i = (1 .. i - 1) \cup {i}
      BY <3>2
    <3>8. Joined(i) = Joined(i - 1) \cup ToSet(parts[i])
      BY <3>7
    <3> QED
      BY <3>2, <3>4, <3>6, <3>8
  <2>6. Good(n)
    <3>1. n \in 1 .. n
      BY <1>3
    <3> HIDE DEF Good
    <3> QED
      BY <2>5, <3>1
  <2> QED
    BY <2>1, <2>6
<1> QED
  BY <1>2, <1>3

\* A tier is of the models that it should be.
PaidIn(p, ord, act, bal) == {m \in ToSet(ord) : Priority[m] = p /\ act[m] /\ bal[m] >= MinBalance}

LEMMA TierHolds ==
  ASSUME NEW p, NEW ord \in Seq(Models), NEW act, NEW bal
  PROVE  /\ Tier(p, ord, act, bal) \in Seq(Models)
         /\ ToSet(Tier(p, ord, act, bal)) = PaidIn(p, ord, act, bal)
<1> DEFINE Belongs(m) == Priority[m] = p /\ act[m] /\ bal[m] >= MinBalance
           parts == [i \in 1 .. Len(ord) |-> IF Belongs(ord[i]) THEN <<ord[i]>> ELSE <<>>]
<1>1. Len(ord) \in Nat /\ \A i \in 1 .. Len(ord) : ord[i] \in Models
  OBVIOUS
<1>2. Tier(p, ord, act, bal) = FlattenSeq(parts)
  BY DEF Tier
<1> HIDE DEF Belongs
<1>3. ASSUME NEW i \in 1 .. Len(ord)
      PROVE  /\ parts[i] \in Seq(Models)
             /\ ToSet(parts[i]) = IF Belongs(ord[i]) THEN {ord[i]} ELSE {}
  <2>1. parts[i] = IF Belongs(ord[i]) THEN <<ord[i]>> ELSE <<>>
    OBVIOUS
  <2> HIDE DEF parts
  <2>2. CASE Belongs(ord[i])
    <3>1. parts[i] = <<ord[i]>>
      BY <2>1, <2>2
    <3>2. <<ord[i]>> \in Seq(Models) /\ ToSet(<<ord[i]>>) = {ord[i]}
      BY <1>1 DEF ToSet
    <3> QED
      BY <2>2, <3>1, <3>2
  <2>3. CASE ~Belongs(ord[i])
    BY <2>1, <2>3 DEF ToSet
  <2> QED
    BY <2>2, <2>3
<1>4. parts = [i \in 1 .. Len(ord) |-> parts[i]]
  OBVIOUS
<1> HIDE DEF parts
<1>5. /\ FlattenSeq(parts) \in Seq(Models)
      /\ ToSet(FlattenSeq(parts)) = UNION {ToSet(parts[i]) : i \in 1 .. Len(ord)}
  BY <1>1, <1>3, <1>4, FlattenedHolds, ZenonT(60)
<1>6. UNION {ToSet(parts[i]) : i \in 1 .. Len(ord)} = {m \in ToSet(ord) : Belongs(m)}
  <2>1. ToSet(ord) = {ord[i] : i \in 1 .. Len(ord)}
    BY DEF ToSet
  <2> QED
    BY <1>3, <2>1
<1> QED
  BY <1>2, <1>5, <1>6 DEF Belongs, PaidIn

\* A turn is of a member of the tier, and a tier's first turn is its first member's.
LEMMA PickHolds ==
  ASSUME NEW s \in Seq(Models), NEW i \in Nat, NEW stride \in {1, 2, 3}
  PROVE  /\ Pick(s, i, stride) \in Seq(Models)
         /\ ToSet(Pick(s, i, stride)) \subseteq ToSet(s)
         /\ s # <<>> /\ i = 0 => Pick(s, i, stride) = <<s[1]>>
<1>1. CASE s = <<>> \/ i % stride # 0
  <2>1. Pick(s, i, stride) = <<>>
    BY <1>1 DEF Pick
  <2>2. 0 % stride = 0
    <3>1. 0 % 1 = 0 /\ 0 % 2 = 0 /\ 0 % 3 = 0
      OBVIOUS
    <3> QED
      BY <3>1
  <2> QED
    BY <1>1, <2>1, <2>2 DEF ToSet
<1>2. CASE ~(s = <<>> \/ i % stride # 0)
  <2> DEFINE k == (i % Len(s)) + 1
  <2>1. Pick(s, i, stride) = <<s[k]>>
    BY <1>2 DEF Pick
  <2>2. Len(s) \in Nat \ {0}
    BY <1>2
  <2>3. k \in 1 .. Len(s) /\ (i = 0 => k = 1)
    <3> DEFINE n == Len(s)
    <3> HIDE DEF n
    <3>1. n \in Nat \ {0}
      BY <2>2 DEF n
    <3>2. i % n \in 0 .. n - 1 /\ (i = 0 => i % n = 0)
      BY <3>1
    <3> QED
      BY <3>1, <3>2 DEF n
  <2> HIDE DEF k
  <2>4. s[k] \in Models /\ s[k] \in ToSet(s)
    BY <2>3 DEF ToSet
  <2>5. <<s[k]>> \in Seq(Models) /\ ToSet(<<s[k]>>) = {s[k]}
    BY <2>4 DEF ToSet
  <2> QED
    BY <2>1, <2>3, <2>4, <2>5
<1> QED
  BY <1>1, <1>2

LEMMA SpanIsPositive ==
  ASSUME NEW a \in Nat, NEW b \in Nat, NEW c \in Nat
  PROVE  Max({a, b, c, 1}) \in Nat \ {0}
<1> DEFINE ab == IF a >= b THEN a ELSE b
           c1 == IF c >= 1 THEN c ELSE 1
           m == IF ab >= c1 THEN ab ELSE c1
           S == {a, b, c, 1}
<1>1. m \in S /\ \A y \in S : m >= y
  OBVIOUS
<1>2. Max(S) \in S /\ \A y \in S : Max(S) >= y
  <2> HIDE DEF m, S
  <2> QED
    BY <1>1 DEF Max
<1>3. Max(S) >= 1 /\ Max(S) \in Nat
  BY <1>2
<1> QED
  BY <1>3

\* The rotation names only models that are active and have paid, and each of those that
\* is alone in a tier: the first turn of its tier is its own.
LEMMA RotationHolds ==
  ASSUME NEW ord \in Seq(Models), NEW act, NEW bal
  PROVE  /\ Rotation(ord, act, bal) \in Seq(Models)
         /\ ToSet(Rotation(ord, act, bal)) \subseteq {m \in ToSet(ord) : act[m] /\ bal[m] >= MinBalance}
         /\ \A m \in ToSet(ord) : act[m] /\ bal[m] >= MinBalance /\ AloneInTier(m) =>
              m \in ToSet(Rotation(ord, act, bal))
<1> DEFINE Paid == {m \in ToSet(ord) : act[m] /\ bal[m] >= MinBalance}
           high == Tier("high", ord, act, bal)
           normal == Tier("normal", ord, act, bal)
           low == Tier("low", ord, act, bal)
           span == Max({3 * Len(high), 2 * Len(normal), Len(low), 1})
           a(k) == Pick(high, k - 1, 1)
           b(k) == Pick(normal, k - 1, 2)
           c(k) == Pick(low, k - 1, 3)
           parts == [k \in 1 .. span |-> a(k) \o b(k) \o c(k)]
<1>1. /\ {high, normal, low} \subseteq Seq(Models)
      /\ ToSet(high) = {m \in Paid : Priority[m] = "high"}
      /\ ToSet(normal) = {m \in Paid : Priority[m] = "normal"}
      /\ ToSet(low) = {m \in Paid : Priority[m] = "low"}
  <2>1. ASSUME NEW p
        PROVE  /\ Tier(p, ord, act, bal) \in Seq(Models)
               /\ ToSet(Tier(p, ord, act, bal)) = {m \in Paid : Priority[m] = p}
    <3> DEFINE t == Tier(p, ord, act, bal)
    <3>1. t \in Seq(Models) /\ ToSet(t) = PaidIn(p, ord, act, bal)
      BY TierHolds
    <3>2. PaidIn(p, ord, act, bal) = {m \in Paid : Priority[m] = p}
      BY DEF PaidIn
    <3> QED
      BY <3>1, <3>2
  <2> HIDE DEF Paid
  <2> QED
    BY <2>1
<1>2. Paid \subseteq Models
  BY DEF ToSet
<1>3. Rotation(ord, act, bal) = FlattenSeq(parts)
  BY DEF Rotation
<1>4. span \in Nat \ {0}
  <2>1. Len(high) \in Nat /\ Len(normal) \in Nat /\ Len(low) \in Nat
    BY <1>1
  <2>2. 3 * Len(high) \in Nat /\ 2 * Len(normal) \in Nat
    BY <2>1
  <2> QED
    BY <2>1, <2>2, SpanIsPositive
<1> HIDE DEF high, normal, low, span
<1>5. ASSUME NEW k \in 1 .. span
      PROVE  /\ parts[k] \in Seq(Models)
             /\ ToSet(parts[k]) = ToSet(a(k)) \cup ToSet(b(k)) \cup ToSet(c(k))
             /\ ToSet(parts[k]) \subseteq Paid
  <2>1. k - 1 \in Nat
    BY <1>4
  <2>2. /\ {a(k), b(k), c(k)} \subseteq Seq(Models)
        /\ ToSet(a(k)) \subseteq ToSet(high) /\ ToSet(b(k)) \subseteq ToSet(normal)
        /\ ToSet(c(k)) \subseteq ToSet(low)
    <3>1. /\ a(k) \in Seq(Models) /\ ToSet(a(k)) \subseteq ToSet(high)
          /\ b(k) \in Seq(Models) /\ ToSet(b(k)) \subseteq ToSet(normal)
          /\ c(k) \in Seq(Models) /\ ToSet(c(k)) \subseteq ToSet(low)
      <4> DEFINE i == k - 1
      <4> HIDE DEF i, Paid
      <4>1. i \in Nat
        BY <2>1 DEF i
      <4>2. high \in Seq(Models) /\ normal \in Seq(Models) /\ low \in Seq(Models)
        BY <1>1
      <4>3. Pick(high, i, 1) \in Seq(Models) /\ ToSet(Pick(high, i, 1)) \subseteq ToSet(high)
        BY <4>1, <4>2, PickHolds
      <4>4. Pick(normal, i, 2) \in Seq(Models) /\ ToSet(Pick(normal, i, 2)) \subseteq ToSet(normal)
        BY <4>1, <4>2, PickHolds
      <4>5. Pick(low, i, 3) \in Seq(Models) /\ ToSet(Pick(low, i, 3)) \subseteq ToSet(low)
        BY <4>1, <4>2, PickHolds
      <4> QED
        BY <4>3, <4>4, <4>5 DEF i
    <3> HIDE DEF a, b, c
    <3> QED
      BY <3>1
  <2> DEFINE whole == a(k) \o b(k) \o c(k)
  <2>3. parts[k] = whole
    <3> HIDE DEF whole, a, b, c
    <3> QED
      BY DEF whole
  <2> HIDE DEF a, b, c
  <2>4. whole \in Seq(Models) /\ ToSet(whole) = ToSet(a(k)) \cup ToSet(b(k)) \cup ToSet(c(k))
    <3> DEFINE ab == a(k) \o b(k)
    <3>1. ab \in Seq(Models) /\ ToSet(ab) = ToSet(a(k)) \cup ToSet(b(k))
      BY <2>2, JoinedHolds
    <3> HIDE DEF ab
    <3>2. ab \o c(k) \in Seq(Models) /\ ToSet(ab \o c(k)) = ToSet(ab) \cup ToSet(c(k))
      BY <2>2, <3>1, JoinedHolds
    <3> QED
      BY <3>1, <3>2 DEF ab
  <2> HIDE DEF whole, parts
  <2> QED
    BY <1>1, <2>2, <2>3, <2>4
<1>6. parts = [k \in 1 .. span |-> parts[k]]
  OBVIOUS
<1> HIDE DEF parts, a, b, c
<1>7. /\ FlattenSeq(parts) \in Seq(Models)
      /\ ToSet(FlattenSeq(parts)) = UNION {ToSet(parts[k]) : k \in 1 .. span}
  <2>1. span \in Nat /\ \A k \in 1 .. span : parts[k] \in Seq(Models)
    BY <1>4, <1>5
  <2> HIDE DEF Paid
  <2> QED
    BY <1>6, <2>1, FlattenedHolds, ZenonT(60)
<1>8. ASSUME NEW m \in Paid, AloneInTier(m)
      PROVE  m \in ToSet(parts[1])
  <2>1. m \in Models /\ Priority[m] # "paused" /\ \A n \in Models : Priority[n] = Priority[m] => n = m
    BY <1>2, <1>8 DEF AloneInTier
  <2>2. Priority[m] \in {"high", "normal", "low"}
    BY <2>1, SchedulerConstants
  <2>3. ASSUME NEW s \in Seq(Models), NEW stride \in {1, 2, 3},
               ToSet(s) = {n \in Paid : Priority[n] = Priority[m]}
        PROVE  m \in ToSet(Pick(s, 1 - 1, stride))
    <3>1. ToSet(s) = {m}
      BY <1>2, <2>1, <2>3
    <3>2. PICK i \in 1 .. Len(s) : s[i] = m
      <4>1. m \in ToSet(s)
        BY <3>1
      <4>2. ToSet(s) = {s[k] : k \in 1 .. Len(s)}
        BY DEF ToSet
      <4> QED
        BY <4>1, <4>2, Zenon
    <3>3. 1 \in 1 .. Len(s) /\ s # <<>>
      BY <3>2
    <3>4. s[1] = m
      <4>1. s[1] \in ToSet(s)
        BY <3>3 DEF ToSet
      <4> QED
        BY <3>1, <4>1
    <3>5. Pick(s, 0, stride) = <<m>>
      BY <3>3, <3>4, PickHolds
    <3> QED
      BY <3>5 DEF ToSet
  <2>4. 1 \in 1 .. span
    BY <1>4
  <2>5. CASE Priority[m] = "high"
    <3>1. m \in ToSet(Pick(high, 1 - 1, 1))
      BY <1>1, <2>3, <2>5
    <3>2. m \in ToSet(a(1))
      BY <3>1 DEF a
    <3> QED
      BY <1>5, <2>4, <3>2
  <2>6. CASE Priority[m] = "normal"
    <3>1. m \in ToSet(Pick(normal, 1 - 1, 2))
      BY <1>1, <2>3, <2>6
    <3>2. m \in ToSet(b(1))
      BY <3>1 DEF b
    <3> QED
      BY <1>5, <2>4, <3>2
  <2>7. CASE Priority[m] = "low"
    <3>1. m \in ToSet(Pick(low, 1 - 1, 3))
      BY <1>1, <2>3, <2>7
    <3>2. m \in ToSet(c(1))
      BY <3>1 DEF c
    <3> QED
      BY <1>5, <2>4, <3>2
  <2> QED
    BY <2>2, <2>5, <2>6, <2>7
<1>9. /\ ToSet(FlattenSeq(parts)) \subseteq Paid
      /\ \A m \in Paid : AloneInTier(m) => m \in ToSet(FlattenSeq(parts))
  <2>1. 1 \in 1 .. span
    BY <1>4
  <2> QED
    BY <1>5, <1>7, <1>8, <2>1
<1> QED
  BY <1>3, <1>7, <1>9

\* The queue names only registered models that are active; the flag paidUp, which alone
\* decides whether a payment rebuilds the queue, is up for whoever can be trained, and
\* whoever is alone in a tier with the flag up is in the queue.
QueueInv ==
  /\ queue \in Seq(Models)
  /\ \A m \in ToSet(queue) : m \in Registered /\ active[m]
  /\ \A m \in Models : m \in Registered /\ active[m] /\ paidUp[m] /\ AloneInTier(m) => m \in ToSet(queue)
  /\ \A m \in Models : Trainable(m) => paidUp[m]

LEMMA RebuildKeepsQueue ==
  ASSUME NEW ord \in Seq(Models), NEW act, NEW bal, NEW flags, Rebuild(ord, act, bal, flags)
  PROVE  QueueInv'
<1> DEFINE Paid == {m \in ToSet(ord) : act[m] /\ bal[m] >= MinBalance}
           q == Rotation(ord, act, bal)
<1>1. /\ order' = ord /\ active' = act /\ balance' = bal /\ queue' = q
      /\ \A m \in Models : paidUp'[m] =
           IF act[m] /\ \E i \in DOMAIN ord : ord[i] = m THEN bal[m] >= MinBalance ELSE flags[m]
  BY DEF Rebuild
<1>2. q \in Seq(Models) /\ ToSet(q) \subseteq Paid /\ \A m \in Paid : AloneInTier(m) => m \in ToSet(q)
  BY RotationHolds
<1> HIDE DEF q
<1>3. Registered' = ToSet(ord)
  BY <1>1 DEF Registered, ToSet
<1>4. \A m \in ToSet(ord) : act[m] => paidUp'[m] = (bal[m] >= MinBalance)
  <2>1. \A m \in ToSet(ord) : m \in Models /\ \E i \in DOMAIN ord : ord[i] = m
    BY DEF ToSet
  <2> QED
    BY <1>1, <2>1
<1>5. ToSet(queue') = ToSet(q)
  BY <1>1
<1>6. (\A m \in ToSet(queue) : m \in Registered /\ active[m])'
  BY <1>1, <1>2, <1>3, <1>5
<1>7. (\A m \in Models : m \in Registered /\ active[m] /\ paidUp[m] /\ AloneInTier(m) => m \in ToSet(queue))'
  BY <1>1, <1>2, <1>3, <1>4, <1>5 DEF AloneInTier
<1>8. (\A m \in Models : Trainable(m) => paidUp[m])'
  BY <1>1, <1>3, <1>4 DEF Trainable
<1> QED
  BY <1>1, <1>2, <1>6, <1>7, <1>8 DEF QueueInv

\* Getting a model turns the queue round; one that was empty is rebuilt first.
LEMMA GetNextKeepsQueue ==
  ASSUME BooksInv, QueueInv, GetNext
  PROVE  QueueInv'
<1> DEFINE q == IF queue = <<>> THEN Rotation(order, active, balance) ELSE queue
           valid == {i \in DOMAIN q : Trainable(q[i])}
           k == Min(valid)
           a == SubSeq(q, k + 1, Len(q))
           b == SubSeq(q, 1, k)
<1>1. valid # {} /\ queue' = a \o b /\ UNCHANGED <<order, balance, active, paidUp>>
  BY DEF GetNext
<1>2. order \in Seq(Models)
  BY DEF BooksInv
<1>3. /\ q \in Seq(Models)
      /\ \A m \in ToSet(q) : m \in Registered /\ active[m]
      /\ \A m \in Models : m \in Registered /\ active[m] /\ paidUp[m] /\ AloneInTier(m) => m \in ToSet(q)
  <2>1. CASE queue = <<>>
    <3> DEFINE r == Rotation(order, active, balance)
    <3>1. r \in Seq(Models) /\ ToSet(r) \subseteq {m \in ToSet(order) : active[m]}
      <4>1. ToSet(r) \subseteq {m \in ToSet(order) : active[m] /\ balance[m] >= MinBalance}
        BY <1>2, RotationHolds
      <4>2. r \in Seq(Models)
        BY <1>2, RotationHolds
      <4> QED
        BY <4>1, <4>2
    <3>2. ToSet(order) = Registered /\ ToSet(queue) = {}
      BY <2>1 DEF Registered, ToSet
    <3> HIDE DEF r
    <3>3. q = r
      BY <2>1 DEF r
    <3> QED
      BY <3>1, <3>2, <3>3 DEF QueueInv
  <2>2. CASE queue # <<>>
    BY <2>2 DEF QueueInv
  <2> QED
    BY <2>1, <2>2
<1> HIDE DEF q
<1>4. k \in 1 .. Len(q)
  <2>1. valid \subseteq 0 .. Len(q) /\ Len(q) \in Nat
    BY <1>3
  <2>2. \E x \in valid : \A y \in valid : x <= y
    <3> HIDE DEF valid
    <3> QED
      BY <1>1, <2>1, SmallestNumber
  <2>3. k \in valid
    <3> HIDE DEF valid
    <3> QED
      BY <2>2 DEF Min
  <2> QED
    BY <1>3, <2>3
<1> HIDE DEF k, valid
<1>5. Len(q) \in Nat /\ \A i \in 1 .. Len(q) : q[i] \in Models
  BY <1>3
<1>6. b \in Seq(Models) /\ Len(b) = k /\ \A i \in 1 .. k : b[i] = q[i]
  <2>1. \A i \in 1 .. k : q[i] \in Models
    BY <1>4, <1>5
  <2> QED
    BY <1>4, <2>1, SubSeqProperties
<1>7. a \in Seq(Models) /\ Len(a) = Len(q) - k /\ \A i \in 1 .. Len(q) - k : a[i] = q[k + i]
  <2>1. \A i \in k + 1 .. Len(q) : q[i] \in Models
    BY <1>4, <1>5
  <2> QED
    BY <1>4, <1>5, <2>1, SubSeqProperties
<1> HIDE DEF a, b
<1>8. a \o b \in Seq(Models) /\ ToSet(a \o b) = ToSet(a) \cup ToSet(b)
  BY <1>6, <1>7, JoinedHolds
<1>9. ToSet(a) \cup ToSet(b) = ToSet(q)
  <2>1. ToSet(a) \subseteq ToSet(q)
    <3> SUFFICES ASSUME NEW i \in 1 .. Len(q) - k PROVE q[k + i] \in ToSet(q)
      BY <1>7 DEF ToSet
    <3>1. k + i \in 1 .. Len(q)
      BY <1>4, <1>5
    <3> QED
      BY <1>3, <3>1 DEF ToSet
  <2>2. ToSet(b) \subseteq ToSet(q)
    <3> SUFFICES ASSUME NEW i \in 1 .. k PROVE q[i] \in ToSet(q)
      BY <1>6 DEF ToSet
    <3>1. i \in 1 .. Len(q)
      BY <1>4, <1>5
    <3> QED
      BY <1>3, <3>1 DEF ToSet
  <2>3. ASSUME NEW i \in 1 .. Len(q)
        PROVE  q[i] \in ToSet(a) \cup ToSet(b)
    <3>1. CASE i <= k
      <4>1. i \in 1 .. k
        BY <1>4, <3>1
      <4> QED
        BY <1>6, <4>1 DEF ToSet
    <3>2. CASE ~(i <= k)
      <4>1. i - k \in 1 .. Len(q) - k /\ k + (i - k) = i
        BY <1>4, <1>5, <3>2
      <4> QED
        BY <1>7, <4>1 DEF ToSet
    <3> QED
      BY <3>1, <3>2
  <2>4. ToSet(q) \subseteq ToSet(a) \cup ToSet(b)
    BY <1>3, <2>3 DEF ToSet
  <2> QED
    BY <2>1, <2>2, <2>4
<1>10. queue' \in Seq(Models) /\ ToSet(queue') = ToSet(q)
  BY <1>1, <1>8, <1>9
<1>11. Registered' = Registered
  BY <1>1 DEF Registered
<1>12. (\A m \in ToSet(queue) : m \in Registered /\ active[m])'
  BY <1>1, <1>3, <1>10, <1>11
<1>13. (\A m \in Models : m \in Registered /\ active[m] /\ paidUp[m] /\ AloneInTier(m) => m \in ToSet(queue))'
  BY <1>1, <1>3, <1>10, <1>11 DEF AloneInTier
<1>14. (\A m \in Models : Trainable(m) => paidUp[m])'
  BY <1>1, <1>11 DEF QueueInv, Trainable
<1> QED
  BY <1>10, <1>12, <1>13, <1>14 DEF QueueInv

\* A call that does not rebuild the queue funds only models whose flag is up already.
LEMMA QuietKeepsQueue ==
  ASSUME QueueInv, UNCHANGED <<order, active, paidUp, queue>>,
         \A m \in Models : balance'[m] >= MinBalance => balance[m] >= MinBalance \/ paidUp[m]
  PROVE  QueueInv'
<1>1. Registered' = Registered
  BY DEF Registered
<1>2. (\A m \in Models : Trainable(m) => paidUp[m])'
  BY <1>1 DEF QueueInv, Trainable
<1>3. ToSet(queue)' = ToSet(queue)
  OBVIOUS
<1> QED
  BY <1>1, <1>2, <1>3 DEF QueueInv, AloneInTier

LEMMA RecordKeepsQueue ==
  ASSUME BooksInv, QueueInv, RecordIteration
  PROVE  QueueInv'
<1>1. order \in Seq(Models) /\ balance \in [Models -> Int] /\ training \in Models
  BY RegisteredAreModels DEF BooksInv, RecordIteration
<1> DEFINE v == balance[training] - Price[training]
           bal == [balance EXCEPT ![training] = v]
           full == inRound[training] + 1 >= RoundIterations
<1>2. CASE Charge(training) /\ full
  <2>1. Rebuild(order, active, bal, paidUp)
    BY <1>2 DEF Charge
  <2> HIDE DEF bal
  <2> QED
    BY <1>1, <2>1, RebuildKeepsQueue
<1>3. CASE Charge(training) /\ ~full
  <2>1. balance' = bal /\ UNCHANGED <<order, active, paidUp, queue>>
    BY <1>3 DEF Charge
  <2>2. Price[training] \in Nat /\ balance[training] \in Int
    BY <1>1, SchedulerConstants
  <2>3. v \in Int /\ v <= balance[training]
    BY <2>2
  <2> HIDE DEF v
  <2>4. \A m \in Models : balance'[m] = IF m = training THEN v ELSE balance[m]
    BY <1>1, <2>1
  <2>5. \A m \in Models : balance'[m] >= MinBalance => balance[m] >= MinBalance
    <3>1. MinBalance \in Int
      BY SchedulerConstants
    <3>2. v >= MinBalance => balance[training] >= MinBalance
      BY <2>2, <2>3, <3>1
    <3> QED
      BY <2>4, <3>2
  <2> QED
    BY <2>1, <2>5, QuietKeepsQueue
<1>4. CASE Refuse(training)
  <2> DEFINE flags == [paidUp EXCEPT ![training] = FALSE]
  <2>1. Rebuild(order, active, balance, flags)
    BY <1>4 DEF Refuse
  <2> HIDE DEF flags
  <2> QED
    BY <1>1, <2>1, RebuildKeepsQueue
<1> QED
  BY <1>2, <1>3, <1>4 DEF RecordIteration

LEMMA PaymentKeepsQueue ==
  ASSUME BooksInv, QueueInv, NEW m \in Models, NEW x \in Payments, AddPayment(m, x)
  PROVE  QueueInv'
<1> DEFINE v == balance[m] + x
           bal == [balance EXCEPT ![m] = v]
           flags == [paidUp EXCEPT ![m] = TRUE]
<1>1. order \in Seq(Models) /\ balance \in [Models -> Int]
  BY DEF BooksInv
<1>2. bal[m] = v
  BY <1>1
<1>3. CASE ~paidUp[m] /\ v >= MinBalance
  <2>1. Rebuild(order, active, bal, flags)
    BY <1>2, <1>3 DEF AddPayment
  <2> HIDE DEF bal, flags
  <2> QED
    BY <1>1, <2>1, RebuildKeepsQueue
<1>4. CASE ~(~paidUp[m] /\ v >= MinBalance)
  <2>1. balance' = bal /\ UNCHANGED <<order, active, paidUp, queue>>
    BY <1>2, <1>4 DEF AddPayment
  <2> HIDE DEF v
  <2>2. \A n \in Models : balance'[n] = IF n = m THEN v ELSE balance[n]
    BY <1>1, <2>1
  <2>3. \A n \in Models : balance'[n] >= MinBalance => balance[n] >= MinBalance \/ paidUp[n]
    BY <1>4, <2>2
  <2> QED
    BY <2>1, <2>3, QuietKeepsQueue
<1> QED
  BY <1>3, <1>4

LEMMA NextKeepsQueue ==
  ASSUME BooksInv, QueueInv, [Next]_vars
  PROVE  QueueInv'
<1>1. order \in Seq(Models) /\ balance \in [Models -> Int]
  BY DEF BooksInv
<1>2. CASE GetNext
  BY <1>2, GetNextKeepsQueue
<1>3. CASE RecordIteration
  BY <1>3, RecordKeepsQueue
<1>4. CASE DropIteration \/ UNCHANGED vars
  <2>1. UNCHANGED <<order, active, paidUp, queue>> /\ UNCHANGED balance
    BY <1>4 DEF DropIteration, vars
  <2>2. \A m \in Models : balance'[m] >= MinBalance => balance[m] >= MinBalance
    BY <2>1
  <2> QED
    BY <2>1, <2>2, QuietKeepsQueue
<1>5. ASSUME NEW m \in Models, NEW x \in Payments, RegisterModel(m, x)
      PROVE  QueueInv'
  <2> DEFINE ord == Append(order, m)
             act == [active EXCEPT ![m] = TRUE]
             bal == [balance EXCEPT ![m] = x]
             flags == [paidUp EXCEPT ![m] = TRUE]
  <2>1. Rebuild(ord, act, bal, flags)
    BY <1>5 DEF RegisterModel
  <2>2. ord \in Seq(Models)
    BY <1>1
  <2> HIDE DEF ord, act, bal, flags
  <2> QED
    BY <2>1, <2>2, RebuildKeepsQueue
<1>6. ASSUME NEW m \in Models, NEW x \in Payments, AddPayment(m, x)
      PROVE  QueueInv'
  BY <1>6, PaymentKeepsQueue
<1>7. ASSUME NEW act, Rebuild(order, act, balance, paidUp)
      PROVE  QueueInv'
  BY <1>1, <1>7, RebuildKeepsQueue
<1>8. ASSUME NEW m \in Models, NEW flag \in BOOLEAN, SetActive(m, flag)
      PROVE  QueueInv'
  <2>1. \E act : Rebuild(order, act, balance, paidUp)
    BY <1>8 DEF SetActive
  <2> QED
    BY <1>7, <2>1
<1>9. CASE AutoPause
  <2>1. \E act : Rebuild(order, act, balance, paidUp)
    BY <1>9 DEF AutoPause
  <2> QED
    BY <1>7, <2>1
<1>10. ASSUME NEW m \in Models, Deprecate(m)
       PROVE  QueueInv'
  <2>1. \E act : Rebuild(order, act, balance, paidUp)
    BY <1>10 DEF Deprecate
  <2> QED
    BY <1>7, <2>1
<1>11. ASSUME NEW m \in Models, Withdraw(m)
       PROVE  QueueInv'
  <2>1. balance' = [balance EXCEPT ![m] = 0] /\ UNCHANGED <<order, active, paidUp, queue>>
    BY <1>11 DEF Withdraw
  <2>2. \A n \in Models : balance'[n] = IF n = m THEN 0 ELSE balance[n]
    BY <1>1, <2>1
  <2>3. \A n \in Models : balance'[n] >= MinBalance => balance[n] >= MinBalance
    BY <2>2, SchedulerConstants
  <2> QED
    BY <2>1, <2>3, QuietKeepsQueue
<1>12. ASSUME NEW m \in Models, RemoveModel(m)
       PROVE  QueueInv'
  <2> DEFINE place == CHOOSE i \in DOMAIN order : order[i] = m
             ord == RemoveAt(order, place)
             act == [active EXCEPT ![m] = FALSE]
             bal == [balance EXCEPT ![m] = 0]
             flags == [paidUp EXCEPT ![m] = FALSE]
  <2>1. Rebuild(ord, act, bal, flags) /\ m \in Registered
    BY <1>12 DEF RemoveModel
  <2>2. place \in 1 .. Len(order)
    BY <1>1, <2>1 DEF Registered
  <2> HIDE DEF place
  <2>3. ord \in Seq(Models)
    BY <1>1, <2>2, RemovalKeepsOthers
  <2> HIDE DEF ord, act, bal, flags
  <2> QED
    BY <2>1, <2>3, RebuildKeepsQueue
<1> QED
  BY <1>2, <1>3, <1>4, <1>5, <1>6, <1>8, <1>9, <1>10, <1>11, <1>12 DEF Next, Miner, Owners

(* Nobody who was paused, deprecated or removed is in the rotation queue,   *)
(* and whoever is active, has paid and is alone in a tier is, although      *)
(* withdrawals and most payments and iterations leave the queue as it is    *)
(* (_update_rotation_queue, add_model_payment, record_training_iteration).  *)
THEOREM QueueSafe == Spec => []QueueIsCurrent
<1>1. Init => BooksInv /\ QueueInv
  <2>1. Init => QueueInv
    BY DEF Init, QueueInv, Registered, Trainable, ToSet
  <2> QED
    BY <2>1, BooksInit
<1>2. BooksInv /\ QueueInv /\ [Next]_vars => BooksInv' /\ QueueInv'
  BY NextKeepsBooks, NextKeepsQueue
<1>3. QueueInv => QueueIsCurrent
  <2> SUFFICES ASSUME QueueInv PROVE QueueIsCurrent
    OBVIOUS
  <2>1. \A i \in DOMAIN queue : queue[i] \in ToSet(queue)
    BY DEF ToSet
  <2>2. \A m \in Models : Trainable(m) /\ AloneInTier(m) => m \in ToSet(queue)
    BY DEF QueueInv, Trainable
  <2> QED
    BY <2>1, <2>2 DEF QueueInv, QueueIsCurrent
<1> QED
  BY <1>1, <1>2, <1>3, PTL DEF Spec

\* Whoever can be trained and is in the queue is given to the miner, or moves up.
TurnComes(m) ==
  \A i \in DOMAIN queue : queue[i] = m =>
    training' = m \/ \E j \in DOMAIN queue' : j < i /\ queue'[j] = m

LEMMA GetNextBringsTurns ==
  ASSUME BooksInv, QueueInv, GetNext, NEW m \in Models, Trainable(m)
  PROVE  TurnComes(m)
<1> SUFFICES ASSUME NEW i \in DOMAIN queue, queue[i] = m, training' # m
             PROVE  \E j \in DOMAIN queue' : j < i /\ queue'[j] = m
  BY DEF TurnComes
<1> DEFINE valid == {x \in DOMAIN queue : Trainable(queue[x])}
           k == Min(valid)
           a == SubSeq(queue, k + 1, Len(queue))
           b == SubSeq(queue, 1, k)
<1>1. queue \in Seq(Models) /\ queue # <<>>
  BY DEF QueueInv
<1>2. training' = queue[k] /\ queue' = a \o b
  BY <1>1 DEF GetNext
<1>3. Len(queue) \in Nat /\ DOMAIN queue = 1 .. Len(queue) /\ \A x \in 1 .. Len(queue) : queue[x] \in Models
  BY <1>1
<1>4. i \in valid /\ valid \subseteq 1 .. Len(queue)
  BY <1>3
<1>5. k \in valid /\ k <= i
  <2>1. \E x \in valid : \A y \in valid : x <= y
    <3> HIDE DEF valid
    <3>1. valid \subseteq 0 .. Len(queue) /\ valid # {}
      BY <1>3, <1>4
    <3> QED
      BY <1>3, <3>1, SmallestNumber
  <2> HIDE DEF valid
  <2> QED
    BY <1>4, <2>1 DEF Min
<1>6. k \in 1 .. Len(queue)
  BY <1>4, <1>5
<1> HIDE DEF k, valid
<1>7. k < i
  BY <1>2, <1>3, <1>5, <1>6
<1> DEFINE n == Len(queue)
           lo == k + 1
<1>8. n \in Int /\ k \in Int /\ i \in Int /\ 1 <= k /\ k < i /\ i <= n /\ lo \in Int /\ lo = k + 1
  BY <1>3, <1>6, <1>7
<1>9. queue \in Seq(Models) /\ \A x \in 1 .. n : queue[x] \in Models
  BY <1>1, <1>3
<1>10. a = SubSeq(queue, lo, n)
  OBVIOUS
<1> HIDE DEF a, b, n, lo
<1>11. a \in Seq(Models) /\ Len(a) = n - k /\ a[i - k] = queue[i]
  <2>1. \A x \in lo .. n : queue[x] \in Models
    BY <1>8, <1>9
  <2>2. /\ a \in Seq(Models) /\ Len(a) = (IF lo <= n THEN n - lo + 1 ELSE 0)
        /\ \A x \in 1 .. n - lo + 1 : a[x] = queue[lo + x - 1]
    BY <1>8, <1>9, <1>10, <2>1, SubSeqProperties
  <2>3. i - k \in 1 .. n - lo + 1 /\ lo + (i - k) - 1 = i /\ lo <= n /\ n - lo + 1 = n - k
    BY <1>8
  <2> QED
    BY <2>2, <2>3
<1>12. b \in Seq(Models) /\ Len(b) = k
  <2>1. \A x \in 1 .. k : queue[x] \in Models
    BY <1>8, <1>9
  <2> QED
    BY <1>8, <1>9, <2>1, SubSeqProperties DEF b
<1> DEFINE c == a \o b
<1>13. /\ c \in Seq(Models) /\ Len(c) = Len(a) + Len(b)
       /\ \A x \in 1 .. Len(a) + Len(b) : c[x] = IF x <= Len(a) THEN a[x] ELSE b[x - Len(a)]
  BY <1>11, <1>12, ConcatProperties
<1> HIDE DEF c
<1>14. i - k \in 1 .. n /\ i - k <= Len(a) /\ i - k < i /\ Len(a) + Len(b) = n
  BY <1>8, <1>11, <1>12
<1>15. DOMAIN c = 1 .. n
  BY <1>13, <1>14
<1>16. c[i - k] = m
  BY <1>11, <1>13, <1>14
<1> QED
  BY <1>2, <1>14, <1>15, <1>16 DEF c

(* Whenever the miner gets a model, whoever can be trained is it or moves   *)
(* up in the rotation, for any models and priorities: the half of           *)
(* NoModelStarves that needs no fairness (get_next_model_for_training).     *)
THEOREM TurnsComeNearer ==
  Spec => [][training = None /\ training' # None =>
               \A m \in Models : Trainable(m) => TurnComes(m)]_vars
<1>1. Init => BooksInv /\ QueueInv
  <2>1. Init => QueueInv
    BY DEF Init, QueueInv, Registered, Trainable, ToSet
  <2> QED
    BY <2>1, BooksInit
<1>2. BooksInv /\ QueueInv /\ [Next]_vars => BooksInv' /\ QueueInv'
  BY NextKeepsBooks, NextKeepsQueue
<1>3. BooksInv /\ QueueInv /\ [Next]_vars =>
        [training = None /\ training' # None =>
           \A m \in Models : Trainable(m) => TurnComes(m)]_vars
  <2> SUFFICES ASSUME BooksInv, QueueInv, Next, training = None, training' # None,
                      NEW m \in Models, Trainable(m)
               PROVE  TurnComes(m)
    OBVIOUS
  <2>1. DropIteration \/ RecordIteration => training' = None
    BY DEF DropIteration, RecordIteration
  <2>2. Owners => training' = training
    BY DEF Owners, AutoPause, RegisterModel, AddPayment, SetActive, Deprecate, Withdraw, RemoveModel
  <2>3. GetNext
    BY <2>1, <2>2 DEF Next, Miner
  <2> QED
    BY <2>3, GetNextBringsTurns
<1> QED
  BY <1>1, <1>2, <1>3, PTL DEF Spec

-----------------------------------------------------------------------------
(* The fee market                                                           *)

\* How long a model still rests and how long it has rested make up a cooldown, and what
\* the leader has selected no longer rests.
RestInv ==
  /\ pending \subseteq Tasks /\ plan \subseteq Tasks /\ chosen \in BOOLEAN
  /\ age \in [Tasks -> Nat]
  /\ cool \in [ModelIds -> Nat] /\ rest \in [ModelIds -> Nat]
  /\ \A m \in ModelIds : cool[m] + rest[m] >= Cooldown
  /\ \A t \in plan : cool[ModelOf[t]] = 0

LEMMA CooldownIsPositive == Cooldown \in Nat /\ Cooldown >= 1
BY MarketConstants DEF Cooldown, Larger, Smaller

LEMMA MarketInit ==
  ASSUME InitMarket
  PROVE  RestInv
<1> DEFINE C == Cooldown
<1>1. C \in Nat
  BY CooldownIsPositive
<1>2. /\ pending = {} /\ plan = {} /\ chosen = FALSE /\ age = [t \in Tasks |-> 0]
      /\ cool = [m \in ModelIds |-> 0] /\ rest = [m \in ModelIds |-> C]
  BY DEF InitMarket
<1> HIDE DEF C
<1>3. /\ cool \in [ModelIds -> Nat] /\ rest \in [ModelIds -> Nat]
      /\ \A m \in ModelIds : cool[m] + rest[m] >= C
  BY <1>1, <1>2
<1>4. age \in [Tasks -> Nat]
  BY <1>2
<1> QED
  BY <1>2, <1>3, <1>4 DEF RestInv, C

LEMMA FinalizeKeepsRest ==
  ASSUME RestInv, FinalizeBlock
  PROVE  RestInv'
<1> DEFINE trained == {ModelOf[t] : t \in plan}
           C == Cooldown
<1>1. C \in Nat /\ C >= 1
  BY CooldownIsPositive
<1>2. /\ pending' = pending \ plan /\ plan' = {} /\ chosen' = FALSE
      /\ cool' = [m \in ModelIds |-> (IF m \in trained THEN C ELSE Larger(1, cool[m])) - 1]
      /\ rest' = [m \in ModelIds |-> IF m \in trained THEN 1 ELSE Smaller(C, rest[m] + 1)]
      /\ age' = [t \in Tasks |-> IF t \in pending' THEN Smaller(age[t] + 1, Cap) ELSE 0]
  BY DEF FinalizeBlock
<1>3. Cooldown' = C
  BY DEF Cooldown, Larger, Smaller
<1> HIDE DEF C, trained
<1>4. ASSUME NEW m \in ModelIds
      PROVE  cool'[m] \in Nat /\ rest'[m] \in Nat /\ cool'[m] + rest'[m] >= C
  <2>1. cool[m] \in Nat /\ rest[m] \in Nat /\ cool[m] + rest[m] >= C
    BY DEF RestInv, C
  <2> QED
    BY <1>1, <1>2, <2>1 DEF Larger, Smaller
<1>5. age' \in [Tasks -> Nat]
  <2>1. Cap \in Nat
    BY MarketConstants
  <2> QED
    BY <1>2, <2>1 DEF RestInv, Smaller
<1> QED
  BY <1>2, <1>3, <1>4, <1>5 DEF RestInv, C

LEMMA NextKeepsRest == RestInv /\ [NextMarket]_marketVars => RestInv'
<1> SUFFICES ASSUME RestInv, [NextMarket]_marketVars
             PROVE  RestInv'
  OBVIOUS
<1> USE DEF RestInv, Cooldown, Larger, Smaller
<1>1. CASE \E t \in Tasks : SubmitTask(t)
  BY <1>1 DEF SubmitTask
<1>2. CASE \E t \in Tasks : CancelTask(t)
  BY <1>2 DEF CancelTask
<1>3. CASE ExpireStaleTasks
  BY <1>3 DEF ExpireStaleTasks
<1>4. CASE SelectTasks
  <2>1. plan' \subseteq Eligible
    BY <1>4 DEF SelectTasks
  <2>2. \A t \in Eligible : t \in Tasks /\ ModelOf[t] \in ModelIds /\ ~(cool[ModelOf[t]] > 0)
    BY MarketConstants DEF Eligible, Resting
  <2>3. \A t \in plan' : t \in Tasks /\ cool[ModelOf[t]] = 0
    BY <2>1, <2>2
  <2> QED
    BY <1>4, <2>3 DEF SelectTasks
<1>5. CASE FinalizeBlock
  BY <1>5, FinalizeKeepsRest
<1>6. CASE UNCHANGED marketVars
  BY <1>6 DEF marketVars
<1> QED
  BY <1>1, <1>2, <1>3, <1>4, <1>5, <1>6 DEF NextMarket

(* What a block trains has rested for a whole cooldown (finalize_block,     *)
(* _model_in_cooldown), whatever owners submit and cancel in between.       *)
THEOREM TrainedModelsRested == SpecMarket => ModelsRest
<1>1. InitMarket => RestInv
  BY MarketInit
<1>2. RestInv /\ [NextMarket]_marketVars => RestInv'
  BY NextKeepsRest
<1>3. RestInv => (chosen /\ ~chosen' => \A t \in plan : rest[ModelOf[t]] >= Cooldown)
  <2>1. \A t \in Tasks : ModelOf[t] \in ModelIds
    BY MarketConstants
  <2>2. Cooldown \in Nat
    BY CooldownIsPositive
  <2> QED
    BY <2>1, <2>2 DEF RestInv
<1> QED
  BY <1>1, <1>2, <1>3, PTL DEF SpecMarket, ModelsRest

\* Urgency grows with age and is never nothing.
LEMMA UrgencyGrows ==
  ASSUME NEW a \in Nat, NEW b \in Nat, a >= b
  PROVE  /\ Smaller(Unit + a * Rate, Cap) \in Nat
         /\ Smaller(Unit + b * Rate, Cap) \in Nat \ {0}
         /\ Smaller(Unit + a * Rate, Cap) >= Smaller(Unit + b * Rate, Cap)
<1>1. Unit \in Nat /\ Rate \in Nat /\ Cap \in Nat /\ 0 < Unit /\ Unit <= Cap
  BY MarketConstants
<1>2. a * Rate \in Nat /\ b * Rate \in Nat /\ (a - b) * Rate \in Nat
      /\ a * Rate = b * Rate + (a - b) * Rate
  BY <1>1
<1> QED
  BY <1>1, <1>2 DEF Smaller

LEMMA ProductsGrow ==
  ASSUME NEW x \in Nat, NEW y \in Nat, x > y, NEW u \in Nat, NEW v \in Nat \ {0}, u >= v
  PROVE  x * u > y * v
<1>1. x * u = x * v + x * (u - v) /\ x * (u - v) >= 0
  OBVIOUS
<1>2. x * v = y * v + (x - y) * v /\ (x - y) * v > 0
  OBVIOUS
<1> QED
  BY <1>1, <1>2

(* Nobody is passed over for a task that tips less and came no earlier      *)
(* (select_tasks_for_block, urgency_multiplier).                            *)
THEOREM NobodyIsOvertaken == SpecMarket => NoTaskIsOvertaken
<1>1. InitMarket => RestInv
  BY MarketInit
<1>2. RestInv /\ [NextMarket]_marketVars => RestInv'
  BY NextKeepsRest
<1> DEFINE Fair == ~chosen /\ chosen' =>
                     \A t \in Eligible \ plan', s \in plan' :
                       (\A u \in plan' : ModelOf[u] # ModelOf[t]) =>
                         ~(Tip[t] > Tip[s] /\ age[t] >= age[s])
<1>3. RestInv /\ [NextMarket]_marketVars => Fair
  <2> SUFFICES ASSUME RestInv, [NextMarket]_marketVars, ~chosen, chosen',
                      NEW t \in Eligible \ plan', NEW s \in plan',
                      \A u \in plan' : ModelOf[u] # ModelOf[t], Tip[t] > Tip[s], age[t] >= age[s]
               PROVE  FALSE
    OBVIOUS
  <2>1. SelectTasks
    BY DEF NextMarket, marketVars, SubmitTask, CancelTask,
           ExpireStaleTasks, FinalizeBlock
  <2>2. plan' \subseteq Eligible /\ Greedy(plan')
    BY <2>1 DEF SelectTasks
  <2>3. EffectiveTip(s) >= EffectiveTip(t)
    <3>1. ModelOf[t] \notin {ModelOf[u] : u \in plan'}
      OBVIOUS
    <3> QED
      BY <2>2, <3>1 DEF Greedy
  <2>4. /\ t \in Tasks /\ s \in Tasks /\ age[t] \in Nat /\ age[s] \in Nat
        /\ Tip[t] \in Nat /\ Tip[s] \in Nat
    BY <2>2, MarketConstants DEF Eligible, RestInv
  <2>5. /\ Urgency(t) \in Nat /\ Urgency(s) \in Nat \ {0}
        /\ Urgency(t) >= Urgency(s)
    BY <2>4, UrgencyGrows DEF Urgency
  <2>6. Tip[t] * Urgency(t) > Tip[s] * Urgency(s)
    BY <2>4, <2>5, ProductsGrow
  <2>7. Tip[t] * Urgency(t) \in Int /\ Tip[s] * Urgency(s) \in Int
    BY <2>4, <2>5
  <2> QED
    BY <2>3, <2>6, <2>7 DEF EffectiveTip
<1> QED
  BY <1>1, <1>2, <1>3, PTL DEF SpecMarket, NoTaskIsOvertaken

-----------------------------------------------------------------------------
(* The line.  A task that has been at its most urgent for a while is passed *)
(* over only for rivals and siblings that came early enough, and each of    *)
(* them once: by the time its model is back from its cooldown the task has  *)
(* been waited for.  So what the task may still have to wait for, in        *)
(* blocks, and the blocks it has waited never add up to more than Delay.    *)

\* What a task may still have to wait for: the rivals and the siblings among S, and x
\* blocks.  It never exceeds what there was at first.
Fits(t, S, x) ==
  Cardinality(Rivals(t) \cap S) + MaxSlots * (Cooldown * Cardinality(Siblings(t) \cap S) + x) <= Delay(t)

LEMMA CrowdIsFinite ==
  ASSUME IsFiniteSet(Tasks), NEW t, NEW S
  PROVE  /\ IsFiniteSet(Rivals(t)) /\ IsFiniteSet(Siblings(t))
         /\ IsFiniteSet(Rivals(t) \cap S) /\ IsFiniteSet(Siblings(t) \cap S)
         /\ Cardinality(Rivals(t)) \in Nat /\ Cardinality(Siblings(t)) \in Nat
         /\ Cardinality(Rivals(t) \cap S) \in Nat /\ Cardinality(Siblings(t) \cap S) \in Nat
         /\ Delay(t) \in Nat
<1>1. Rivals(t) \subseteq Tasks /\ Siblings(t) \subseteq Tasks
  BY DEF Rivals, Siblings
<1>2. ASSUME NEW T, T \subseteq Tasks
      PROVE  IsFiniteSet(T) /\ Cardinality(T) \in Nat
  BY <1>2, FS_Subset, FS_CardinalityType
<1>3. /\ IsFiniteSet(Rivals(t)) /\ IsFiniteSet(Siblings(t))
      /\ IsFiniteSet(Rivals(t) \cap S) /\ IsFiniteSet(Siblings(t) \cap S)
      /\ Cardinality(Rivals(t)) \in Nat /\ Cardinality(Siblings(t)) \in Nat
      /\ Cardinality(Rivals(t) \cap S) \in Nat /\ Cardinality(Siblings(t) \cap S) \in Nat
  <2>1. Rivals(t) \cap S \subseteq Tasks /\ Siblings(t) \cap S \subseteq Tasks
    BY <1>1
  <2> QED
    BY <1>1, <1>2, <2>1
<1>4. Delay(t) \in Nat
  <2>1. Cooldown \in Nat /\ Cooldown >= 1 /\ MaxSlots \in Nat
    BY CooldownIsPositive, MarketConstants
  <2>2. \A p, q, r, m, c \in Nat : p + m * (c * q + r) \in Nat
    OBVIOUS
  <2>3. RestAtFirst(t) \in Nat
    BY <2>1 DEF RestAtFirst
  <2> QED
    BY <1>3, <2>1, <2>2, <2>3 DEF Delay
<1> QED
  BY <1>3, <1>4

\* Whom a task waits for becomes fewer, and so does what is left to wait.
LEMMA LessFits ==
  ASSUME IsFiniteSet(Tasks), NEW t, NEW S, NEW T, NEW x \in Int, NEW y \in Int,
         Fits(t, S, x), T \subseteq S, y <= x
  PROVE  Fits(t, T, y)
<1> DEFINE p == Cardinality(Rivals(t) \cap S)
           q == Cardinality(Siblings(t) \cap S)
           r == Cardinality(Rivals(t) \cap T)
           s == Cardinality(Siblings(t) \cap T)
<1>1. p \in Nat /\ q \in Nat /\ r \in Nat /\ s \in Nat /\ Delay(t) \in Nat
  BY CrowdIsFinite
<1>2. r <= p /\ s <= q
  <2>1. Rivals(t) \cap T \in SUBSET (Rivals(t) \cap S) /\ Siblings(t) \cap T \in SUBSET (Siblings(t) \cap S)
    OBVIOUS
  <2>2. IsFiniteSet(Rivals(t) \cap S) /\ IsFiniteSet(Siblings(t) \cap S)
    BY CrowdIsFinite
  <2> QED
    BY <2>1, <2>2, FS_Subset
<1>3. p + MaxSlots * (Cooldown * q + x) <= Delay(t)
  BY DEF Fits
<1>4. MaxSlots \in Nat /\ Cooldown \in Nat
  BY MarketConstants, CooldownIsPositive
<1> HIDE DEF p, q, r, s
<1>5. r + MaxSlots * (Cooldown * s + y) <= p + MaxSlots * (Cooldown * q + x)
  <2>1. \A c, u, v \in Nat : u <= v => c * u <= c * v /\ c * u \in Nat /\ c * v \in Nat
    OBVIOUS
  <2>2. \A m \in Nat, a, b \in Int : a <= b => m * a <= m * b
    OBVIOUS
  <2>3. Cooldown * s <= Cooldown * q /\ Cooldown * s \in Nat /\ Cooldown * q \in Nat
    BY <1>1, <1>2, <1>4, <2>1
  <2>4. Cooldown * s + y <= Cooldown * q + x /\ Cooldown * s + y \in Int /\ Cooldown * q + x \in Int
    BY <2>3
  <2>5. MaxSlots * (Cooldown * s + y) <= MaxSlots * (Cooldown * q + x)
    BY <1>4, <2>2, <2>4
  <2>6. MaxSlots * (Cooldown * s + y) \in Int /\ MaxSlots * (Cooldown * q + x) \in Int
    BY <1>4, <2>4
  <2> QED
    BY <1>1, <1>2, <2>5, <2>6
<1>6. r + MaxSlots * (Cooldown * s + y) <= Delay(t)
  <2>1. /\ r + MaxSlots * (Cooldown * s + y) \in Int
        /\ p + MaxSlots * (Cooldown * q + x) \in Int
    BY <1>1, <1>4
  <2> QED
    BY <1>1, <1>3, <1>5, <2>1
<1> QED
  BY <1>6 DEF Fits, r, s

\* A block full of rivals costs a block.
LEMMA RivalsServed ==
  ASSUME IsFiniteSet(Tasks), NEW t, NEW S, NEW P, NEW x \in Int,
         Fits(t, S, x), P \subseteq Rivals(t) \cap S, Cardinality(P) = MaxSlots
  PROVE  Fits(t, S \ P, x + 1)
<1> DEFINE p == Cardinality(Rivals(t) \cap S)
           q == Cardinality(Siblings(t) \cap S)
           r == Cardinality(Rivals(t) \cap (S \ P))
           s == Cardinality(Siblings(t) \cap (S \ P))
<1>1. p \in Nat /\ q \in Nat /\ r \in Nat /\ s \in Nat /\ Delay(t) \in Nat
  BY CrowdIsFinite
<1>2. r = p - MaxSlots
  <2>1. Rivals(t) \cap (S \ P) = (Rivals(t) \cap S) \ P
    OBVIOUS
  <2>2. IsFiniteSet(Rivals(t) \cap S) /\ IsFiniteSet(P)
    <3>1. IsFiniteSet(Rivals(t) \cap S)
      BY CrowdIsFinite
    <3> QED
      BY <3>1, FS_Subset
  <2>3. Cardinality((Rivals(t) \cap S) \ P) = p - Cardinality((Rivals(t) \cap S) \cap P)
    BY <2>2, FS_Difference
  <2>4. (Rivals(t) \cap S) \cap P = P
    OBVIOUS
  <2> QED
    BY <2>1, <2>3, <2>4
<1>3. s <= q
  <2>1. Siblings(t) \cap (S \ P) \in SUBSET (Siblings(t) \cap S)
    OBVIOUS
  <2>2. IsFiniteSet(Siblings(t) \cap S)
    BY CrowdIsFinite
  <2> QED
    BY <2>1, <2>2, FS_Subset
<1>4. p + MaxSlots * (Cooldown * q + x) <= Delay(t)
  BY DEF Fits
<1>5. MaxSlots \in Nat /\ Cooldown \in Nat
  BY MarketConstants, CooldownIsPositive
<1> HIDE DEF p, q, r, s
<1>6. r + MaxSlots * (Cooldown * s + (x + 1)) <= Delay(t)
  <2>1. \A c, u, v \in Nat : u <= v => c * u <= c * v /\ c * u \in Nat /\ c * v \in Nat
    OBVIOUS
  <2>2. \A m \in Nat, a, b \in Int : a <= b => m * (a + 1) <= m * b + m /\ m * (a + 1) \in Int /\ m * b \in Int
    OBVIOUS
  <2>3. Cooldown * s <= Cooldown * q /\ Cooldown * s \in Nat /\ Cooldown * q \in Nat
    BY <1>1, <1>3, <1>5, <2>1
  <2> DEFINE a == Cooldown * s + x
             b == Cooldown * q + x
  <2>4. a \in Int /\ b \in Int /\ a <= b /\ Cooldown * s + (x + 1) = a + 1
    BY <2>3
  <2> HIDE DEF a, b
  <2>5. MaxSlots * (a + 1) <= MaxSlots * b + MaxSlots /\ MaxSlots * (a + 1) \in Int /\ MaxSlots * b \in Int
    BY <1>5, <2>2, <2>4
  <2>6. p + MaxSlots * b <= Delay(t)
    BY <1>4 DEF b
  <2>7. r + MaxSlots * (a + 1) <= Delay(t)
    BY <1>1, <1>2, <1>5, <2>5, <2>6
  <2> QED
    BY <2>4, <2>7
<1> QED
  BY <1>6 DEF Fits, r, s

\* A sibling costs a block and the cooldown.
LEMMA SiblingServed ==
  ASSUME IsFiniteSet(Tasks), NEW t, NEW S, NEW u, NEW x \in Int,
         Fits(t, S, x), u \in Siblings(t) \cap S
  PROVE  Fits(t, S \ {u}, x + Cooldown)
<1> DEFINE p == Cardinality(Rivals(t) \cap S)
           q == Cardinality(Siblings(t) \cap S)
           r == Cardinality(Rivals(t) \cap (S \ {u}))
           s == Cardinality(Siblings(t) \cap (S \ {u}))
<1>1. p \in Nat /\ q \in Nat /\ r \in Nat /\ s \in Nat /\ Delay(t) \in Nat
  BY CrowdIsFinite
<1>2. r <= p
  <2>1. Rivals(t) \cap (S \ {u}) \in SUBSET (Rivals(t) \cap S)
    OBVIOUS
  <2>2. IsFiniteSet(Rivals(t) \cap S)
    BY CrowdIsFinite
  <2> QED
    BY <2>1, <2>2, FS_Subset
<1>3. s = q - 1
  <2>1. Siblings(t) \cap (S \ {u}) = (Siblings(t) \cap S) \ {u}
    OBVIOUS
  <2>2. IsFiniteSet(Siblings(t) \cap S)
    BY CrowdIsFinite
  <2> QED
    BY <2>1, <2>2, FS_RemoveElement
<1>4. p + MaxSlots * (Cooldown * q + x) <= Delay(t)
  BY DEF Fits
<1>5. MaxSlots \in Nat /\ Cooldown \in Nat
  BY MarketConstants, CooldownIsPositive
<1> HIDE DEF p, q, r, s
<1>6. r + MaxSlots * (Cooldown * s + (x + Cooldown)) <= Delay(t)
  <2>1. \A c, v \in Nat, y \in Int : c * (v - 1) + (y + c) = c * v + y
    OBVIOUS
  <2>2. Cooldown * s + (x + Cooldown) = Cooldown * q + x
    BY <1>1, <1>3, <1>5, <2>1
  <2>3. MaxSlots * (Cooldown * q + x) \in Int
    BY <1>1, <1>5
  <2> HIDE DEF Fits
  <2>4. r + MaxSlots * (Cooldown * q + x) <= p + MaxSlots * (Cooldown * q + x)
    BY <1>1, <1>2, <2>3
  <2>5. r + MaxSlots * (Cooldown * q + x) <= Delay(t)
    BY <1>1, <1>4, <2>3, <2>4
  <2> QED
    BY <2>2, <2>5
<1> QED
  BY <1>6 DEF Fits, r, s

\* At first everybody may come before it.
LEMMA AllFit ==
  ASSUME IsFiniteSet(Tasks), NEW t, NEW S, NEW x \in Int, x <= RestAtFirst(t)
  PROVE  Fits(t, S, x)
<1>1. Rivals(t) \cap Tasks = Rivals(t) /\ Siblings(t) \cap Tasks = Siblings(t)
  BY DEF Rivals, Siblings
<1>2. Delay(t) <= Delay(t) /\ RestAtFirst(t) \in Int
  <2>1. Delay(t) \in Nat /\ Cooldown \in Nat
    BY CrowdIsFinite, CooldownIsPositive
  <2> QED
    BY <2>1 DEF RestAtFirst
<1>3. Fits(t, Tasks, RestAtFirst(t))
  BY <1>1, <1>2 DEF Fits, Delay
<1>4. Fits(t, Tasks \cap S, x)
  BY <1>2, <1>3, LessFits
<1>5. Rivals(t) \cap (Tasks \cap S) = Rivals(t) \cap S /\ Siblings(t) \cap (Tasks \cap S) = Siblings(t) \cap S
  BY DEF Rivals, Siblings
<1> QED
  BY <1>4, <1>5 DEF Fits

\* Who may wait so long gets its turn before that.
LEMMA FitsEnds ==
  ASSUME IsFiniteSet(Tasks), NEW t, NEW S, NEW x \in Int, NEW wait \in Int,
         Fits(t, S, x), Delay(t) < MaxSlots * wait
  PROVE  x < wait
<1> DEFINE p == Cardinality(Rivals(t) \cap S)
           q == Cardinality(Siblings(t) \cap S)
<1>1. p \in Nat /\ q \in Nat /\ Delay(t) \in Nat
  BY CrowdIsFinite
<1>2. MaxSlots \in Nat /\ Cooldown \in Nat
  BY MarketConstants, CooldownIsPositive
<1>3. p + MaxSlots * (Cooldown * q + x) <= Delay(t)
  BY DEF Fits
<1> HIDE DEF p, q
<1> SUFFICES ASSUME x >= wait PROVE FALSE
  OBVIOUS
<1>4. \A c, v \in Nat : c * v \in Nat
  OBVIOUS
<1>5. Cooldown * q \in Nat
  BY <1>1, <1>2, <1>4
<1>6. Cooldown * q + x >= wait /\ Cooldown * q + x \in Int
  BY <1>5
<1>7. \A m \in Nat, a, b \in Int : a >= b => m * a >= m * b /\ m * a \in Int /\ m * b \in Int
  OBVIOUS
<1>8. /\ MaxSlots * (Cooldown * q + x) >= MaxSlots * wait
      /\ MaxSlots * (Cooldown * q + x) \in Int /\ MaxSlots * wait \in Int
  BY <1>2, <1>6, <1>7
<1> QED
  BY <1>1, <1>3, <1>8

\* How long a task has been at its most urgent; in how many blocks u, submitted again if
\* need be, can beat it; who can before its wait is over; how long its model rests after
\* this block.
Waited(t, peak) == Life - left[t] - peak
Growth(u, lead) == IF u \in pending THEN Larger(0, lead - age[u]) ELSE cool[ModelOf[u]] + lead
Ahead(t, peak, lead, wait) == {u \in Tasks : Waited(t, peak) + Growth(u, lead) < wait}
RestAfter(t) ==
  (IF ModelOf[t] \in {ModelOf[s] : s \in plan} THEN Cooldown ELSE Larger(1, cool[ModelOf[t]])) - 1

\* What may come first and the blocks waited so far fit into the delay.
Promise(t, peak, lead, wait) ==
  Waited(t, peak) >= 0 =>
    /\ Fits(t, Ahead(t, peak, lead, wait), Waited(t, peak) + cool[ModelOf[t]])
    /\ chosen /\ t \notin plan =>
         Fits(t, Ahead(t, peak, lead, wait) \ plan, Waited(t, peak) + 1 + RestAfter(t))

ClockInv ==
  /\ left \in [Tasks -> 0 .. Life]
  /\ \A m \in ModelIds : cool[m] <= Cooldown - 1
  /\ \A t \in pending : /\ age[t] >= Smaller(Life - left[t], Cap)
                        /\ Siblings(t) = {} => cool[ModelOf[t]] = 0

LineInv ==
  /\ RestInv /\ ClockInv
  /\ \A t \in pending, peak, lead, wait \in 0 .. Life :
       InTime(t, peak, lead, wait) => Promise(t, peak, lead, wait)

LEMMA CrowdNeverChanges ==
  ASSUME NEW t, NEW peak, NEW lead, NEW wait
  PROVE  /\ InTime(t, peak, lead, wait)' <=> InTime(t, peak, lead, wait)
         /\ Rivals(t)' = Rivals(t) /\ Siblings(t)' = Siblings(t) /\ Delay(t)' = Delay(t)
         /\ Cooldown' = Cooldown
<1>1. Rivals(t)' = Rivals(t) /\ Siblings(t)' = Siblings(t) /\ Cooldown' = Cooldown
  BY DEF Rivals, Siblings, Cooldown, Larger, Smaller
<1>2. Delay(t)' = Delay(t)
  BY <1>1 DEF Delay, RestAtFirst
<1> QED
  BY <1>1, <1>2 DEF InTime, UrgencyAfter, Smaller

\* What a step has to keep.
LEMMA PromiseKept ==
  ASSUME ClockInv', RestInv',
         ASSUME NEW t \in pending', NEW peak \in 0 .. Life, NEW lead \in 0 .. Life,
                NEW wait \in 0 .. Life, InTime(t, peak, lead, wait), Waited(t, peak)' >= 0
         PROVE  /\ Fits(t, Ahead(t, peak, lead, wait)', Waited(t, peak)' + cool'[ModelOf[t]])
                /\ chosen' /\ t \notin plan' =>
                     Fits(t, Ahead(t, peak, lead, wait)' \ plan',
                          Waited(t, peak)' + 1 + RestAfter(t)')
  PROVE  LineInv'
<1> SUFFICES ASSUME NEW t \in pending', NEW peak \in 0 .. Life, NEW lead \in 0 .. Life,
                    NEW wait \in 0 .. Life, InTime(t, peak, lead, wait)'
             PROVE  Promise(t, peak, lead, wait)'
  BY DEF LineInv
<1>1. InTime(t, peak, lead, wait)
  BY CrowdNeverChanges
<1> SUFFICES ASSUME Waited(t, peak)' >= 0
             PROVE  /\ Fits(t, Ahead(t, peak, lead, wait), Waited(t, peak) + cool[ModelOf[t]])'
                    /\ (chosen /\ t \notin plan =>
                          Fits(t, Ahead(t, peak, lead, wait) \ plan, Waited(t, peak) + 1 + RestAfter(t)))'
  BY DEF Promise
<1>2. /\ Fits(t, Ahead(t, peak, lead, wait)', Waited(t, peak)' + cool'[ModelOf[t]])
      /\ chosen' /\ t \notin plan' =>
           Fits(t, Ahead(t, peak, lead, wait)' \ plan', Waited(t, peak)' + 1 + RestAfter(t)')
  BY <1>1
<1>3. /\ Rivals(t)' = Rivals(t) /\ Siblings(t)' = Siblings(t) /\ Delay(t)' = Delay(t)
      /\ Cooldown' = Cooldown
  BY CrowdNeverChanges
<1> QED
  BY <1>2, <1>3 DEF Fits

LEMMA LineTypes ==
  ASSUME RestInv, ClockInv
  PROVE  /\ \A t \in Tasks : /\ ModelOf[t] \in ModelIds /\ cool[ModelOf[t]] \in Nat
                             /\ cool[ModelOf[t]] <= Cooldown - 1
                             /\ age[t] \in Nat /\ Tip[t] \in Nat
                             /\ left[t] \in Nat /\ left[t] <= Life
         /\ Life \in Nat /\ Cap \in Nat \ {0} /\ MaxSlots \in Nat
         /\ Cooldown \in Nat \ {0}
         /\ \A t \in Tasks, n \in Nat : Waited(t, n) \in Int
         /\ \A u \in Tasks, n \in Nat : Growth(u, n) \in Nat
         /\ \A t \in Tasks : RestAfter(t) \in Nat
<1>1. /\ Life \in Nat /\ Cap \in Nat \ {0} /\ MaxSlots \in Nat /\ Cooldown \in Nat \ {0}
  <2>1. Cooldown \in Nat \ {0}
    BY CooldownIsPositive
  <2> QED
    BY <2>1, MarketConstants
<1>2. \A t \in Tasks : /\ ModelOf[t] \in ModelIds /\ cool[ModelOf[t]] \in Nat
                       /\ cool[ModelOf[t]] <= Cooldown - 1
                       /\ age[t] \in Nat /\ Tip[t] \in Nat
                       /\ left[t] \in Nat /\ left[t] <= Life
  <2>1. \A t \in Tasks : ModelOf[t] \in ModelIds /\ Tip[t] \in Nat
    BY MarketConstants
  <2>2. \A m \in ModelIds : cool[m] \in Nat /\ cool[m] <= Cooldown - 1
    BY DEF RestInv, ClockInv
  <2>3. \A t \in Tasks : age[t] \in Nat /\ left[t] \in Nat /\ left[t] <= Life
    BY <1>1 DEF RestInv, ClockInv
  <2> QED
    BY <2>1, <2>2, <2>3
<1>3. ASSUME NEW t \in Tasks, NEW n \in Nat
      PROVE  Waited(t, n) \in Int /\ Growth(t, n) \in Nat
  BY <1>1, <1>2 DEF Waited, Growth, Larger
<1>4. ASSUME NEW t \in Tasks
      PROVE  RestAfter(t) \in Nat
  BY <1>1, <1>2 DEF RestAfter, Larger
<1> QED
  BY <1>1, <1>2, <1>3, <1>4

\* While owners submit and cancel, nobody comes to the front whom the task did not
\* already wait for.
LEMMA QuietKeepsPromise ==
  ASSUME LineInv, IsFiniteSet(Tasks), UNCHANGED <<cool, chosen, plan>>,
         \A u \in Tasks, n \in Nat : Growth(u, n)' >= Growth(u, n) /\ Growth(u, n)' \in Nat,
         NEW t \in pending, left'[t] = left[t],
         NEW peak \in 0 .. Life, NEW lead \in 0 .. Life, NEW wait \in 0 .. Life,
         InTime(t, peak, lead, wait), Waited(t, peak)' >= 0
  PROVE  /\ Fits(t, Ahead(t, peak, lead, wait)', Waited(t, peak)' + cool'[ModelOf[t]])
         /\ chosen' /\ t \notin plan' =>
              Fits(t, Ahead(t, peak, lead, wait)' \ plan', Waited(t, peak)' + 1 + RestAfter(t)')
<1> DEFINE S == Ahead(t, peak, lead, wait)
           T == Ahead(t, peak, lead, wait)'
           w == Waited(t, peak)
<1>1. Waited(t, peak)' = w
  BY DEF Waited
<1>2. t \in Tasks /\ peak \in Nat /\ lead \in Nat /\ wait \in Nat /\ RestInv /\ ClockInv
  <2>1. Life \in Nat
    BY MarketConstants
  <2> QED
    BY <2>1 DEF LineInv, RestInv
<1>3. /\ w \in Int /\ cool[ModelOf[t]] \in Nat /\ RestAfter(t) \in Nat
      /\ \A u \in Tasks : Growth(u, lead) \in Nat
  BY <1>2, LineTypes
<1>4. Promise(t, peak, lead, wait)
  BY DEF LineInv
<1>5. /\ Fits(t, S, w + cool[ModelOf[t]])
      /\ chosen /\ t \notin plan => Fits(t, S \ plan, w + 1 + RestAfter(t))
  BY <1>1, <1>4 DEF Promise
<1>6. RestAfter(t)' = RestAfter(t)
  <2>1. Cooldown' = Cooldown
    BY DEF Cooldown, Larger, Smaller
  <2> QED
    BY <2>1 DEF RestAfter, Larger
<1>7. T \subseteq S
  <2> SUFFICES ASSUME NEW u \in Tasks, w + Growth(u, lead)' < wait
               PROVE  w + Growth(u, lead) < wait
    BY <1>1 DEF Ahead
  <2>1. Growth(u, lead)' >= Growth(u, lead) /\ Growth(u, lead)' \in Nat
    BY <1>2
  <2> HIDE DEF w
  <2> QED
    BY <1>2, <1>3, <2>1
<1> HIDE DEF S, T, w
<1>8. Fits(t, T, w + cool[ModelOf[t]])
  <2> DEFINE x == w + cool[ModelOf[t]]
  <2>1. x \in Int /\ x <= x /\ Fits(t, S, x)
    BY <1>3, <1>5
  <2> HIDE DEF x
  <2>2. Fits(t, T, x)
    BY <1>7, <2>1, LessFits
  <2> QED
    BY <2>2 DEF x
<1>9. chosen /\ t \notin plan => Fits(t, T \ plan, w + 1 + RestAfter(t))
  <2> SUFFICES ASSUME chosen, t \notin plan PROVE Fits(t, T \ plan, w + 1 + RestAfter(t))
    OBVIOUS
  <2> DEFINE x == w + 1 + RestAfter(t)
             A == S \ plan
             B == T \ plan
  <2>1. x \in Int /\ x <= x /\ Fits(t, A, x) /\ B \subseteq A
    BY <1>3, <1>5, <1>7
  <2> HIDE DEF x, A, B
  <2>2. Fits(t, B, x)
    BY <2>1, LessFits
  <2> QED
    BY <2>2 DEF x, B
<1> QED
  BY <1>1, <1>6, <1>8, <1>9 DEF T, w

LEMMA SubmitKeepsLine ==
  ASSUME LineInv, IsFiniteSet(Tasks), NEW s \in Tasks, SubmitTask(s)
  PROVE  LineInv'
<1>1. /\ s \notin pending /\ pending' = pending \cup {s}
      /\ age' = [age EXCEPT ![s] = 0] /\ left' = [left EXCEPT ![s] = Life]
      /\ UNCHANGED <<cool, chosen, plan>> /\ ~(cool[ModelOf[s]] > 0)
  BY DEF SubmitTask, Resting
<1>2. RestInv /\ ClockInv
  BY DEF LineInv
<1>3. RestInv'
  <2>1. NextMarket
    BY DEF NextMarket
  <2> QED
    BY <1>2, <2>1, NextKeepsRest
<1>4. /\ \A t \in Tasks : /\ ModelOf[t] \in ModelIds /\ cool[ModelOf[t]] \in Nat
                          /\ age[t] \in Nat /\ left[t] \in Nat /\ left[t] <= Life
      /\ Life \in Nat /\ Cap \in Nat
  BY <1>2, LineTypes
<1>5. /\ age'[s] = 0 /\ left'[s] = Life
      /\ \A t \in Tasks \ {s} : age'[t] = age[t] /\ left'[t] = left[t]
      /\ left' \in [Tasks -> 0 .. Life]
  <2>1. age \in [Tasks -> Nat] /\ left \in [Tasks -> 0 .. Life] /\ Life \in 0 .. Life
    BY <1>2, <1>4 DEF RestInv, ClockInv
  <2> QED
    BY <1>1, <2>1
<1>6. cool[ModelOf[s]] = 0
  BY <1>1, <1>4
<1>7. ClockInv'
  <2>1. ASSUME NEW t \in pending'
        PROVE  age'[t] >= Smaller(Life - left'[t], Cap) /\ (Siblings(t) = {} => cool'[ModelOf[t]] = 0)
    <3>1. CASE t = s
      BY <1>1, <1>4, <1>5, <1>6, <3>1 DEF Smaller
    <3>2. CASE t # s
      <4>1. t \in pending /\ t \in Tasks \ {s}
        BY <1>1, <1>2, <3>2 DEF RestInv
      <4> QED
        BY <1>1, <1>2, <1>5, <4>1 DEF ClockInv
    <3> QED
      BY <3>1, <3>2
  <2>2. Cooldown' = Cooldown /\ \A t : Siblings(t)' = Siblings(t)
    BY CrowdNeverChanges
  <2>3. \A m \in ModelIds : cool'[m] <= Cooldown' - 1
    BY <1>1, <1>2, <2>2 DEF ClockInv
  <2> QED
    BY <1>5, <2>1, <2>2, <2>3 DEF ClockInv, Smaller
<1>8. ASSUME NEW u \in Tasks, NEW n \in Nat
      PROVE  Growth(u, n)' >= Growth(u, n) /\ Growth(u, n)' \in Nat
  <2>1. Growth(u, n) \in Nat
    BY <1>2, LineTypes
  <2>2. CASE u = s
    <3>1. Growth(u, n) = cool[ModelOf[u]] + n /\ Growth(u, n)' = Larger(0, n - 0)
      BY <1>1, <1>5, <2>2 DEF Growth, Larger
    <3> QED
      BY <1>6, <2>2, <3>1 DEF Larger
  <2>3. CASE u # s
    <3>1. (u \in pending' <=> u \in pending) /\ age'[u] = age[u] /\ cool' = cool
      BY <1>1, <1>5, <2>3
    <3>2. Growth(u, n)' = Growth(u, n)
      BY <3>1 DEF Growth, Larger
    <3> QED
      BY <2>1, <3>2
  <2> QED
    BY <2>2, <2>3
<1>9. ASSUME NEW t \in pending', NEW peak \in 0 .. Life, NEW lead \in 0 .. Life,
             NEW wait \in 0 .. Life, InTime(t, peak, lead, wait), Waited(t, peak)' >= 0
      PROVE  /\ Fits(t, Ahead(t, peak, lead, wait)', Waited(t, peak)' + cool'[ModelOf[t]])
             /\ chosen' /\ t \notin plan' =>
                  Fits(t, Ahead(t, peak, lead, wait)' \ plan',
                       Waited(t, peak)' + 1 + RestAfter(t)')
  <2>1. t # s
    <3>1. t = s => Waited(t, peak)' = Life - Life - peak
      BY <1>5 DEF Waited
    <3>2. peak >= 1
      BY <1>9 DEF InTime
    <3> QED
      BY <1>4, <1>9, <3>1, <3>2
  <2>2. t \in pending /\ left'[t] = left[t]
    BY <1>1, <1>2, <1>5, <2>1 DEF RestInv
  <2> QED
    BY <1>1, <1>8, <1>9, <2>2, QuietKeepsPromise
<1> QED
  BY <1>3, <1>7, <1>9, PromiseKept

LEMMA LeavingKeepsLine ==
  ASSUME LineInv, IsFiniteSet(Tasks), RestInv',
         pending' \subseteq pending, UNCHANGED <<age, left, cool, chosen, plan>>
  PROVE  LineInv'
<1>1. RestInv /\ ClockInv
  BY DEF LineInv
<1>2. ClockInv'
  <2>1. Cooldown' = Cooldown /\ \A t : Siblings(t)' = Siblings(t)
    BY CrowdNeverChanges
  <2> QED
    BY <1>1, <2>1 DEF ClockInv, Smaller
<1>3. ASSUME NEW u \in Tasks, NEW n \in Nat
      PROVE  Growth(u, n)' >= Growth(u, n) /\ Growth(u, n)' \in Nat
  <2>1. Growth(u, n) \in Nat /\ cool[ModelOf[u]] \in Nat /\ age[u] \in Nat
    BY <1>1, LineTypes
  <2>2. CASE u \in pending'
    <3>1. Growth(u, n)' = Growth(u, n)
      BY <2>2 DEF Growth, Larger
    <3> QED
      BY <2>1, <3>1
  <2>3. CASE u \notin pending'
    <3>1. Growth(u, n)' = cool[ModelOf[u]] + n
      BY <2>3 DEF Growth
    <3> QED
      BY <2>1, <3>1 DEF Growth, Larger
  <2> QED
    BY <2>2, <2>3
<1>4. ASSUME NEW t \in pending', NEW peak \in 0 .. Life, NEW lead \in 0 .. Life,
             NEW wait \in 0 .. Life, InTime(t, peak, lead, wait), Waited(t, peak)' >= 0
      PROVE  /\ Fits(t, Ahead(t, peak, lead, wait)', Waited(t, peak)' + cool'[ModelOf[t]])
             /\ chosen' /\ t \notin plan' =>
                  Fits(t, Ahead(t, peak, lead, wait)' \ plan',
                       Waited(t, peak)' + 1 + RestAfter(t)')
  <2>1. t \in pending /\ left'[t] = left[t]
    OBVIOUS
  <2> QED
    BY <1>3, <1>4, <2>1, QuietKeepsPromise
<1> QED
  BY <1>2, <1>4, PromiseKept

\* At its most urgent a task is beaten only by tips as good that have waited long enough.
LEMMA WinnersHaveWaited ==
  ASSUME LineInv, NEW t \in pending, NEW u \in pending, u # t,
         NEW peak \in 0 .. Life, NEW lead \in 0 .. Life, NEW wait \in 0 .. Life,
         InTime(t, peak, lead, wait), Waited(t, peak) >= 0,
         EffectiveTip(u) >= EffectiveTip(t)
  PROVE  age[u] >= lead /\ Tip[u] >= Tip[t]
<1>1. RestInv /\ ClockInv
  BY DEF LineInv
<1>2. t \in Tasks /\ u \in Tasks
  BY <1>1 DEF RestInv
<1>3. /\ age[t] \in Nat /\ age[u] \in Nat /\ Tip[t] \in Nat /\ Tip[u] \in Nat
      /\ left[t] \in Nat /\ Life \in Nat /\ Cap \in Nat \ {0}
  BY <1>1, <1>2, LineTypes
<1>4. Unit \in Nat /\ Rate \in Nat /\ 0 < Unit
  BY MarketConstants
<1>5. peak <= Cap /\ Unit + peak * Rate >= Cap
  BY DEF InTime
<1>6. age[t] >= peak /\ peak \in Nat
  <2>1. age[t] >= Smaller(Life - left[t], Cap)
    BY <1>1 DEF ClockInv
  <2>2. Life - left[t] >= peak
    BY <1>3 DEF Waited
  <2> QED
    BY <1>3, <1>5, <2>1, <2>2 DEF Smaller
<1>7. Urgency(t) = Cap
  <2>1. \A a, b, r \in Nat : a >= b => a * r >= b * r /\ a * r \in Nat /\ b * r \in Nat
    OBVIOUS
  <2>2. age[t] * Rate >= peak * Rate /\ age[t] * Rate \in Nat /\ peak * Rate \in Nat
    BY <1>3, <1>4, <1>6, <2>1
  <2>3. Unit + age[t] * Rate >= Cap
    BY <1>3, <1>4, <1>5, <2>2
  <2> QED
    BY <1>3, <1>4, <2>2, <2>3 DEF Urgency, Smaller
<1>8. Tip[u] * Urgency(u) >= Tip[t] * Cap
  BY <1>7 DEF EffectiveTip
<1>9. Urgency(u) \in Nat /\ Urgency(u) <= Cap
  <2>1. age[u] * Rate \in Nat
    BY <1>3, <1>4
  <2> QED
    BY <1>3, <1>4, <2>1 DEF Urgency, Smaller
<1>10. Tip[u] >= Tip[t]
  <2>1. \A x, y, v, c \in Nat : x < y /\ v <= c /\ c # 0 => x * v < y * c
    <3> SUFFICES ASSUME NEW x \in Nat, NEW y \in Nat, NEW v \in Nat, NEW c \in Nat,
                        x < y, v <= c, c # 0
                 PROVE  x * v < y * c
      OBVIOUS
    <3>1. x * c = x * v + x * (c - v) /\ x * (c - v) >= 0
      OBVIOUS
    <3>2. y * c = x * c + (y - x) * c /\ (y - x) * c > 0
      OBVIOUS
    <3>3. x * v \in Int /\ x * c \in Int /\ y * c \in Int /\ x * (c - v) \in Int /\ (y - x) * c \in Int
      OBVIOUS
    <3> QED
      BY <3>1, <3>2, <3>3
  <2>2. Tip[u] * Urgency(u) \in Int /\ Tip[t] * Cap \in Int
    BY <1>3, <1>9
  <2>3. Tip[u] < Tip[t] => Tip[u] * Urgency(u) < Tip[t] * Cap
    BY <1>3, <1>9, <2>1
  <2> QED
    BY <1>3, <1>8, <2>2, <2>3
<1>11. age[u] >= lead
  <2> SUFFICES ASSUME age[u] < lead PROVE FALSE
    BY <1>3
  <2>1. age[u] \in 0 .. lead - 1
    BY <1>3
  <2>2. Tip[u] * UrgencyAfter(age[u]) < Tip[t] * Cap
    BY <1>2, <2>1 DEF InTime
  <2>3. UrgencyAfter(age[u]) = Urgency(u)
    BY DEF UrgencyAfter, Urgency
  <2>4. Tip[u] * Urgency(u) \in Int /\ Tip[t] * Cap \in Int
    BY <1>3, <1>9
  <2> QED
    BY <1>8, <2>2, <2>3, <2>4
<1> QED
  BY <1>10, <1>11

\* In a block that passes a task over, a sibling is served or nobody but rivals is.
LEMMA PassedOver ==
  ASSUME LineInv, IsFiniteSet(Tasks), NEW P \in SUBSET Eligible, Greedy(P),
         NEW t \in pending, t \notin P,
         NEW peak \in 0 .. Life, NEW lead \in 0 .. Life, NEW wait \in 0 .. Life,
         InTime(t, peak, lead, wait), Waited(t, peak) >= 0, left[t] > 0,
         NEW next \in Nat,
         next = (IF ModelOf[t] \in {ModelOf[s] : s \in P}
                 THEN Cooldown ELSE Larger(1, cool[ModelOf[t]])) - 1
  PROVE  Fits(t, Ahead(t, peak, lead, wait) \ P, Waited(t, peak) + 1 + next)
<1> DEFINE S == Ahead(t, peak, lead, wait)
           w == Waited(t, peak)
           c == cool[ModelOf[t]]
<1>1. RestInv /\ ClockInv /\ t \in Tasks
  BY DEF LineInv, RestInv
<1>2. Life \in Nat /\ Cooldown \in Nat \ {0} /\ MaxSlots \in Nat
  BY <1>1, LineTypes
<1>3. peak \in Nat /\ lead \in Nat /\ wait \in Nat
  BY <1>2
<1>4. w \in Int /\ c \in Nat
  BY <1>1, <1>3, LineTypes
<1>5. Fits(t, S, w + c)
  <2>1. Promise(t, peak, lead, wait)
    BY DEF LineInv
  <2> QED
    BY <2>1 DEF Promise
<1>6. w < wait
  <2>1. Delay(t) < MaxSlots * wait
    BY DEF InTime
  <2> DEFINE x == w + c
  <2>2. x \in Int /\ Fits(t, S, x) /\ wait \in Int
    BY <1>3, <1>4, <1>5
  <2> HIDE DEF x, S, w, c
  <2>3. x < wait
    BY <2>1, <2>2, FitsEnds
  <2> QED
    BY <1>3, <1>4, <2>3 DEF x
<1>7. ASSUME NEW u \in pending, u # t, EffectiveTip(u) >= EffectiveTip(t)
      PROVE  u \in S /\ Tip[u] >= Tip[t] /\ u \in Tasks
  <2>1. age[u] >= lead /\ Tip[u] >= Tip[t]
    BY <1>7, WinnersHaveWaited
  <2>2. u \in Tasks
    BY <1>1 DEF RestInv
  <2>3. age[u] \in Nat
    BY <1>1, <2>2, LineTypes
  <2>4. Growth(u, lead) = 0
    BY <1>3, <2>1, <2>3 DEF Growth, Larger
  <2>5. w + Growth(u, lead) < wait
    <3> HIDE DEF w
    <3> QED
      BY <1>4, <1>6, <2>4
  <2> QED
    BY <2>1, <2>2, <2>5 DEF Ahead
<1>8. P \subseteq pending /\ \A s \in P : s \in Tasks /\ ~Resting(ModelOf[s])
  BY <1>1 DEF Eligible, RestInv
<1> SUFFICES Fits(t, S \ P, w + 1 + next)
  OBVIOUS
<1> HIDE DEF S, w
<1>9. CASE c > 0
  <2>1. ModelOf[t] \notin {ModelOf[s] : s \in P}
    BY <1>8, <1>9 DEF Resting
  <2>2. next = c - 1
    BY <1>4, <1>9, <2>1 DEF Larger
  <2> DEFINE x == w + c
             y == w + 1 + next
             T == S \ P
  <2>3. x \in Int /\ y \in Int /\ y <= x /\ T \subseteq S /\ Fits(t, S, x)
    BY <1>4, <1>5, <2>2
  <2> HIDE DEF x, y, T, c
  <2>4. Fits(t, T, y)
    BY <2>3, LessFits
  <2> QED
    BY <2>4 DEF T, y
<1>10. CASE c = 0 /\ ModelOf[t] \in {ModelOf[s] : s \in P}
  <2>1. PICK s \in P : ModelOf[s] = ModelOf[t]
    BY <1>10
  <2>2. t \in Eligible
    BY <1>10 DEF Eligible, Resting
  <2>3. EffectiveTip(s) >= EffectiveTip(t)
    BY <2>1, <2>2 DEF Greedy
  <2>4. s \in S /\ s \in Siblings(t)
    BY <1>7, <1>8, <2>1, <2>3 DEF Siblings
  <2>5. next = Cooldown - 1
    BY <1>10
  <2> DEFINE x == w + c
             y == w + 1 + next
             T == S \ P
             U == S \ {s}
             z == x + Cooldown
  <2>6. x \in Int /\ y \in Int /\ z \in Int /\ y <= z /\ T \subseteq U /\ s \in Siblings(t) \cap S /\ Fits(t, S, x)
    BY <1>2, <1>4, <1>5, <1>10, <2>1, <2>4, <2>5
  <2> HIDE DEF x, y, T, c
  <2>7. Fits(t, U, z)
    BY <2>6, SiblingServed
  <2> HIDE DEF U, z
  <2>8. Fits(t, T, y)
    BY <2>6, <2>7, LessFits
  <2> QED
    BY <2>8 DEF T, y
<1>11. CASE c = 0 /\ ModelOf[t] \notin {ModelOf[s] : s \in P}
  <2>1. t \in Eligible
    BY <1>11 DEF Eligible, Resting
  <2>2. Cardinality(P) = MaxSlots /\ \A s \in P : EffectiveTip(s) >= EffectiveTip(t)
    BY <1>11, <2>1 DEF Greedy
  <2>3. P \subseteq Rivals(t) \cap S
    BY <1>7, <1>8, <1>11, <2>2 DEF Rivals
  <2>4. next = 0
    BY <1>11 DEF Larger
  <2> DEFINE x == w + c
             T == S \ P
  <2>5. x \in Int /\ Fits(t, S, x) /\ w + 1 + next = x + 1
    BY <1>4, <1>5, <1>11, <2>4
  <2> HIDE DEF x, c
  <2>6. Fits(t, T, x + 1)
    BY <2>2, <2>3, <2>5, RivalsServed
  <2> QED
    BY <2>5, <2>6
<1> QED
  BY <1>4, <1>9, <1>10, <1>11

\* Nobody whom the crowd lets be served waits longer than that, and so has time left.
LEMMA TimeIsLeft ==
  ASSUME LineInv, IsFiniteSet(Tasks), NEW t \in pending,
         NEW peak \in 0 .. Life, NEW lead \in 0 .. Life, NEW wait \in 0 .. Life,
         InTime(t, peak, lead, wait)
  PROVE  Life - left[t] < peak + wait /\ left[t] > 0
<1> DEFINE w == Waited(t, peak)
           c == cool[ModelOf[t]]
<1>1. RestInv /\ ClockInv /\ t \in Tasks
  BY DEF LineInv, RestInv
<1>2. Life \in Nat /\ left[t] \in Nat /\ c \in Nat
  BY <1>1, LineTypes
<1>3. peak \in Nat /\ lead \in Nat /\ wait \in Nat
  BY <1>2
<1>4. Delay(t) < MaxSlots * wait /\ peak + wait <= Life
  BY DEF InTime
<1>5. w = Life - left[t] - peak /\ w \in Int
  BY <1>2, <1>3 DEF Waited
<1>6. CASE w >= 0
  <2>1. Promise(t, peak, lead, wait)
    BY DEF LineInv
  <2>2. Fits(t, Ahead(t, peak, lead, wait), w + c)
    BY <1>6, <2>1 DEF Promise
  <2> DEFINE x == w + c
             S == Ahead(t, peak, lead, wait)
  <2>3. x \in Int /\ Fits(t, S, x) /\ wait \in Int
    BY <1>2, <1>3, <1>5, <2>2
  <2> HIDE DEF x, S, w, c
  <2>4. x < wait
    BY <1>4, <2>3, FitsEnds
  <2> QED
    BY <1>2, <1>3, <1>4, <1>5, <2>4 DEF x
<1>7. CASE ~(w >= 0)
  BY <1>2, <1>3, <1>4, <1>5, <1>7
<1> QED
  BY <1>6, <1>7

LEMMA SelectKeepsLine ==
  ASSUME LineInv, IsFiniteSet(Tasks), SelectTasks
  PROVE  LineInv'
<1>1. /\ plan' \in SUBSET Eligible /\ Greedy(plan')
      /\ UNCHANGED <<pending, age, left, cool>>
  BY DEF SelectTasks
<1>2. RestInv /\ ClockInv
  BY DEF LineInv
<1>3. RestInv'
  <2>1. NextMarket
    BY DEF NextMarket
  <2> QED
    BY <1>2, <2>1, NextKeepsRest
<1>4. Cooldown' = Cooldown /\ \A t : Siblings(t)' = Siblings(t)
  BY CrowdNeverChanges
<1>5. ClockInv'
  BY <1>1, <1>2, <1>4 DEF ClockInv, Smaller
<1>6. ASSUME NEW t \in pending', NEW peak \in 0 .. Life, NEW lead \in 0 .. Life,
             NEW wait \in 0 .. Life, InTime(t, peak, lead, wait), Waited(t, peak)' >= 0
      PROVE  /\ Fits(t, Ahead(t, peak, lead, wait)', Waited(t, peak)' + cool'[ModelOf[t]])
             /\ chosen' /\ t \notin plan' =>
                  Fits(t, Ahead(t, peak, lead, wait)' \ plan',
                       Waited(t, peak)' + 1 + RestAfter(t)')
  <2>1. /\ Waited(t, peak)' = Waited(t, peak) /\ cool' = cool /\ t \in pending
        /\ Ahead(t, peak, lead, wait)' = Ahead(t, peak, lead, wait)
    BY <1>1 DEF Waited, Ahead, Growth, Larger
  <2>2. Fits(t, Ahead(t, peak, lead, wait), Waited(t, peak) + cool[ModelOf[t]])
    <3>1. Promise(t, peak, lead, wait)
      BY <1>6, <2>1 DEF LineInv
    <3> QED
      BY <1>6, <2>1, <3>1 DEF Promise
  <2>3. ASSUME t \notin plan'
        PROVE  Fits(t, Ahead(t, peak, lead, wait) \ plan', Waited(t, peak) + 1 + RestAfter(t)')
    <3>1. RestAfter(t)' = (IF ModelOf[t] \in {ModelOf[s] : s \in plan'}
                           THEN Cooldown ELSE Larger(1, cool[ModelOf[t]])) - 1
      BY <1>1, <1>4 DEF RestAfter, Larger
    <3>2. t \in Tasks
      BY <1>2, <2>1 DEF RestInv
    <3>3. Cooldown \in Nat \ {0} /\ cool[ModelOf[t]] \in Nat
      BY <1>2, <3>2, LineTypes
    <3>4. RestAfter(t)' \in Nat
      BY <3>1, <3>3 DEF Larger
    <3>5. left[t] > 0
      BY <1>6, <2>1, TimeIsLeft
    <3> QED
      BY <1>1, <1>6, <2>1, <2>3, <3>1, <3>4, <3>5, PassedOver
  <2> QED
    BY <2>1, <2>2, <2>3
<1> QED
  BY <1>3, <1>5, <1>6, PromiseKept

LEMMA FinalizeKeepsClock ==
  ASSUME LineInv, FinalizeBlock
  PROVE  ClockInv'
<1> DEFINE trained == {ModelOf[s] : s \in plan}
           C == Cooldown
<1>1. /\ pending' = pending \ plan
      /\ cool' = [m \in ModelIds |-> (IF m \in trained THEN C ELSE Larger(1, cool[m])) - 1]
      /\ age' = [t \in Tasks |-> IF t \in pending' THEN Smaller(age[t] + 1, Cap) ELSE 0]
      /\ left' = [t \in Tasks |-> IF t \in pending' THEN Larger(0, left[t] - 1) ELSE 0]
  BY DEF FinalizeBlock
<1>2. RestInv /\ ClockInv
  BY DEF LineInv
<1>3. C \in Nat \ {0} /\ Life \in Nat /\ Cap \in Nat \ {0}
  BY <1>2, LineTypes
<1>4. C' = C /\ \A t : Siblings(t)' = Siblings(t)
  BY CrowdNeverChanges
<1>5. left' \in [Tasks -> 0 .. Life]
  <2>1. \A t \in Tasks : left[t] \in Nat /\ left[t] <= Life
    BY <1>2, LineTypes
  <2> HIDE DEF C, trained
  <2>2. ASSUME NEW t \in Tasks
        PROVE  (IF t \in pending' THEN Larger(0, left[t] - 1) ELSE 0) \in 0 .. Life
    BY <1>3, <2>1 DEF Larger
  <2> QED
    BY <1>1, <2>2
<1>6. \A m \in ModelIds : cool'[m] <= C - 1
  <2>1. \A m \in ModelIds : cool[m] \in Nat /\ cool[m] <= C - 1
    BY <1>2 DEF RestInv, ClockInv
  <2> HIDE DEF C, trained
  <2> QED
    BY <1>1, <1>3, <2>1 DEF Larger
<1>7. ASSUME NEW t \in pending'
      PROVE  /\ age'[t] >= Smaller(Life - left'[t], Cap)
             /\ Siblings(t) = {} => cool'[ModelOf[t]] = 0
  <2>1. t \in pending /\ t \notin plan /\ t \in Tasks
    BY <1>1, <1>2 DEF RestInv
  <2>2. /\ age[t] \in Nat /\ left[t] \in Nat /\ left[t] <= Life
        /\ ModelOf[t] \in ModelIds /\ cool[ModelOf[t]] \in Nat
    BY <1>2, <2>1, LineTypes
  <2>3. age[t] >= Smaller(Life - left[t], Cap) /\ (Siblings(t) = {} => cool[ModelOf[t]] = 0)
    BY <1>2, <2>1 DEF ClockInv
  <2>4. age'[t] = Smaller(age[t] + 1, Cap) /\ left'[t] = Larger(0, left[t] - 1)
    <3> HIDE DEF C, trained
    <3> QED
      BY <1>1, <2>1
  <2>5. age'[t] >= Smaller(Life - left'[t], Cap)
    BY <1>3, <2>2, <2>3, <2>4 DEF Smaller, Larger
  <2>6. ASSUME Siblings(t) = {}
        PROVE  cool'[ModelOf[t]] = 0
    <3>1. ModelOf[t] \notin trained
      BY <1>2, <2>1, <2>6 DEF Siblings, RestInv
    <3>2. cool'[ModelOf[t]] = Larger(1, cool[ModelOf[t]]) - 1
      <4> HIDE DEF C, trained
      <4> QED
        BY <1>1, <2>2, <3>1
    <3> QED
      BY <2>3, <2>6, <3>2 DEF Larger
  <2> QED
    BY <2>5, <2>6
<1> QED
  BY <1>4, <1>5, <1>6, <1>7 DEF ClockInv, Smaller

\* What a block trains does not come back in time, and nobody else comes to the front.
LEMMA ServedAreGone ==
  ASSUME LineInv, FinalizeBlock, NEW t \in pending',
         NEW peak \in 0 .. Life, NEW lead \in 0 .. Life, NEW wait \in 0 .. Life,
         InTime(t, peak, lead, wait), Waited(t, peak) >= 0,
         Waited(t, peak)' = Waited(t, peak) + 1
  PROVE  Ahead(t, peak, lead, wait)' \subseteq Ahead(t, peak, lead, wait) \ plan
<1> DEFINE trained == {ModelOf[s] : s \in plan}
           C == Cooldown
           w == Waited(t, peak)
<1>1. /\ pending' = pending \ plan
      /\ cool' = [m \in ModelIds |-> (IF m \in trained THEN C ELSE Larger(1, cool[m])) - 1]
      /\ age' = [u \in Tasks |-> IF u \in pending' THEN Smaller(age[u] + 1, Cap) ELSE 0]
  BY DEF FinalizeBlock
<1>2. RestInv /\ ClockInv /\ t \in Tasks
  BY <1>1 DEF LineInv, RestInv
<1>3. C \in Nat \ {0} /\ Life \in Nat /\ Cap \in Nat \ {0}
  BY <1>2, LineTypes
<1>4. peak \in Nat /\ lead \in Nat /\ wait \in Nat /\ wait <= lead + C
  BY <1>3 DEF InTime
<1>5. w \in Int
  BY <1>2, <1>4, LineTypes
<1> HIDE DEF C, trained
<1>6. ASSUME NEW u \in Tasks, w + 1 + Growth(u, lead)' < wait
      PROVE  w + Growth(u, lead) < wait /\ u \notin plan
  <2>1. /\ ModelOf[u] \in ModelIds /\ cool[ModelOf[u]] \in Nat /\ cool[ModelOf[u]] <= C - 1
        /\ age[u] \in Nat /\ Growth(u, lead) \in Nat
    BY <1>2, <1>4, LineTypes DEF C
  <2>2. cool'[ModelOf[u]] = (IF ModelOf[u] \in trained THEN C ELSE Larger(1, cool[ModelOf[u]])) - 1
    BY <1>1, <2>1
  <2>3. u \notin pending' => Growth(u, lead)' = cool'[ModelOf[u]] + lead
    BY DEF Growth
  <2>4. u \notin plan
    <3> SUFFICES ASSUME u \in plan PROVE FALSE
      OBVIOUS
    <3>1. ModelOf[u] \in trained /\ u \notin pending'
      BY <1>1 DEF trained
    <3>2. Growth(u, lead)' = C - 1 + lead
      BY <2>2, <2>3, <3>1
    <3> HIDE DEF w
    <3> QED
      BY <1>3, <1>4, <1>5, <1>6, <3>2 DEF w
  <2>5. Growth(u, lead)' \in Int /\ Growth(u, lead)' >= Growth(u, lead) - 1
    <3>1. CASE u \in pending
      <4>1. u \in pending' /\ age'[u] = Smaller(age[u] + 1, Cap)
        BY <1>1, <2>4, <3>1
      <4>2. Growth(u, lead) = Larger(0, lead - age[u]) /\ Growth(u, lead)' = Larger(0, lead - age'[u])
        BY <3>1, <4>1 DEF Growth, Larger
      <4> QED
        BY <1>3, <1>4, <2>1, <4>1, <4>2 DEF Larger, Smaller
    <3>2. CASE u \notin pending
      <4>1. Growth(u, lead)' = cool'[ModelOf[u]] + lead
        BY <1>1, <2>3, <3>2
      <4>2. Growth(u, lead) = cool[ModelOf[u]] + lead
        BY <3>2 DEF Growth
      <4> QED
        BY <1>3, <1>4, <2>1, <2>2, <4>1, <4>2 DEF Larger
    <3> QED
      BY <3>1, <3>2
  <2> HIDE DEF w
  <2>6. w + Growth(u, lead) < wait
    BY <1>4, <1>5, <1>6, <2>1, <2>5 DEF w
  <2> QED
    BY <2>4, <2>6
<1> QED
  BY <1>6 DEF Ahead

LEMMA FinalizeKeepsLine ==
  ASSUME LineInv, IsFiniteSet(Tasks), FinalizeBlock
  PROVE  LineInv'
<1>1. /\ chosen /\ chosen' = FALSE /\ pending' = pending \ plan
      /\ cool' = [m \in ModelIds |-> (IF m \in {ModelOf[s] : s \in plan}
                                      THEN Cooldown ELSE Larger(1, cool[m])) - 1]
      /\ left' = [t \in Tasks |-> IF t \in pending' THEN Larger(0, left[t] - 1) ELSE 0]
  BY DEF FinalizeBlock
<1>2. RestInv /\ ClockInv
  BY DEF LineInv
<1>3. RestInv' /\ ClockInv'
  BY <1>2, FinalizeKeepsRest, FinalizeKeepsClock
<1>4. ASSUME NEW t \in pending', NEW peak \in 0 .. Life, NEW lead \in 0 .. Life,
             NEW wait \in 0 .. Life, InTime(t, peak, lead, wait), Waited(t, peak)' >= 0
      PROVE  Fits(t, Ahead(t, peak, lead, wait)', Waited(t, peak)' + cool'[ModelOf[t]])
  <2> DEFINE w == Waited(t, peak)
             T == Ahead(t, peak, lead, wait)'
  <2>1. t \in pending /\ t \notin plan /\ t \in Tasks
    BY <1>1, <1>2 DEF RestInv
  <2>2. /\ Life \in Nat /\ left[t] \in Nat /\ left[t] <= Life /\ ModelOf[t] \in ModelIds
        /\ Cooldown \in Nat \ {0} /\ RestAfter(t) \in Nat
    BY <1>2, <2>1, LineTypes
  <2>3. peak \in Nat /\ lead \in Nat /\ wait \in Nat
    BY <2>2
  <2>4. w \in Int
    BY <1>2, <2>1, <2>3, LineTypes
  <2>5. left[t] > 0
    BY <1>4, <2>1, TimeIsLeft
  <2>6. left'[t] = left[t] - 1
    BY <1>1, <2>1, <2>2, <2>5 DEF Larger
  <2>7. Waited(t, peak)' = w + 1
    BY <2>2, <2>3, <2>6 DEF Waited
  <2>8. cool'[ModelOf[t]] = RestAfter(t)
    BY <1>1, <2>2 DEF RestAfter
  <2>9. CASE w >= 0
    <3>1. Promise(t, peak, lead, wait)
      BY <1>4, <2>1 DEF LineInv
    <3>2. Fits(t, Ahead(t, peak, lead, wait) \ plan, w + 1 + RestAfter(t))
      BY <1>1, <2>1, <2>9, <3>1 DEF Promise
    <3>3. T \subseteq Ahead(t, peak, lead, wait) \ plan
      BY <1>4, <2>7, <2>9, ServedAreGone
    <3> DEFINE x == w + 1 + RestAfter(t)
               S == Ahead(t, peak, lead, wait) \ plan
    <3>4. x \in Int /\ x <= x /\ Fits(t, S, x) /\ T \subseteq S
      BY <2>2, <2>4, <3>2, <3>3
    <3> HIDE DEF x, S, T
    <3>5. Fits(t, T, x)
      BY <3>4, LessFits
    <3> QED
      BY <2>7, <2>8, <3>5 DEF x, T
  <2>10. CASE ~(w >= 0)
    <3>1. w + 1 = 0
      <4> HIDE DEF w
      <4> QED
        BY <1>4, <2>4, <2>7, <2>10
    <3>2. cool'[ModelOf[t]] \in Int /\ cool'[ModelOf[t]] <= RestAtFirst(t)
      <4>1. cool'[ModelOf[t]] <= Cooldown - 1 /\ (Siblings(t) = {} => cool'[ModelOf[t]] = 0)
        <5>1. Cooldown' = Cooldown /\ Siblings(t)' = Siblings(t)
          BY CrowdNeverChanges
        <5> QED
          BY <1>3, <2>2, <5>1 DEF ClockInv
      <4> QED
        BY <2>2, <2>8, <4>1 DEF RestAtFirst
    <3> DEFINE x == Waited(t, peak)' + cool'[ModelOf[t]]
    <3>3. x = cool'[ModelOf[t]]
      BY <2>7, <3>1, <3>2
    <3>4. x \in Int /\ x <= RestAtFirst(t)
      BY <3>2, <3>3
    <3> HIDE DEF x, T
    <3>5. Fits(t, T, x)
      BY <3>4, AllFit
    <3> QED
      BY <3>5 DEF x, T
  <2> QED
    BY <2>9, <2>10
<1>5. ASSUME NEW t \in pending', NEW peak \in 0 .. Life, NEW lead \in 0 .. Life,
             NEW wait \in 0 .. Life, InTime(t, peak, lead, wait), Waited(t, peak)' >= 0
      PROVE  /\ Fits(t, Ahead(t, peak, lead, wait)', Waited(t, peak)' + cool'[ModelOf[t]])
             /\ chosen' /\ t \notin plan' =>
                  Fits(t, Ahead(t, peak, lead, wait)' \ plan',
                       Waited(t, peak)' + 1 + RestAfter(t)')
  BY <1>1, <1>4, <1>5
<1> QED
  BY <1>3, <1>5, PromiseKept

LEMMA NextKeepsLine ==
  ASSUME IsFiniteSet(Tasks)
  PROVE  LineInv /\ [NextMarket]_marketVars => LineInv'
<1> SUFFICES ASSUME LineInv, [NextMarket]_marketVars
             PROVE  LineInv'
  OBVIOUS
<1>1. RestInv'
  BY NextKeepsRest DEF LineInv
<1>2. ASSUME NEW t \in Tasks, SubmitTask(t)
      PROVE  LineInv'
  BY <1>2, SubmitKeepsLine
<1>3. ASSUME NEW t \in Tasks, CancelTask(t)
      PROVE  LineInv'
  <2>1. pending' \subseteq pending /\ UNCHANGED <<age, left, cool, chosen, plan>>
    BY <1>3 DEF CancelTask
  <2> QED
    BY <1>1, <2>1, LeavingKeepsLine
<1>4. CASE ExpireStaleTasks
  <2>1. pending' \subseteq pending /\ UNCHANGED <<age, left, cool, chosen, plan>>
    BY <1>4 DEF ExpireStaleTasks
  <2> QED
    BY <1>1, <2>1, LeavingKeepsLine
<1>5. CASE SelectTasks
  BY <1>5, SelectKeepsLine
<1>6. CASE FinalizeBlock
  BY <1>6, FinalizeKeepsLine
<1>7. CASE UNCHANGED marketVars
  <2>1. pending' \subseteq pending /\ UNCHANGED <<age, left, cool, chosen, plan>>
    BY <1>7 DEF marketVars
  <2> QED
    BY <1>1, <2>1, LeavingKeepsLine
<1> QED
  BY <1>2, <1>3, <1>4, <1>5, <1>6, <1>7 DEF NextMarket

LEMMA MarketStartsInLine == InitMarket => LineInv
<1> SUFFICES ASSUME InitMarket PROVE LineInv
  OBVIOUS
<1>1. RestInv
  BY MarketInit
<1>2. /\ pending = {} /\ left = [t \in Tasks |-> 0] /\ cool = [m \in ModelIds |-> 0]
  BY DEF InitMarket
<1>3. Life \in Nat /\ Cooldown \in Nat /\ Cooldown >= 1
  BY MarketConstants, CooldownIsPositive
<1>4. ClockInv
  BY <1>2, <1>3 DEF ClockInv
<1> QED
  BY <1>1, <1>2, <1>4 DEF LineInv

(* "Low-tip tasks cannot be starved indefinitely": a task whose tip beats   *)
(* every fresh one once it is most urgent is served before it expires, if   *)
(* tasks live long enough for how many there are, however owners submit,    *)
(* cancel and submit again (urgency_multiplier, expire_stale_tasks).        *)
THEOREM CompetitiveAreServed ==
  ASSUME CrowdFitsLife
  PROVE  SpecMarket => []CompetitiveTasksAreServed
<1>1. IsFiniteSet(Tasks)
  BY DEF CrowdFitsLife
<1>2. InitMarket => LineInv
  BY MarketStartsInLine
<1>3. LineInv /\ [NextMarket]_marketVars => LineInv'
  BY <1>1, NextKeepsLine
<1>4. LineInv => CompetitiveTasksAreServed
  <2> SUFFICES ASSUME LineInv, NEW t \in pending, Competitive(t)
               PROVE  left[t] > 0
    BY DEF CompetitiveTasksAreServed
  <2>1. t \in Tasks
    BY DEF LineInv, RestInv
  <2>2. PICK peak, lead, wait \in 0 .. Life : InTime(t, peak, lead, wait)
    BY <2>1 DEF CrowdFitsLife
  <2> QED
    BY <1>1, <2>2, TimeIsLeft
<1> QED
  BY <1>2, <1>3, <1>4, PTL DEF SpecMarket

\* How long a task that is still pending has waited.
WaitsAreShort ==
  \A t \in pending, peak, lead, wait \in 0 .. Life :
    InTime(t, peak, lead, wait) => Life - left[t] < peak + wait

(* A longer life does not lengthen the wait: it ends once the task is most  *)
(* urgent and, at most, Delay blocks' worth of others have had their turn   *)
(* (select_tasks_for_block, finalize_block).                                *)
THEOREM WaitsAreBounded ==
  ASSUME IsFiniteSet(Tasks)
  PROVE  SpecMarket => []WaitsAreShort
<1>1. InitMarket => LineInv
  BY MarketStartsInLine
<1>2. LineInv /\ [NextMarket]_marketVars => LineInv'
  BY NextKeepsLine
<1>3. LineInv => WaitsAreShort
  BY TimeIsLeft DEF WaitsAreShort
<1> QED
  BY <1>1, <1>2, <1>3, PTL DEF SpecMarket

-----------------------------------------------------------------------------
(* Strikes                                                                  *)

\* The ledger counts the useless blocks since the last dip or refresh, and the flag
\* remembers the longest such run.
StrikeInv ==
  /\ strikes \in Nat /\ frozen \in BOOLEAN
  /\ useless \in [now : Nat, longest : Nat]
  /\ strikes = useless.now /\ useless.now <= useless.longest
  /\ frozen <=> useless.longest >= MaxStrikes

LEMMA MaxOfTwo ==
  ASSUME NEW a \in Int, NEW b \in Int
  PROVE  Max({a, b}) = IF a >= b THEN a ELSE b
<1> DEFINE m == IF a >= b THEN a ELSE b
<1>1. m \in {a, b} /\ \A y \in {a, b} : m >= y
  OBVIOUS
<1>2. \A x \in {a, b} : (\A y \in {a, b} : x >= y) => x = m
  OBVIOUS
<1> HIDE DEF m
<1>3. Max({a, b}) = m
  BY <1>1, <1>2 DEF Max
<1> QED
  BY <1>3 DEF m

LEMMA AccumulateKeepsStrikes ==
  ASSUME StrikeInv, Accumulate
  PROVE  StrikeInv'
<1> DEFINE dip == Dipped(trace.curve)
           now == IF dip THEN 0 ELSE useless.now + 1
<1>1. /\ strikes \in Nat /\ frozen \in BOOLEAN /\ useless.now \in Nat /\ useless.longest \in Nat
      /\ strikes = useless.now /\ useless.now <= useless.longest
      /\ frozen <=> useless.longest >= MaxStrikes
  BY DEF StrikeInv
<1>2. /\ strikes' = IF dip THEN 0 ELSE strikes + 1
      /\ frozen' = (frozen \/ (~dip /\ strikes' >= MaxStrikes))
      /\ useless' = [now |-> now, longest |-> Max({now, useless.longest})]
  BY DEF Accumulate, Struck
<1> HIDE DEF dip
<1>3. now \in Nat /\ now = strikes'
  BY <1>1, <1>2
<1> HIDE DEF now
<1>4. Max({now, useless.longest}) = IF now >= useless.longest THEN now ELSE useless.longest
  BY <1>1, <1>3, MaxOfTwo
<1>5. /\ useless' \in [now : Nat, longest : Nat] /\ useless'.now = strikes' /\ strikes' \in Nat
      /\ useless'.longest = IF now >= useless.longest THEN now ELSE useless.longest
  BY <1>1, <1>2, <1>3, <1>4
<1>6. useless'.now <= useless'.longest
  BY <1>1, <1>3, <1>5
<1>7. dip => strikes' = 0
  BY <1>2
<1>8. MaxStrikes \in Nat \ {0}
  BY EvidenceConstants
<1>9. useless'.longest >= MaxStrikes <=> useless.longest >= MaxStrikes \/ (~dip /\ strikes' >= MaxStrikes)
  BY <1>1, <1>3, <1>5, <1>7, <1>8
<1>10. frozen' \in BOOLEAN /\ (frozen' <=> frozen \/ (~dip /\ strikes' >= MaxStrikes))
  BY <1>2
<1> QED
  BY <1>1, <1>5, <1>6, <1>9, <1>10 DEF StrikeInv

LEMMA NextKeepsStrikes == StrikeInv /\ [NextEvidence]_evidenceVars => StrikeInv'
<1> SUFFICES ASSUME StrikeInv, [NextEvidence]_evidenceVars
             PROVE  StrikeInv'
  OBVIOUS
<1>1. CASE Accumulate
  BY <1>1, AccumulateKeepsStrikes
<1>2. CASE Refresh
  <2>1. strikes' = 0 /\ frozen' = FALSE /\ useless' = [now |-> 0, longest |-> 0]
    BY <1>2 DEF Refresh
  <2>2. MaxStrikes \in Nat /\ MaxStrikes # 0
    BY EvidenceConstants
  <2>3. /\ strikes' \in Nat /\ strikes' = useless'.now /\ useless'.now <= useless'.longest
        /\ useless' \in [now : Nat, longest : Nat] /\ ~(useless'.longest >= MaxStrikes)
    BY <2>1, <2>2
  <2>4. frozen' \in BOOLEAN /\ ~frozen'
    BY <2>1
  <2> QED
    BY <2>3, <2>4 DEF StrikeInv
<1>3. ASSUME \/ Publish \/ Reject
             \/ \E steps \in [1 .. Challenges -> 1 .. Steps] : Draw(steps)
             \/ \E w \in Witnesses : Reveal(w)
             \/ UNCHANGED evidenceVars
      PROVE  StrikeInv'
  <2>1. UNCHANGED <<strikes, frozen, useless>>
    BY <1>3 DEF Publish, Reject, Draw, Reveal, evidenceVars
  <2> QED
    BY <2>1 DEF StrikeInv
<1> QED
  BY <1>1, <1>2, <1>3 DEF NextEvidence

(* A model is frozen exactly when MaxStrikes accepted blocks in a row left  *)
(* it no better since its last refresh (accumulate_strikes), although a dip *)
(* resets the count and thaws nothing.                                      *)
THEOREM FreezeSafe == SpecEvidence => []FrozenWhenUseless
<1>1. InitEvidence => StrikeInv
  <2>1. MaxStrikes \in Nat /\ MaxStrikes # 0
    BY EvidenceConstants
  <2> SUFFICES ASSUME InitEvidence
               PROVE  StrikeInv
    OBVIOUS
  <2>2. strikes = 0 /\ frozen = FALSE /\ useless = [now |-> 0, longest |-> 0]
    BY DEF InitEvidence
  <2>3. /\ strikes \in Nat /\ strikes = useless.now /\ useless.now <= useless.longest
        /\ useless \in [now : Nat, longest : Nat] /\ ~(useless.longest >= MaxStrikes)
    BY <2>1, <2>2
  <2>4. frozen \in BOOLEAN /\ ~frozen
    BY <2>2
  <2> QED
    BY <2>3, <2>4 DEF StrikeInv
<1>2. StrikeInv /\ [NextEvidence]_evidenceVars => StrikeInv'
  BY NextKeepsStrikes
<1>3. StrikeInv => FrozenWhenUseless
  BY DEF StrikeInv, FrozenWhenUseless
<1> QED
  BY <1>1, <1>2, <1>3, PTL DEF SpecEvidence

-----------------------------------------------------------------------------
(* Replays                                                                  *)

\* What f is, if it is the states of a training of n steps from s.
TrainsTo(f, n, s) ==
  f = [i \in 0 .. n |-> IF i = 0 THEN s ELSE After(f[i - 1], i)]

\* Every training has its states: if one had none, a shortest one would, and it would
\* need but one state more than the training before its last step.
LEMMA TrainingsExist ==
  ASSUME NEW s, NEW m \in Nat
  PROVE  \E f : TrainsTo(f, m, s)
<1> DEFINE Bad == {n \in 0 .. m : ~ \E f : TrainsTo(f, n, s)}
<1> SUFFICES ASSUME m \in Bad PROVE FALSE
  OBVIOUS
<1>1. PICK n \in Bad : \A u \in Bad : n <= u
  <2>1. Bad \subseteq 0 .. m /\ Bad # {}
    OBVIOUS
  <2> HIDE DEF Bad
  <2> QED
    BY <2>1, SmallestNumber
<1>2. n \in 0 .. m /\ ~ \E f : TrainsTo(f, n, s)
  OBVIOUS
<1>3. n # 0
  <2> DEFINE f == [i \in 0 .. 0 |-> s]
  <2>1. TrainsTo(f, 0, s)
    BY DEF TrainsTo
  <2> QED
    BY <1>2, <2>1
<1>4. PICK g : TrainsTo(g, n - 1, s)
  <2>1. n - 1 \in 0 .. m /\ ~(n <= n - 1)
    BY <1>2, <1>3
  <2> QED
    BY <1>1, <2>1
<1> DEFINE f == [i \in 0 .. n |-> IF i < n THEN g[i] ELSE After(g[n - 1], n)]
           F(i) == IF i = 0 THEN s ELSE After(f[i - 1], i)
<1>5. \A i \in 0 .. n - 1 : g[i] = IF i = 0 THEN s ELSE After(g[i - 1], i)
  BY <1>4 DEF TrainsTo
<1>6. ASSUME NEW i \in 0 .. n
      PROVE  f[i] = F(i)
  <2>1. i # 0 => i - 1 \in 0 .. n /\ i - 1 < n /\ f[i - 1] = g[i - 1]
    BY <1>2
  <2>2. CASE i < n
    <3>1. i \in 0 .. n - 1 /\ f[i] = g[i]
      BY <1>2, <2>2
    <3> QED
      BY <1>5, <2>1, <3>1
  <2>3. CASE ~(i < n)
    <3>1. i = n
      BY <1>2, <2>3
    <3> QED
      BY <1>3, <2>1, <3>1
  <2> QED
    BY <2>2, <2>3
<1>7. TrainsTo(f, n, s)
  <2>1. f = [i \in 0 .. n |-> f[i]]
    OBVIOUS
  <2> HIDE DEF f
  <2> QED
    BY <1>6, <2>1 DEF TrainsTo
<1> QED
  BY <1>2, <1>7

\* The states of a training are what its steps make of each other.
LEMMA TrainedUnfolds ==
  ASSUME NEW s \in States
  PROVE  /\ Trained(s)[0] = s
         /\ \A i \in 0 .. Steps : Trained(s)[i] \in States
         /\ \A i \in 1 .. Steps :
              Trained(s)[i] =
                After(Trained(s)[i - 1], i)
<1> DEFINE T == Trained(s)
<1>1. Steps \in Nat \ {0}
  BY EvidenceConstants
<1>2. T = CHOOSE f : TrainsTo(f, Steps, s)
  BY DEF Trained, TrainsTo
<1>3. TrainsTo(T, Steps, s)
  <2> HIDE DEF T
  <2> QED
    BY <1>1, <1>2, TrainingsExist
<1> HIDE DEF T
<1>4. /\ T[0] = s
      /\ \A i \in 1 .. Steps : T[i] = After(T[i - 1], i)
  BY <1>1, <1>3 DEF TrainsTo
<1> DEFINE Bad == {i \in 0 .. Steps : T[i] \notin States}
<1>5. Bad = {}
  <2> SUFFICES ASSUME Bad # {} PROVE FALSE
    OBVIOUS
  <2>1. PICK i \in Bad : \A u \in Bad : i <= u
    <3>1. Bad \subseteq 0 .. Steps
      OBVIOUS
    <3> HIDE DEF Bad
    <3> QED
      BY <1>1, <3>1, SmallestNumber
  <2>2. i \in 1 .. Steps /\ i - 1 \in 0 .. Steps /\ T[i] \notin States
    BY <1>1, <1>4
  <2>3. T[i - 1] \in States
    BY <2>1, <2>2
  <2>4. Grad(T[i - 1], i) \in Grads
    BY <2>2, <2>3, EvidenceConstants DEF Grad
  <2>5. After(T[i - 1], i) \in States
    BY <2>3, <2>4, EvidenceConstants DEF After
  <2> QED
    BY <1>4, <2>2, <2>5
<1> QED
  BY <1>4, <1>5 DEF T

LEMMA GradsTyped ==
  ASSUME NEW s \in States
  PROVE  /\ GradsOf(s) \in Seq(Grads) /\ Len(GradsOf(s)) = Steps
         /\ \A j \in 1 .. Steps :
              GradsOf(s)[j] = Grad(Trained(s)[j - 1], j)
<1> DEFINE G(j) == Grad(Trained(s)[j - 1], j)
<1>1. Steps \in Nat
  BY EvidenceConstants
<1>2. ASSUME NEW j \in 1 .. Steps
      PROVE  G(j) \in Grads
  <2>1. j - 1 \in 0 .. Steps
    BY <1>1
  <2>2. Trained(s)[j - 1] \in States
    BY <2>1, TrainedUnfolds
  <2> QED
    BY <2>2, EvidenceConstants DEF Grad
<1>3. GradsOf(s) = [j \in 1 .. Steps |-> G(j)]
  BY DEF GradsOf
<1> HIDE DEF G
<1>4. [j \in 1 .. Steps |-> G(j)] \in Seq(Grads) /\ Len([j \in 1 .. Steps |-> G(j)]) = Steps
  BY <1>1, <1>2
<1>5. \A j \in 1 .. Steps : GradsOf(s)[j] = G(j)
  BY <1>3
<1> QED
  BY <1>3, <1>4, <1>5 DEF G

\* One more step extends the chain of gradients by its own.
LEMMA ChainGrows ==
  ASSUME NEW s \in States, NEW j \in 1 .. Steps
  PROVE  LET G == GradsOf(s)
         IN  SubSeq(G, 1, j) = Append(IF j = 1 THEN <<>> ELSE SubSeq(G, 1, j - 1), G[j])
<1> DEFINE G == GradsOf(s)
<1>1. G \in Seq(Grads) /\ Len(G) = Steps
  BY GradsTyped
<1> HIDE DEF G
<1>2. SubSeq(G, 1, j) = SubSeq(G, 1, j - 1) \o <<G[j]>>
  <2>1. 1 \in 1 .. Len(G) /\ j \in 1 .. Len(G)
    BY <1>1, EvidenceConstants
  <2> QED
    BY <1>1, <2>1, SubSeqRecursiveSecond
<1>3. j = 1 => SubSeq(G, 1, j - 1) = <<>>
  BY SubSeqEmpty
<1>4. SubSeq(G, 1, j - 1) \in Seq(Grads)
  <2>1. \A i \in 1 .. j - 1 : G[i] \in Grads
    BY <1>1, EvidenceConstants
  <2> QED
    BY <2>1, SubSeqProperties
<1>5. G[j] \in Grads
  BY <1>1, EvidenceConstants
<1>6. SubSeq(G, 1, j - 1) \o <<G[j]>> = Append(SubSeq(G, 1, j - 1), G[j])
  <2> DEFINE b == SubSeq(G, 1, j - 1)
             e == G[j]
  <2> HIDE DEF b, e
  <2>1. b \in Seq(Grads) /\ e \in Grads => b \o <<e>> = Append(b, e)
    OBVIOUS
  <2> QED
    BY <1>4, <1>5, <2>1 DEF b, e
<1> QED
  BY <1>2, <1>3, <1>6 DEF G

\* A replay of every step can only be passed by the training itself: the first step
\* starts from the last block's state, and each step from where the one before it ended.
LEMMA ReplayOfAllSteps ==
  ASSUME NEW t, NEW w, t.from \in States,
         t.chain = [i \in 1 .. Steps |-> t.chain[i]],
         \A j \in 1 .. Steps : Replayed(t, w, j)
  PROVE  /\ t.to = Trained(t.from)[Steps]
         /\ t.chain = ChainOf(GradsOf(t.from))
<1> DEFINE T == Trained(t.from)
           G == GradsOf(t.from)
<1>1. Steps \in Nat \ {0}
  BY EvidenceConstants
<1>2. /\ T[0] = t.from
      /\ \A i \in 1 .. Steps : T[i] = After(T[i - 1], i)
  BY TrainedUnfolds
<1>3. /\ \A j \in 1 .. Steps : G[j] = Grad(T[j - 1], j)
      /\ Len(G) = Steps
  BY GradsTyped
<1>4. \A j \in 1 .. Steps :
        /\ j = 1 => w.states[1] = t.from
        /\ t.chain[j] = Append(IF j = 1 THEN <<>> ELSE t.chain[j - 1], Grad(w.states[j], j))
        /\ After(w.states[j], j) = IF j < Steps THEN w.states[j + 1] ELSE t.to
  BY DEF Replayed, PreStateMatches, ChainMatches, PostStateMatches
<1>5. \A j \in 1 .. Steps :
        SubSeq(G, 1, j) = Append(IF j = 1 THEN <<>> ELSE SubSeq(G, 1, j - 1), G[j])
  BY ChainGrows
<1> HIDE DEF T, G
<1> DEFINE Bad == {j \in 1 .. Steps : w.states[j] # T[j - 1] \/ t.chain[j] # SubSeq(G, 1, j)}
<1>6. Bad = {}
  <2> SUFFICES ASSUME Bad # {} PROVE FALSE
    OBVIOUS
  <2>1. PICK j \in Bad : \A u \in Bad : j <= u
    <3>1. Bad \subseteq 0 .. Steps
      BY <1>1
    <3> HIDE DEF Bad
    <3> QED
      BY <1>1, <3>1, SmallestNumber
  <2>2. j \in 1 .. Steps
    OBVIOUS
  <2>3. CASE j = 1
    <3>1. w.states[1] = T[0]
      BY <1>2, <1>4, <2>2, <2>3
    <3>2. /\ t.chain[1] = Append(<<>>, Grad(w.states[1], 1))
          /\ SubSeq(G, 1, 1) = Append(<<>>, G[1]) /\ G[1] = Grad(T[0], 1)
      <4>1. 1 \in 1 .. Steps /\ 1 - 1 = 0
        BY <1>1
      <4>2. G[1] = Grad(T[0], 1)
        BY <1>3, <4>1
      <4>3. t.chain[1] = Append(<<>>, Grad(w.states[1], 1))
        BY <1>4, <4>1
      <4>4. SubSeq(G, 1, 1) = Append(<<>>, G[1])
        BY <1>5, <4>1
      <4> QED
        BY <4>2, <4>3, <4>4
    <3>3. t.chain[1] = SubSeq(G, 1, 1)
      BY <3>1, <3>2
    <3> QED
      BY <2>1, <2>3, <3>1, <3>3
  <2>4. CASE j # 1
    <3> DEFINE i == j - 1
    <3>1. i \in 1 .. Steps /\ i < Steps /\ i + 1 = j /\ ~(j <= i)
      BY <1>1, <2>2, <2>4
    <3>2. w.states[i] = T[i - 1] /\ t.chain[i] = SubSeq(G, 1, i)
      BY <2>1, <3>1
    <3>3. w.states[j] = T[i]
      <4>1. After(w.states[i], i) = w.states[j]
        BY <1>4, <3>1
      <4> QED
        BY <1>2, <3>1, <3>2, <4>1
    <3>4. t.chain[j] = Append(SubSeq(G, 1, i), Grad(T[i], j))
      BY <1>4, <2>2, <2>4, <3>2, <3>3
    <3>5. SubSeq(G, 1, j) = Append(SubSeq(G, 1, i), G[j]) /\ G[j] = Grad(T[i], j)
      BY <1>3, <1>5, <2>2, <2>4
    <3>6. t.chain[j] = SubSeq(G, 1, j)
      BY <3>4, <3>5
    <3> QED
      BY <2>1, <3>3, <3>6
  <2> QED
    BY <2>3, <2>4
<1>7. \A j \in 1 .. Steps : w.states[j] = T[j - 1] /\ t.chain[j] = SubSeq(G, 1, j)
  BY <1>6
<1> HIDE DEF Bad
<1>8. t.to = T[Steps]
  <2>1. Steps \in 1 .. Steps /\ ~(Steps < Steps)
    BY <1>1
  <2>2. After(w.states[Steps], Steps) = t.to /\ w.states[Steps] = T[Steps - 1]
    BY <1>4, <1>7, <2>1
  <2> QED
    BY <1>2, <2>1, <2>2
<1>9. t.chain = [j \in 1 .. Steps |-> SubSeq(G, 1, j)]
  BY <1>7
<1>10. t.chain = ChainOf(G)
  BY <1>3, <1>9 DEF ChainOf
<1> QED
  BY <1>8, <1>10 DEF T, G

\* A chain of entries for the steps, with the states that it ends in and commits to.
IsRecord(t) == {t.to, t.committed} \subseteq States /\ t.chain = [i \in 1 .. Steps |-> t.chain[i]]

\* What is published continues the last block, in the form of a record; what is
\* accepted passed the replay of every step that was drawn.
ReplayInv ==
  /\ head \in States
  /\ stage \in {"published", "drawn", "accepted"} => trace.from = head /\ IsRecord(trace)
  /\ stage = "accepted" => \A i \in 1 .. Len(drawn) : Replayed(trace, witness, drawn[i])

LEMMA CredibleIsRecord ==
  ASSUME NEW s \in States, NEW t \in Credible[s]
  PROVE  t.from = s /\ IsRecord(t)
<1>1. /\ t \in Traces \cup {HonestTrace(x, curve) : x \in States, curve \in Curves}
      /\ Structural(t, s)
  BY DEF Credible
<1>2. t.from = s
  BY <1>1 DEF Structural
<1>3. CASE t \in Traces
  BY <1>2, <1>3 DEF Traces, IsRecord
<1>4. ASSUME NEW x \in States, NEW curve \in Curves, t = HonestTrace(x, curve)
      PROVE  IsRecord(t)
  <2>1. /\ t.to = Trained(x)[Steps] /\ t.committed = t.to
        /\ t.chain = ChainOf(GradsOf(x))
    BY <1>4 DEF HonestTrace
  <2>2. Steps \in 0 .. Steps
    BY EvidenceConstants
  <2>3. t.to \in States
    BY <2>1, <2>2, TrainedUnfolds
  <2>4. Len(GradsOf(x)) = Steps
    BY GradsTyped
  <2>5. t.chain = [i \in 1 .. Steps |-> SubSeq(GradsOf(x), 1, i)]
    BY <2>1, <2>4 DEF ChainOf
  <2> QED
    BY <2>1, <2>3, <2>5 DEF IsRecord
<1>5. CASE t \in {HonestTrace(x, curve) : x \in States, curve \in Curves}
  <2>1. PICK x \in States, curve \in Curves : t = HonestTrace(x, curve)
    BY <1>5
  <2> QED
    BY <1>2, <1>4, <2>1
<1> QED
  BY <1>1, <1>3, <1>5

LEMMA NextKeepsReplay == ReplayInv /\ [NextEvidence]_evidenceVars => ReplayInv'
<1> SUFFICES ASSUME ReplayInv, [NextEvidence]_evidenceVars
             PROVE  ReplayInv'
  OBVIOUS
<1>1. CASE Publish
  <2>1. PICK t \in Credible[head] : trace' = t
    BY <1>1 DEF Publish
  <2>2. stage' = "published" /\ head' = head
    BY <1>1 DEF Publish
  <2>3. t.from = head /\ IsRecord(t)
    BY CredibleIsRecord DEF ReplayInv
  <2> QED
    BY <2>1, <2>2, <2>3 DEF ReplayInv, IsRecord
<1>2. ASSUME NEW steps \in [1 .. Challenges -> 1 .. Steps], Draw(steps)
      PROVE  ReplayInv'
  BY <1>2 DEF Draw, ReplayInv, IsRecord
<1>3. ASSUME NEW w \in Witnesses, Reveal(w)
      PROVE  ReplayInv'
  <2>1. /\ stage = "drawn" /\ witness' = w /\ UNCHANGED <<head, trace, drawn>>
        /\ stage' = IF \A i \in 1 .. Len(drawn) : Replayed(trace, w, drawn[i])
                     THEN "accepted" ELSE "rejected"
    BY <1>3 DEF Reveal
  <2>2. stage' = "accepted" => \A i \in 1 .. Len(drawn) : Replayed(trace, w, drawn[i])
    BY <2>1
  <2>3. (stage = "accepted" => \A i \in 1 .. Len(drawn) : Replayed(trace, witness, drawn[i]))'
    BY <2>1, <2>2
  <2> QED
    BY <2>1, <2>3 DEF ReplayInv, IsRecord
<1>4. CASE Accumulate \/ Reject
  <2>1. stage' = "idle" /\ head' \in States
    BY <1>4 DEF Accumulate, Reject, ReplayInv, IsRecord
  <2> QED
    BY <2>1 DEF ReplayInv
<1>5. CASE Refresh \/ UNCHANGED evidenceVars
  <2>1. UNCHANGED <<stage, head, trace, drawn, witness>>
    BY <1>5 DEF Refresh, evidenceVars
  <2> QED
    BY <2>1 DEF ReplayInv, IsRecord
<1> QED
  BY <1>1, <1>2, <1>3, <1>4, <1>5 DEF NextEvidence

(* If every step happened to be drawn, an accepted block ends where         *)
(* training from the last block's state leads, with the gradients of that   *)
(* training, for any number of steps and whatever the miner published and   *)
(* revealed (verify_structural, verify_spot_replay).                        *)
THEOREM ReplaySafe == SpecEvidence => []FullReplayProvesTraining
<1>1. InitEvidence => ReplayInv
  BY DEF InitEvidence, ReplayInv
<1>2. ReplayInv /\ [NextEvidence]_evidenceVars => ReplayInv'
  BY NextKeepsReplay
<1>3. ReplayInv => FullReplayProvesTraining
  <2> SUFFICES ASSUME ReplayInv, stage = "accepted", {drawn[i] : i \in 1 .. Len(drawn)} = 1 .. Steps
               PROVE  /\ trace.to = Trained(head)[Steps]
                      /\ trace.chain = ChainOf(GradsOf(head))
    BY DEF FullReplayProvesTraining
  <2>1. head \in States /\ trace.from = head /\ trace.chain = [i \in 1 .. Steps |-> trace.chain[i]]
    BY DEF ReplayInv, IsRecord
  <2>2. \A j \in 1 .. Steps : Replayed(trace, witness, j)
    BY DEF ReplayInv
  <2> QED
    BY <2>1, <2>2, ReplayOfAllSteps
<1> QED
  BY <1>1, <1>2, <1>3, PTL DEF SpecEvidence

-----------------------------------------------------------------------------
(* Merkle proofs                                                            *)

\* What f is, if it is the levels over the leaves, the places of a leaf's ancestors,
\* or what a leaf and a proof hash to.
PairsUp(f, n, leaves) ==
  f = [k \in 0 .. n |-> IF k = 0 THEN leaves ELSE Paired(f[k - 1])]

Climbs(f, n, i) == f = [k \in 0 .. n |-> IF k = 0 THEN i ELSE f[k - 1] \div 2]

HashesUp(f, n, leaf, place, proof) ==
  f = [k \in 0 .. n |-> IF k = 0 THEN leaf ELSE Combine(place[k - 1], f[k - 1], proof[k])]

\* Trees, places and hashes exist of every size, as trainings do of every length.
LEMMA TreesExist ==
  ASSUME NEW leaves, NEW m \in Nat
  PROVE  \E f : PairsUp(f, m, leaves)
<1> DEFINE Bad == {n \in 0 .. m : ~ \E f : PairsUp(f, n, leaves)}
<1> SUFFICES ASSUME m \in Bad PROVE FALSE
  OBVIOUS
<1>1. PICK n \in Bad : \A u \in Bad : n <= u
  <2>1. Bad \subseteq 0 .. m /\ Bad # {}
    OBVIOUS
  <2> HIDE DEF Bad
  <2> QED
    BY <2>1, SmallestNumber
<1>2. n \in 0 .. m /\ ~ \E f : PairsUp(f, n, leaves)
  OBVIOUS
<1>3. n # 0
  <2> DEFINE f == [k \in 0 .. 0 |-> leaves]
  <2>1. PairsUp(f, 0, leaves)
    BY DEF PairsUp
  <2> QED
    BY <1>2, <2>1
<1>4. PICK g : PairsUp(g, n - 1, leaves)
  <2>1. n - 1 \in 0 .. m /\ ~(n <= n - 1)
    BY <1>2, <1>3
  <2> QED
    BY <1>1, <2>1
<1> DEFINE f == [k \in 0 .. n |-> IF k < n THEN g[k] ELSE Paired(g[n - 1])]
           F(k) == IF k = 0 THEN leaves ELSE Paired(f[k - 1])
<1>5. \A k \in 0 .. n - 1 : g[k] = IF k = 0 THEN leaves ELSE Paired(g[k - 1])
  BY <1>4 DEF PairsUp
<1>6. ASSUME NEW k \in 0 .. n
      PROVE  f[k] = F(k)
  <2>1. k # 0 => k - 1 \in 0 .. n /\ k - 1 < n /\ f[k - 1] = g[k - 1]
    BY <1>2
  <2>2. CASE k < n
    <3>1. k \in 0 .. n - 1 /\ f[k] = g[k]
      BY <1>2, <2>2
    <3> QED
      BY <1>5, <2>1, <3>1
  <2>3. CASE ~(k < n)
    <3>1. k = n
      BY <1>2, <2>3
    <3> QED
      BY <1>3, <2>1, <3>1
  <2> QED
    BY <2>2, <2>3
<1>7. PairsUp(f, n, leaves)
  <2>1. f = [k \in 0 .. n |-> f[k]]
    OBVIOUS
  <2> HIDE DEF f
  <2> QED
    BY <1>6, <2>1 DEF PairsUp
<1> QED
  BY <1>2, <1>7

LEMMA PlacesExist ==
  ASSUME NEW i, NEW m \in Nat
  PROVE  \E f : Climbs(f, m, i)
<1> DEFINE Bad == {n \in 0 .. m : ~ \E f : Climbs(f, n, i)}
<1> SUFFICES ASSUME m \in Bad PROVE FALSE
  OBVIOUS
<1>1. PICK n \in Bad : \A u \in Bad : n <= u
  <2>1. Bad \subseteq 0 .. m /\ Bad # {}
    OBVIOUS
  <2> HIDE DEF Bad
  <2> QED
    BY <2>1, SmallestNumber
<1>2. n \in 0 .. m /\ ~ \E f : Climbs(f, n, i)
  OBVIOUS
<1>3. n # 0
  <2> DEFINE f == [k \in 0 .. 0 |-> i]
  <2>1. Climbs(f, 0, i)
    BY DEF Climbs
  <2> QED
    BY <1>2, <2>1
<1>4. PICK g : Climbs(g, n - 1, i)
  <2>1. n - 1 \in 0 .. m /\ ~(n <= n - 1)
    BY <1>2, <1>3
  <2> QED
    BY <1>1, <2>1
<1> DEFINE f == [k \in 0 .. n |-> IF k < n THEN g[k] ELSE g[n - 1] \div 2]
           F(k) == IF k = 0 THEN i ELSE f[k - 1] \div 2
<1>5. \A k \in 0 .. n - 1 : g[k] = IF k = 0 THEN i ELSE g[k - 1] \div 2
  BY <1>4 DEF Climbs
<1>6. ASSUME NEW k \in 0 .. n
      PROVE  f[k] = F(k)
  <2>1. k # 0 => k - 1 \in 0 .. n /\ k - 1 < n /\ f[k - 1] = g[k - 1]
    BY <1>2
  <2>2. CASE k < n
    <3>1. k \in 0 .. n - 1 /\ f[k] = g[k]
      BY <1>2, <2>2
    <3> QED
      BY <1>5, <2>1, <3>1
  <2>3. CASE ~(k < n)
    <3>1. k = n
      BY <1>2, <2>3
    <3> QED
      BY <1>3, <2>1, <3>1
  <2> QED
    BY <2>2, <2>3
<1>7. Climbs(f, n, i)
  <2>1. f = [k \in 0 .. n |-> f[k]]
    OBVIOUS
  <2> HIDE DEF f
  <2> QED
    BY <1>6, <2>1 DEF Climbs
<1> QED
  BY <1>2, <1>7

LEMMA HashesExist ==
  ASSUME NEW leaf, NEW place, NEW proof, NEW m \in Nat
  PROVE  \E f : HashesUp(f, m, leaf, place, proof)
<1> DEFINE Bad == {n \in 0 .. m : ~ \E f : HashesUp(f, n, leaf, place, proof)}
<1> SUFFICES ASSUME m \in Bad PROVE FALSE
  OBVIOUS
<1>1. PICK n \in Bad : \A u \in Bad : n <= u
  <2>1. Bad \subseteq 0 .. m /\ Bad # {}
    OBVIOUS
  <2> HIDE DEF Bad
  <2> QED
    BY <2>1, SmallestNumber
<1>2. n \in 0 .. m /\ ~ \E f : HashesUp(f, n, leaf, place, proof)
  OBVIOUS
<1>3. n # 0
  <2> DEFINE f == [k \in 0 .. 0 |-> leaf]
  <2>1. HashesUp(f, 0, leaf, place, proof)
    BY DEF HashesUp
  <2> QED
    BY <1>2, <2>1
<1>4. PICK g : HashesUp(g, n - 1, leaf, place, proof)
  <2>1. n - 1 \in 0 .. m /\ ~(n <= n - 1)
    BY <1>2, <1>3
  <2> QED
    BY <1>1, <2>1
<1> DEFINE f == [k \in 0 .. n |-> IF k < n THEN g[k] ELSE Combine(place[n - 1], g[n - 1], proof[n])]
           F(k) == IF k = 0 THEN leaf ELSE Combine(place[k - 1], f[k - 1], proof[k])
<1>5. \A k \in 0 .. n - 1 : g[k] = IF k = 0 THEN leaf ELSE Combine(place[k - 1], g[k - 1], proof[k])
  BY <1>4 DEF HashesUp
<1>6. ASSUME NEW k \in 0 .. n
      PROVE  f[k] = F(k)
  <2>1. k # 0 => k - 1 \in 0 .. n /\ k - 1 < n /\ f[k - 1] = g[k - 1]
    BY <1>2
  <2>2. CASE k < n
    <3>1. k \in 0 .. n - 1 /\ f[k] = g[k]
      BY <1>2, <2>2
    <3> QED
      BY <1>5, <2>1, <3>1
  <2>3. CASE ~(k < n)
    <3>1. k = n
      BY <1>2, <2>3
    <3> QED
      BY <1>3, <2>1, <3>1
  <2> QED
    BY <2>2, <2>3
<1>7. HashesUp(f, n, leaf, place, proof)
  <2>1. f = [k \in 0 .. n |-> f[k]]
    OBVIOUS
  <2> HIDE DEF f
  <2> QED
    BY <1>6, <2>1 DEF HashesUp
<1> QED
  BY <1>2, <1>7

\* What they are, level by level.
LEMMA TreeUnfolds ==
  ASSUME NEW leaves, Len(leaves) \in Nat
  PROVE  /\ BuildTree(leaves)[0] = leaves
         /\ \A k \in 1 .. Len(leaves) :
              BuildTree(leaves)[k] = Paired(BuildTree(leaves)[k - 1])
<1> DEFINE T == BuildTree(leaves)
<1>1. T = CHOOSE f : PairsUp(f, Len(leaves), leaves)
  BY DEF BuildTree, PairsUp
<1>2. PairsUp(T, Len(leaves), leaves)
  <2> HIDE DEF T
  <2> QED
    BY <1>1, TreesExist
<1> HIDE DEF T
<1>3. T[0] = leaves /\ \A k \in 1 .. Len(leaves) : T[k] = Paired(T[k - 1])
  BY <1>2 DEF PairsUp
<1> QED
  BY <1>3 DEF T

LEMMA PlacesUnfold ==
  ASSUME NEW i, NEW h \in Nat
  PROVE  /\ PlacesOf(i, h)[0] = i
         /\ \A k \in 1 .. h : PlacesOf(i, h)[k] = PlacesOf(i, h)[k - 1] \div 2
<1> DEFINE P == PlacesOf(i, h)
<1>1. P = CHOOSE f : Climbs(f, h, i)
  BY DEF PlacesOf, Climbs
<1>2. Climbs(P, h, i)
  <2> HIDE DEF P
  <2> QED
    BY <1>1, PlacesExist
<1> HIDE DEF P
<1>3. P[0] = i /\ \A k \in 1 .. h : P[k] = P[k - 1] \div 2
  BY <1>2 DEF Climbs
<1> QED
  BY <1>3 DEF P

LEMMA HashesUnfold ==
  ASSUME NEW leaf, NEW i, NEW proof, Len(proof) \in Nat
  PROVE  LET hash == Hashed(leaf, i, proof)
             place == PlacesOf(i, Len(proof))
         IN  /\ hash[0] = leaf
             /\ \A k \in 1 .. Len(proof) :
                  hash[k] = Combine(place[k - 1], hash[k - 1], proof[k])
<1> DEFINE h == Hashed(leaf, i, proof)
           place == PlacesOf(i, Len(proof))
<1>1. h = CHOOSE f : HashesUp(f, Len(proof), leaf, place, proof)
  BY DEF Hashed, HashesUp
<1> HIDE DEF place
<1>2. HashesUp(h, Len(proof), leaf, place, proof)
  <2> HIDE DEF h
  <2> QED
    BY <1>1, HashesExist
<1> HIDE DEF h
<1>3. h[0] = leaf /\ \A k \in 1 .. Len(proof) : h[k] = Combine(place[k - 1], h[k - 1], proof[k])
  BY <1>2 DEF HashesUp
<1> QED
  BY <1>3 DEF h, place

\* A level that is not the root alone is longer than the next, so that the tree has one.
LEMMA LevelsShrink ==
  ASSUME NEW leaves, Len(leaves) \in Nat \ {0}, NEW k \in 0 .. Len(leaves)
  PROVE  LET w == Len(BuildTree(leaves)[k])
         IN  w \in Nat \ {0} /\ (w = 1 \/ w + k <= Len(leaves))
<1> DEFINE n == Len(leaves)
           T == BuildTree(leaves)
           Good(j) == Len(T[j]) \in Nat \ {0} /\ (Len(T[j]) = 1 \/ Len(T[j]) + j <= n)
           Bad == {j \in 0 .. n : ~Good(j)}
<1>1. n \in Nat \ {0} /\ T[0] = leaves /\ \A j \in 1 .. n : T[j] = Paired(T[j - 1])
  BY TreeUnfolds
<1>2. Len(T[0]) = n
  BY <1>1
<1> HIDE DEF T, n
<1>3. Bad = {}
  <2> SUFFICES ASSUME Bad # {} PROVE FALSE
    OBVIOUS
  <2>1. PICK j \in Bad : \A u \in Bad : j <= u
    <3>1. Bad \subseteq 0 .. n
      OBVIOUS
    <3> HIDE DEF Bad
    <3> QED
      BY <1>1, <3>1, SmallestNumber
  <2>2. j \in 0 .. n /\ ~Good(j)
    OBVIOUS
  <2>3. j # 0
    BY <1>1, <1>2, <2>2
  <2>4. Good(j - 1)
    <3>1. j - 1 \in 0 .. n /\ ~(j <= j - 1)
      BY <1>1, <2>2, <2>3
    <3> QED
      BY <2>1, <3>1
  <2> DEFINE w == Len(T[j - 1])
             half == (w + 1) \div 2
  <2>5. half \in Nat \ {0} /\ (half = 1 \/ half <= w - 1)
    <3>1. w \in Nat \ {0}
      BY <2>4
    <3> HIDE DEF w
    <3> QED
      BY <3>1
  <2>6. Len(T[j]) = half
    <3>1. T[j] = Paired(T[j - 1])
      BY <1>1, <2>2, <2>3
    <3> HIDE DEF w
    <3> QED
      BY <2>5, <3>1 DEF Paired, Half, w
  <2>7. half = 1 \/ half + j <= n
    <3>1. w \in Nat /\ (w = 1 \/ w + (j - 1) <= n) /\ j \in Nat /\ n \in Nat
      BY <1>1, <2>2, <2>4
    <3>2. w = 1 => half = 1
      OBVIOUS
    <3> HIDE DEF w
    <3> QED
      BY <2>5, <3>1, <3>2
  <2> QED
    BY <2>2, <2>5, <2>6, <2>7
<1> QED
  BY <1>3 DEF n, T

LEMMA TreeHasARoot ==
  ASSUME NEW leaves, Len(leaves) \in Nat \ {0}
  PROVE  /\ HeightOf(leaves) \in 0 .. Len(leaves)
         /\ Len(BuildTree(leaves)[HeightOf(leaves)]) = 1
<1> DEFINE n == Len(leaves)
           W(h) == Len(BuildTree(leaves)[h])
           S == {h \in 0 .. n : W(h) <= 1}
<1>1. \A h \in 0 .. n : W(h) \in Nat \ {0} /\ (W(h) = 1 \/ W(h) + h <= n)
  BY LevelsShrink
<1>2. HeightOf(leaves) = CHOOSE x \in S : \A y \in S : x <= y
  BY DEF HeightOf, Min
<1> HIDE DEF W
<1>3. n \in S
  BY <1>1
<1>4. \E x \in S : \A y \in S : x <= y
  <2>1. S \subseteq 0 .. n /\ S # {} /\ n \in Nat
    BY <1>3
  <2> HIDE DEF S, n
  <2> QED
    BY <2>1, SmallestNumber
<1>5. HeightOf(leaves) \in S
  <2> HIDE DEF S
  <2> QED
    BY <1>2, <1>4
<1>6. HeightOf(leaves) \in 0 .. n /\ W(HeightOf(leaves)) = 1
  BY <1>1, <1>5
<1> QED
  BY <1>6 DEF W

\* A leaf's ancestors are nodes of their levels.
LEMMA PlacesAreNodes ==
  ASSUME NEW leaves, Len(leaves) \in Nat \ {0}, NEW i \in 0 .. Len(leaves) - 1,
         NEW h \in 0 .. Len(leaves), NEW k \in 0 .. h
  PROVE  PlacesOf(i, h)[k] \in 0 .. Len(BuildTree(leaves)[k]) - 1
<1> DEFINE n == Len(leaves)
           T == BuildTree(leaves)
           P == PlacesOf(i, h)
           Good(j) == P[j] \in 0 .. Len(T[j]) - 1
           Bad == {j \in 0 .. h : ~Good(j)}
<1>1. /\ n \in Nat \ {0} /\ h \in Nat /\ h <= n
      /\ T[0] = leaves /\ \A j \in 1 .. n : T[j] = Paired(T[j - 1])
  BY TreeUnfolds
<1>2. P[0] = i /\ \A j \in 1 .. h : P[j] = P[j - 1] \div 2
  BY <1>1, PlacesUnfold
<1>3. Good(0)
  BY <1>1, <1>2
<1>4. \A j \in 0 .. n : Len(T[j]) \in Nat \ {0}
  BY LevelsShrink
<1> HIDE DEF T, P, n
<1>5. Bad = {}
  <2> SUFFICES ASSUME Bad # {} PROVE FALSE
    OBVIOUS
  <2>1. PICK j \in Bad : \A u \in Bad : j <= u
    <3>1. Bad \subseteq 0 .. h
      OBVIOUS
    <3> HIDE DEF Bad
    <3> QED
      BY <1>1, <3>1, SmallestNumber
  <2>2. j \in 0 .. h /\ ~Good(j) /\ j # 0
    BY <1>3
  <2>3. j \in 1 .. n /\ j \in 1 .. h /\ j - 1 \in 0 .. h /\ j - 1 \in 0 .. n /\ ~(j <= j - 1)
    BY <1>1, <2>2
  <2>4. Good(j - 1)
    BY <2>1, <2>3
  <2> DEFINE w == Len(T[j - 1])
             at == P[j - 1]
  <2>5. w \in Nat \ {0} /\ at \in 0 .. w - 1
    BY <1>4, <2>3, <2>4
  <2>6. P[j] = at \div 2
    BY <1>2, <2>3
  <2>7. Len(T[j]) = (w + 1) \div 2
    <3>1. T[j] = Paired(T[j - 1])
      BY <1>1, <2>3
    <3>2. (w + 1) \div 2 \in Nat
      <4> HIDE DEF w
      <4> QED
        BY <2>5
    <3> HIDE DEF w
    <3> QED
      BY <3>1, <3>2 DEF Paired, Half, w
  <2>8. at \div 2 \in 0 .. (w + 1) \div 2 - 1
    <3> HIDE DEF w, at
    <3> QED
      BY <2>5
  <2> QED
    BY <2>2, <2>6, <2>7, <2>8
<1> QED
  BY <1>5 DEF T, P

\* A node is the hash of the node below it and that node's sibling, on the right side.
LEMMA SiblingsCombine ==
  ASSUME NEW level, Len(level) \in Nat \ {0}, NEW j \in 0 .. Len(level) - 1
  PROVE  LET sibling == IF Sibling(j) < Len(level) THEN level[Sibling(j) + 1]
                        ELSE level[j + 1]
         IN  Paired(level)[j \div 2 + 1] = Combine(j, level[j + 1], sibling)
<1> DEFINE w == Len(level)
           q == j \div 2
           sibling == IF Sibling(j) < w THEN level[Sibling(j) + 1] ELSE level[j + 1]
<1>1. w \in Nat \ {0} /\ j \in 0 .. w - 1
  OBVIOUS
<1>2. q + 1 \in 1 .. (w + 1) \div 2
  <2> HIDE DEF w
  <2> QED
    BY <1>1
<1>3. Paired(level)[q + 1] =
        <<level[2 * (q + 1) - 1], IF 2 * (q + 1) <= w THEN level[2 * (q + 1)] ELSE level[2 * (q + 1) - 1]>>
  <2> HIDE DEF q
  <2> QED
    BY <1>2 DEF Paired, Half
<1>4. CASE j % 2 = 0
  <2>1. 2 * (q + 1) - 1 = j + 1 /\ 2 * (q + 1) = j + 2 /\ (j + 2 <= w <=> j + 1 < w)
    <3> HIDE DEF w
    <3> QED
      BY <1>1, <1>4
  <2>2. sibling = IF j + 1 < w THEN level[j + 2] ELSE level[j + 1]
    BY <1>1, <1>4 DEF Sibling
  <2>3. Paired(level)[q + 1] = <<level[j + 1], IF j + 1 < w THEN level[j + 2] ELSE level[j + 1]>>
    <3> HIDE DEF q, w
    <3> QED
      BY <1>3, <2>1
  <2>4. Combine(j, level[j + 1], sibling) = <<level[j + 1], sibling>>
    BY <1>4 DEF Combine
  <2> QED
    BY <2>2, <2>3, <2>4
<1>5. CASE j % 2 # 0
  <2>1. 2 * (q + 1) - 1 = j /\ 2 * (q + 1) = j + 1 /\ j + 1 <= w /\ j - 1 < w /\ j - 1 + 1 = j
    <3> HIDE DEF w
    <3> QED
      BY <1>1, <1>5
  <2>2. sibling = level[j]
    BY <1>5, <2>1 DEF Sibling
  <2>3. Paired(level)[q + 1] = <<level[j], level[j + 1]>>
    <3> HIDE DEF q, w
    <3> QED
      BY <1>3, <2>1
  <2>4. Combine(j, level[j + 1], sibling) = <<sibling, level[j + 1]>>
    BY <1>5 DEF Combine
  <2> QED
    BY <2>2, <2>3, <2>4
<1> QED
  BY <1>4, <1>5

\* Two hashes of a node with one sibling on one side are equal only if the nodes are.
LEMMA CombineBinds ==
  ASSUME NEW j, NEW a, NEW b, NEW sibling
  PROVE  Combine(j, a, sibling) = Combine(j, b, sibling) <=> a = b
BY DEF Combine

\* A proof leads from its leaf to the root, and from nothing else in that place.
LEMMA ProofsBind ==
  ASSUME NEW leaves, Len(leaves) \in Nat \ {0}, NEW i \in 0 .. Len(leaves) - 1, NEW leaf
  PROVE  VerifyProof(leaf, i, GetProof(leaves, i), GetRoot(leaves))
           <=> leaf = leaves[i + 1]
<1> DEFINE n == Len(leaves)
           T == BuildTree(leaves)
           h == HeightOf(leaves)
           P == PlacesOf(i, h)
           proof == GetProof(leaves, i)
           hash == Hashed(leaf, i, proof)
           Good(k) == hash[k] = T[k][P[k] + 1] <=> leaf = leaves[i + 1]
           Bad == {k \in 0 .. h : ~Good(k)}
           Node(k) ==
             LET level == T[k - 1]
                 j == P[k - 1]
             IN  IF Sibling(j) < Len(level) THEN level[Sibling(j) + 1] ELSE level[j + 1]
<1>1. /\ n \in Nat \ {0} /\ h \in 0 .. n /\ Len(T[h]) = 1
      /\ T[0] = leaves /\ \A k \in 1 .. n : T[k] = Paired(T[k - 1])
  BY TreeUnfolds, TreeHasARoot
<1>2. h \in Nat /\ h <= n
  <2> HIDE DEF h, n
  <2> QED
    BY <1>1
<1>3. P[0] = i /\ \A k \in 1 .. h : P[k] = P[k - 1] \div 2
  BY <1>2, PlacesUnfold
<1>4. \A k \in 0 .. n : Len(T[k]) \in Nat \ {0}
  BY LevelsShrink
<1>5. \A k \in 0 .. h : P[k] \in 0 .. Len(T[k]) - 1
  BY <1>1, PlacesAreNodes
<1>6. proof = [k \in 1 .. h |-> Node(k)]
  BY DEF GetProof
<1>7. Len(proof) = h /\ \A k \in 1 .. h : proof[k] = Node(k)
  <2> HIDE DEF proof, h, Node
  <2> QED
    BY <1>2, <1>6
<1>8. hash[0] = leaf /\ \A k \in 1 .. h : hash[k] = Combine(P[k - 1], hash[k - 1], proof[k])
  <2>1. Len(proof) \in Nat
    BY <1>2, <1>7
  <2> HIDE DEF proof
  <2> QED
    BY <1>7, <2>1, HashesUnfold
<1> HIDE DEF n, T, h, P, proof, hash
<1>9. Good(0)
  BY <1>1, <1>3, <1>8
<1>10. ASSUME NEW k \in 1 .. h, Good(k - 1)
       PROVE  Good(k)
  <2> DEFINE level == T[k - 1]
             j == P[k - 1]
  <2>1. k - 1 \in 0 .. h /\ k - 1 \in 0 .. n /\ k \in 1 .. n
    BY <1>1, <1>2
  <2>2. Len(level) \in Nat \ {0} /\ j \in 0 .. Len(level) - 1
    BY <1>4, <1>5, <2>1
  <2>3. T[k] = Paired(level) /\ P[k] = j \div 2
    BY <1>1, <1>3, <2>1
  <2>4. hash[k] = Combine(j, hash[k - 1], Node(k))
    BY <1>7, <1>8
  <2>5. Paired(level)[j \div 2 + 1] = Combine(j, level[j + 1], Node(k))
    <3> HIDE DEF level, j
    <3>1. Paired(level)[j \div 2 + 1] =
            Combine(j, level[j + 1],
              IF Sibling(j) < Len(level) THEN level[Sibling(j) + 1] ELSE level[j + 1])
      BY <2>2, SiblingsCombine
    <3> QED
      BY <3>1 DEF level, j
  <2> HIDE DEF Node
  <2> QED
    BY <1>10, <2>3, <2>4, <2>5, CombineBinds
<1>11. Bad = {}
  <2> SUFFICES ASSUME Bad # {} PROVE FALSE
    OBVIOUS
  <2>1. PICK k \in Bad : \A u \in Bad : k <= u
    <3>1. Bad \subseteq 0 .. h
      OBVIOUS
    <3> HIDE DEF Bad
    <3> QED
      BY <1>2, <3>1, SmallestNumber
  <2>2. k \in 0 .. h /\ ~Good(k) /\ k # 0
    BY <1>9
  <2>3. k \in 1 .. h /\ k - 1 \in 0 .. h /\ ~(k <= k - 1)
    BY <1>2, <2>2
  <2>4. Good(k - 1)
    BY <2>1, <2>3
  <2> QED
    BY <1>10, <2>2, <2>3, <2>4
<1>12. hash[h] = T[h][1] <=> leaf = leaves[i + 1]
  <2>1. h \in 0 .. h
    BY <1>2
  <2>2. P[h] = 0
    <3>1. P[h] \in 0 .. Len(T[h]) - 1 /\ Len(T[h]) = 1
      BY <1>1, <1>5, <2>1
    <3> QED
      BY <3>1
  <2>3. Good(h)
    BY <1>11, <2>1
  <2> QED
    BY <2>2, <2>3
<1>13. VerifyProof(leaf, i, proof, GetRoot(leaves)) <=> hash[h] = T[h][1]
  BY <1>7 DEF VerifyProof, GetRoot, hash, T, h
<1> QED
  BY <1>12, <1>13 DEF proof

LEMMA EveryLayerIsProven == States \subseteq ProvenLayers
<1> DEFINE leaves(x) == Commitment(Weights[x], Shapes)
<1> SUFFICES ASSUME NEW s \in States, NEW x \in States, NEW i \in 0 .. Len(Shapes) - 1
             PROVE  VerifyProof(leaves(x)[i + 1], i, GetProof(leaves(s), i),
                                         GetRoot(leaves(s)))
                      <=> leaves(x)[i + 1] = leaves(s)[i + 1]
  BY DEF ProvenLayers
<1>1. Len(Shapes) \in Nat
  BY RecordConstants
<1>2. Len(leaves(s)) = Len(Shapes)
  BY <1>1 DEF LayerHashes, Commitment
<1> HIDE DEF leaves
<1>3. Len(leaves(s)) \in Nat \ {0} /\ i \in 0 .. Len(leaves(s)) - 1
  BY <1>1, <1>2
<1> QED
  BY <1>3, ProofsBind

(* A Merkle proof of a layer of the model that a block commits to leads to  *)
(* its root, and one of any other model's layer in that place does not, for *)
(* any number of layers of any size (get_proof, verify_proof).              *)
THEOREM LayersSafe == SpecEvidence => []ProofsBindLayers
<1>1. InitEvidence => ReplayInv
  BY DEF InitEvidence, ReplayInv
<1>2. ReplayInv /\ [NextEvidence]_evidenceVars => ReplayInv'
  BY NextKeepsReplay
<1>3. ReplayInv => ProofsBindLayers
  BY EveryLayerIsProven DEF ReplayInv, IsRecord, ProofsBindLayers
<1> QED
  BY <1>1, <1>2, <1>3, PTL DEF SpecEvidence

-----------------------------------------------------------------------------
(* Honest records                                                           *)

LEMMA MinOfTwo ==
  ASSUME NEW a \in Int, NEW b \in Int
  PROVE  Min({a, b}) = IF a <= b THEN a ELSE b
<1> DEFINE m == IF a <= b THEN a ELSE b
<1>1. m \in {a, b} /\ \A y \in {a, b} : m <= y
  OBVIOUS
<1>2. \A x \in {a, b} : (\A y \in {a, b} : x <= y) => x = m
  OBVIOUS
<1> HIDE DEF m
<1>3. Min({a, b}) = m
  BY <1>1, <1>2 DEF Min
<1> QED
  BY <1>3 DEF m

\* Quantised weights are levels.
LEMMA LevelsAreIntegers ==
  ASSUME NEW ws \in Seq(Int), NEW i \in 1 .. Len(ws)
  PROVE  QuantizeWeights(ws)[i] \in Int
<1> DEFINE sizes == {Abs(ws[k]) : k \in 1 .. Len(ws)}
           wmax == Max(sizes)
           level == IF wmax > 0 THEN RoundedDiv(7 * ws[i], wmax) ELSE ws[i]
<1>1. wmax \in Int
  <2> DEFINE f == [k \in 1 .. Len(ws) |-> Abs(ws[k])]
  <2>1. /\ IsFiniteSet(1 .. Len(ws)) /\ 1 .. Len(ws) # {}
        /\ \A k \in 1 .. Len(ws) : f[k] = Abs(ws[k]) /\ f[k] \in Int
    <3>1. Len(ws) \in Int
      OBVIOUS
    <3>2. IsFiniteSet(1 .. Len(ws))
      BY <3>1, FS_Interval
    <3>3. \A k \in 1 .. Len(ws) : f[k] = Abs(ws[k]) /\ ws[k] \in Int
      OBVIOUS
    <3>4. \A k \in 1 .. Len(ws) : Abs(ws[k]) \in Int
      BY <3>3 DEF Abs
    <3> QED
      BY <3>2, <3>3, <3>4
  <2> HIDE DEF f
  <2>2. PICK m \in 1 .. Len(ws) : \A k \in 1 .. Len(ws) : f[k] <= f[m]
    BY <2>1, GreatestExists
  <2>3. f[m] \in sizes /\ sizes \subseteq Int /\ \A y \in sizes : f[m] >= y
    BY <2>1, <2>2
  <2> HIDE DEF sizes
  <2>4. wmax \in sizes
    BY <2>3 DEF Max
  <2> QED
    BY <2>3, <2>4
<1>2. QuantizeWeights(ws)[i] = Max({-8, Min({7, level})})
  BY DEF QuantizeWeights
<1> HIDE DEF wmax
<1>3. level \in Int
  <2>1. ws[i] \in Int
    OBVIOUS
  <2>2. wmax > 0 => (7 * ws[i]) \div wmax \in Int
    BY <1>1, <2>1
  <2> QED
    BY <2>1, <2>2 DEF RoundedDiv
<1> HIDE DEF level
<1>4. Min({7, level}) \in Int
  BY <1>3, MinOfTwo
<1>5. Max({-8, Min({7, level})}) \in Int
  <2> DEFINE z == Min({7, level})
             low == -8
  <2>1. low \in Int
    OBVIOUS
  <2> HIDE DEF z, low
  <2>2. Max({low, z}) = IF low >= z THEN low ELSE z
    BY <1>4, <2>1, MaxOfTwo DEF z
  <2>3. Max({low, z}) \in Int
    BY <1>4, <2>1, <2>2 DEF z
  <2> QED
    BY <2>3 DEF z, low
<1> QED
  BY <1>2, <1>5

\* Levels are as close to themselves as a verifier may ask.
LEMMA CloseToItself ==
  ASSUME NEW u, NEW a \in Int, NEW b \in Int, a <= b + 1, \A i \in a .. b : u[i] \in Int,
         Tolerance \in Nat
  PROVE  Close(u, u, a, b)
<1> DEFINE f == [i \in a .. b |-> (u[i] - u[i]) * (u[i] - u[i])]
<1>1. IsFiniteSet(a .. b)
  BY FS_Interval
<1>2. \A i \in a .. b : f[i] = 0
  OBVIOUS
<1>3. Tolerance * (b - a + 1) >= 0
  <2>1. b - a + 1 \in Nat
    OBVIOUS
  <2> QED
    BY <2>1
<1>4. Close(u, u, a, b) <=> SumFunctionOnSet(f, a .. b) <= Tolerance * (b - a + 1)
  BY DEF Close
<1> HIDE DEF f
<1>5. SumFunctionOnSet(f, a .. b) = 0
  BY <1>1, <1>2, SumZero
<1> QED
  BY <1>3, <1>4, <1>5

LEMMA LayersAreIntervals ==
  ASSUME NEW l \in DOMAIN Shapes
  PROVE  /\ LayerStart(Shapes, l) \in Nat \ {0} /\ LayerEnd(Shapes, l) \in Int
         /\ LayerStart(Shapes, l) <= LayerEnd(Shapes, l) + 1
<1>1. Shapes \in Seq(Nat) /\ l \in 1 .. Len(Shapes)
  BY RecordConstants
<1> DEFINE n == SumFunctionOnSet(Shapes, 1 .. l - 1)
<1>2. n \in Nat
  <2>1. IsFiniteSet(1 .. l - 1)
    BY <1>1, FS_Interval
  <2>2. \A i \in 1 .. l - 1 : Shapes[i] \in Nat
    BY <1>1
  <2> QED
    BY <2>1, <2>2, SumNat
<1>3. LayerStart(Shapes, l) = 1 + n
  BY DEF LayerStart
<1> HIDE DEF n
<1>4. Shapes[l] \in Nat
  BY <1>1
<1> QED
  BY <1>2, <1>3, <1>4 DEF LayerEnd

\* Trees over as many leaves grow alike, and where the first leaves differ so do the
\* first nodes of every level.
LEMMA PairedAbreast ==
  ASSUME NEW u, NEW v, Len(u) \in Nat \ {0}, Len(v) = Len(u), u[1] # v[1]
  PROVE  Len(Paired(u)) = Len(Paired(v)) /\ Paired(u)[1] # Paired(v)[1]
<1> DEFINE n == Len(u)
           half == (n + 1) \div 2
           second(w) == IF 2 <= n THEN w[2] ELSE w[1]
<1>1. half \in Nat \ {0} /\ 1 \in 1 .. half
  <2>1. n \in Nat \ {0}
    OBVIOUS
  <2> HIDE DEF n
  <2> QED
    BY <2>1
<1>2. Paired(u) = [i \in 1 .. half |-> <<u[2 * i - 1], IF 2 * i <= n THEN u[2 * i] ELSE u[2 * i - 1]>>]
  BY DEF Paired, Half
<1>3. Paired(v) = [i \in 1 .. half |-> <<v[2 * i - 1], IF 2 * i <= n THEN v[2 * i] ELSE v[2 * i - 1]>>]
  BY DEF Paired, Half
<1> HIDE DEF half, n
<1>4. Len(Paired(u)) = half /\ Len(Paired(v)) = half
  BY <1>1, <1>2, <1>3
<1>5. Paired(u)[1] = <<u[1], second(u)>> /\ Paired(v)[1] = <<v[1], second(v)>>
  BY <1>1, <1>2, <1>3
<1> HIDE DEF second
<1>6. Paired(u)[1] # Paired(v)[1]
  BY <1>5
<1> QED
  BY <1>4, <1>6

LEMMA TreesAbreast ==
  ASSUME NEW u, NEW v, Len(u) \in Nat \ {0}, Len(v) = Len(u), u[1] # v[1],
         NEW k \in 0 .. Len(u)
  PROVE  /\ Len(BuildTree(u)[k]) = Len(BuildTree(v)[k])
         /\ BuildTree(u)[k][1] # BuildTree(v)[k][1]
<1> DEFINE n == Len(u)
           U == BuildTree(u)
           V == BuildTree(v)
           Good(j) == Len(U[j]) = Len(V[j]) /\ U[j][1] # V[j][1]
           Bad == {j \in 0 .. n : ~Good(j)}
<1>1. /\ n \in Nat \ {0} /\ U[0] = u /\ V[0] = v
      /\ \A j \in 1 .. n : U[j] = Paired(U[j - 1]) /\ V[j] = Paired(V[j - 1])
  BY TreeUnfolds
<1>2. \A j \in 0 .. n : Len(U[j]) \in Nat \ {0}
  BY LevelsShrink
<1>3. Good(0)
  BY <1>1
<1> HIDE DEF U, V, n
<1>4. Bad = {}
  <2> SUFFICES ASSUME Bad # {} PROVE FALSE
    OBVIOUS
  <2>1. PICK j \in Bad : \A i \in Bad : j <= i
    <3>1. Bad \subseteq 0 .. n
      OBVIOUS
    <3> HIDE DEF Bad
    <3> QED
      BY <1>1, <3>1, SmallestNumber
  <2>2. j \in 0 .. n /\ ~Good(j)
    OBVIOUS
  <2>3. j # 0
    BY <1>3, <2>2
  <2>4. j \in 1 .. n /\ j - 1 \in 0 .. n /\ ~(j <= j - 1)
    BY <1>1, <2>2, <2>3
  <2>5. Good(j - 1)
    BY <2>1, <2>4
  <2>6. U[j] = Paired(U[j - 1]) /\ V[j] = Paired(V[j - 1]) /\ Len(U[j - 1]) \in Nat \ {0}
    BY <1>1, <1>2, <2>4
  <2>7. Good(j)
    BY <2>5, <2>6, PairedAbreast
  <2> QED
    BY <2>2, <2>7
<1> QED
  BY <1>4 DEF n, U, V

LEMMA RootsDiffer ==
  ASSUME NEW u, NEW v, Len(u) \in Nat \ {0}, Len(v) = Len(u), u[1] # v[1]
  PROVE  GetRoot(u) # GetRoot(v)
<1> DEFINE S(w) == {h \in 0 .. Len(w) : Len(BuildTree(w)[h]) <= 1}
<1>1. \A h \in 0 .. Len(u) : Len(BuildTree(u)[h]) = Len(BuildTree(v)[h])
  BY TreesAbreast
<1>2. S(u) = S(v)
  BY <1>1
<1>3. HeightOf(u) = Min(S(u)) /\ HeightOf(v) = Min(S(v))
  BY DEF HeightOf
<1> HIDE DEF S
<1>4. HeightOf(v) = HeightOf(u)
  BY <1>2, <1>3
<1>5. HeightOf(u) \in 0 .. Len(u)
  BY TreeHasARoot
<1> QED
  BY <1>4, <1>5, TreesAbreast DEF GetRoot

\* The root that a state's commitment has is that of its 32-bit model, by definition, and
\* not that of its 64-bit weights, whose layers are other bytes.
LEMMA RootOfTheDownload ==
  ASSUME NEW s \in States
  PROVE  /\ VerifyMerkleRoot(Download(s), Shapes, RootOf(s))
         /\ ~VerifyMerkleRoot(Float64(Weights[s]), Shapes, RootOf(s))
<1> DEFINE ws == Weights[s]
           wide == LayerHashes(Float64(ws), Shapes)
           cast == LayerHashes(AsFloat32(Float64(ws)), Shapes)
<1>1. RootOf(s) = GetRoot(cast)
  BY DEF RootOf, Commitment
<1>2. VerifyMerkleRoot(Download(s), Shapes, RootOf(s))
  BY <1>1 DEF VerifyMerkleRoot, Download
<1>3. Len(Shapes) \in Nat \ {0} /\ 1 \in 1 .. Len(Shapes)
  BY RecordConstants
<1>4. Len(wide) = Len(Shapes) /\ Len(cast) = Len(Shapes)
  BY <1>3 DEF LayerHashes
<1>5. wide[1].bits = 64 /\ cast[1].bits = 32
  BY <1>3 DEF LayerHashes, Float64, AsFloat32
<1>6. VerifyMerkleRoot(Float64(ws), Shapes, RootOf(s)) <=> GetRoot(wide) = GetRoot(cast)
  BY <1>1 DEF VerifyMerkleRoot
<1> HIDE DEF wide, cast
<1>7. wide[1] # cast[1]
  BY <1>5
<1>8. GetRoot(wide) # GetRoot(cast)
  BY <1>3, <1>4, <1>7, RootsDiffer
<1> QED
  BY <1>2, <1>6, <1>8

\* A model of exact weights that is published with its own commitments passes their checks.
LEMMA CommittedToItself ==
  ASSUME NEW t, t.model \in States, t.committed = t.model, Exact(t.model)
  PROVE  Committed(t)
<1> DEFINE ws == Weights[t.model]
           levels == QuantizeWeights(ws)
<1>1. ws \in Seq(Int) /\ Tolerance \in Nat
  BY RecordConstants
<1>2. Download(t.model).weights = ws
  <2>1. ws = [i \in 1 .. Len(ws) |-> ws[i]]
    <3> HIDE DEF ws
    <3> QED
      BY <1>1
  <2>2. Download(t.model).weights = [i \in 1 .. Len(ws) |-> Single(ws[i])]
    BY DEF Download, AsFloat32, Float64
  <2> QED
    BY <2>1, <2>2 DEF Exact
<1>3. \A i \in 1 .. Len(ws) : levels[i] \in Int
  BY <1>1, LevelsAreIntegers
<1> HIDE DEF levels
<1>4. Close(levels, levels, 1, Len(ws))
  <2>1. Len(ws) \in Int /\ 1 <= Len(ws) + 1
    BY <1>1
  <2> DEFINE n == Len(ws)
  <2>2. \A i \in 1 .. n : levels[i] \in Int
    BY <1>3
  <2> HIDE DEF ws, n
  <2>3. n \in Int /\ 1 \in Int /\ 1 <= n + 1
    BY <2>1 DEF n
  <2>4. Close(levels, levels, 1, n)
    <3>1. Tolerance \in Nat
      BY <1>1
    <3> QED
      BY ONLY <2>2, <2>3, <3>1, CloseToItself
  <2> QED
    BY <2>4 DEF n
<1>5. ASSUME NEW l \in DOMAIN Shapes
      PROVE  /\ LayerEnd(Shapes, l) <= Len(ws)
             /\ Close(levels, levels, LayerStart(Shapes, l), LayerEnd(Shapes, l))
  <2> DEFINE a == LayerStart(Shapes, l)
             b == LayerEnd(Shapes, l)
  <2>1. a \in Nat \ {0} /\ b \in Int /\ a <= b + 1
    BY LayersAreIntervals
  <2>2. b <= Len(ws)
    BY RecordConstants
  <2> HIDE DEF a, b
  <2>3. \A i \in a .. b : levels[i] \in Int
    <3>1. Len(ws) \in Nat
      BY <1>1
    <3> QED
      BY <1>3, <2>1, <2>2, <3>1
  <2>4. Close(levels, levels, a, b)
    <3>1. a \in Int /\ b \in Int /\ a <= b + 1
      BY <2>1
    <3>2. Tolerance \in Nat
      BY <1>1
    <3> QED
      BY ONLY <2>3, <3>1, <3>2, CloseToItself
  <2> QED
    BY <2>2, <2>4 DEF a, b
<1>6. VerifyQuantization(ws, levels, Shapes, DOMAIN Shapes)
  BY <1>4, <1>5 DEF VerifyQuantization, levels
<1>7. VerifyMerkleRoot(Download(t.model), Shapes, RootOf(t.committed))
  BY RootOfTheDownload
<1> QED
  BY <1>2, <1>6, <1>7 DEF Committed, levels

\* The trainer's own record is well formed and commits to its result, in 32 bits.
LEMMA HonestIsWellRecorded ==
  ASSUME NEW s \in States
  PROVE  s \in WellRecorded
<1> SUFFICES ASSUME NEW curve \in Curves
             PROVE  LET t == HonestTrace(s, curve)
                    IN  /\ Structural(t, s)
                        /\ VerifyMerkleRoot(Download(t.model), Shapes, RootOf(t.committed))
                        /\ ~VerifyMerkleRoot(Float64(Weights[t.model]), Shapes, RootOf(t.committed))
                        /\ Exact(t.model) => Committed(t)
  BY DEF WellRecorded
<1> DEFINE t == HonestTrace(s, curve)
           G == GradsOf(s)
           last == Trained(s)[Steps]
           S == Int \cup {NaN}
<1>1. Steps \in Nat \ {0} /\ Len(G) = Steps /\ last \in States
  <2>1. Steps \in Nat \ {0} /\ Steps \in 0 .. Steps
    BY EvidenceConstants
  <2> QED
    BY <2>1, GradsTyped, TrainedUnfolds
<1>2. /\ t.from = s /\ t.to = last /\ t.model = last /\ t.committed = last
      /\ t.chain = ChainOf(G)
      /\ t.norms = [i \in 1 .. Steps |-> Abs(G[i])]
      /\ t.curve = [curve EXCEPT ![1] = Loss[s], ![Steps + 1] = Loss[last]]
  BY DEF HonestTrace
<1>3. Len(t.curve) = Steps + 1
  <2>1. curve \in [1 .. Steps + 1 -> S] /\ Loss[s] \in S /\ Loss[last] \in S
    BY <1>1, RecordConstants
  <2>2. t.curve \in [1 .. Steps + 1 -> S]
    BY <1>2, <2>1
  <2> HIDE DEF t, S
  <2> QED
    BY <1>1, <2>2
<1>4. Len(t.chain) = Steps
  <2>1. t.chain = [i \in 1 .. Steps |-> SubSeq(G, 1, i)]
    BY <1>1, <1>2 DEF ChainOf
  <2> HIDE DEF t, G
  <2> QED
    BY <1>1, <2>1
<1>5. Len(t.norms) = Steps
  <2> HIDE DEF t, G
  <2> QED
    BY <1>1, <1>2
<1>6. Structural(t, s)
  <2> HIDE DEF t
  <2> QED
    BY <1>2, <1>3, <1>4, <1>5 DEF Structural
<1>7. Exact(t.model) => Committed(t)
  <2> HIDE DEF t
  <2> QED
    BY <1>1, <1>2, CommittedToItself
<1>8. /\ VerifyMerkleRoot(Download(t.model), Shapes, RootOf(t.committed))
      /\ ~VerifyMerkleRoot(Float64(Weights[t.model]), Shapes, RootOf(t.committed))
  <2> HIDE DEF t
  <2> QED
    BY <1>1, <1>2, RootOfTheDownload
<1> HIDE DEF t
<1> QED
  BY <1>6, <1>7, <1>8 DEF t

\* And it passes the replay of every step.
LEMMA HonestReplays ==
  ASSUME NEW s \in States, NEW curve, NEW j \in 1 .. Steps
  PROVE  Replayed(HonestTrace(s, curve), HonestWitness(s), j)
<1> DEFINE t == HonestTrace(s, curve)
           w == HonestWitness(s)
           G == GradsOf(s)
           T == Trained(s)
<1>1. Steps \in Nat \ {0}
  BY EvidenceConstants
<1>2. /\ T[0] = s
      /\ \A i \in 1 .. Steps : T[i] = After(T[i - 1], i)
  BY TrainedUnfolds
<1>3. Len(G) = Steps /\ G[j] = Grad(T[j - 1], j)
  BY GradsTyped
<1>4. SubSeq(G, 1, j) = Append(IF j = 1 THEN <<>> ELSE SubSeq(G, 1, j - 1), G[j])
  BY ChainGrows
<1>5. t.from = s /\ t.to = T[Steps] /\ t.chain = ChainOf(G)
      /\ t.norms = [i \in 1 .. Steps |-> Abs(G[i])]
  BY DEF HonestTrace
<1>6. w.states = [i \in 1 .. Steps |-> T[i - 1]] /\ w.grads = G
  BY DEF HonestWitness
<1> HIDE DEF t, w, G, T
<1>7. w.states[j] = T[j - 1]
  BY <1>6
<1>8. PreStateMatches(t, w, j)
  BY <1>1, <1>2, <1>5, <1>6 DEF PreStateMatches
<1>9. GradMatches(w, j)
  BY <1>3, <1>6, <1>7 DEF GradMatches
<1>10. ChainMatches(t, w, j)
  <2>1. \A i \in 1 .. Steps : t.chain[i] = SubSeq(G, 1, i)
    BY <1>3, <1>5 DEF ChainOf
  <2>2. j # 1 => t.chain[j - 1] = SubSeq(G, 1, j - 1)
    BY <1>1, <2>1
  <2>3. t.chain[j] = Append(IF j = 1 THEN <<>> ELSE t.chain[j - 1], G[j])
    BY <1>4, <2>1, <2>2
  <2> QED
    BY <1>3, <1>7, <2>3 DEF ChainMatches
<1>11. NormMatches(t, w, j)
  BY <1>3, <1>5, <1>7 DEF NormMatches
<1>12. PostStateMatches(t, w, j)
  <2>1. After(w.states[j], j) = T[j]
    BY <1>2, <1>7
  <2>2. CASE j < Steps
    <3>1. j + 1 \in 1 .. Steps /\ (j + 1) - 1 = j
      BY <1>1, <2>2
    <3>2. w.states[j + 1] = T[j]
      BY <1>6, <3>1
    <3> QED
      BY <2>1, <2>2, <3>2 DEF PostStateMatches
  <2>3. CASE ~(j < Steps)
    <3>1. j = Steps
      BY <1>1, <2>3
    <3> QED
      BY <1>5, <2>1, <2>3, <3>1 DEF PostStateMatches
  <2> QED
    BY <2>2, <2>3
<1>13. Replayed(t, w, j)
  BY <1>8, <1>9, <1>10, <1>11, <1>12 DEF Replayed
<1> QED
  BY <1>13 DEF t, w

\* Draws are of steps, and what was rejected failed the replay of one.
RejectInv ==
  /\ stage \in {"drawn", "accepted", "rejected"} => drawn \in [1 .. Challenges -> 1 .. Steps]
  /\ stage = "rejected" => \E i \in 1 .. Len(drawn) : ~Replayed(trace, witness, drawn[i])

LEMMA NextKeepsRejections == RejectInv /\ [NextEvidence]_evidenceVars => RejectInv'
<1> SUFFICES ASSUME RejectInv, [NextEvidence]_evidenceVars
             PROVE  RejectInv'
  OBVIOUS
<1>1. CASE Publish \/ Accumulate \/ Reject
  <2>1. stage' \in {"published", "idle"}
    BY <1>1 DEF Publish, Accumulate, Reject
  <2> QED
    BY <2>1 DEF RejectInv
<1>2. ASSUME NEW steps \in [1 .. Challenges -> 1 .. Steps], Draw(steps)
      PROVE  RejectInv'
  BY <1>2 DEF Draw, RejectInv
<1>3. ASSUME NEW w \in Witnesses, Reveal(w)
      PROVE  RejectInv'
  <2>1. /\ stage = "drawn" /\ witness' = w /\ UNCHANGED <<head, trace, drawn>>
        /\ stage' = IF \A i \in 1 .. Len(drawn) : Replayed(trace, w, drawn[i])
                     THEN "accepted" ELSE "rejected"
    BY <1>3 DEF Reveal
  <2>2. stage' = "rejected" => \E i \in 1 .. Len(drawn) : ~Replayed(trace, w, drawn[i])
    BY <2>1
  <2>3. (stage = "rejected" => \E i \in 1 .. Len(drawn) : ~Replayed(trace, witness, drawn[i]))'
    BY <2>1, <2>2
  <2> QED
    BY <2>1, <2>3 DEF RejectInv
<1>4. CASE Refresh \/ UNCHANGED evidenceVars
  <2>1. UNCHANGED <<stage, head, trace, drawn, witness>>
    BY <1>4 DEF Refresh, evidenceVars
  <2> QED
    BY <2>1 DEF RejectInv
<1> QED
  BY <1>1, <1>2, <1>3, <1>4 DEF NextEvidence

(* What the trainer records of a training from the last block's state is    *)
(* well formed, has the root of its 32-bit model and not that of its 64-bit *)
(* weights, commits to its result where 32 bits keep all of it, and passes  *)
(* every replay, for any model, any number of steps and any draw            *)
(* (verify_structural, verify_spot_replay, verify_merkle_root,              *)
(* verify_quantization_consistency).                                        *)
THEOREM HonestSafe == SpecEvidence => []HonestEvidencePasses
<1>1. InitEvidence => ReplayInv /\ RejectInv
  BY DEF InitEvidence, ReplayInv, RejectInv
<1>2. ReplayInv /\ [NextEvidence]_evidenceVars => ReplayInv'
  BY NextKeepsReplay
<1>3. RejectInv /\ [NextEvidence]_evidenceVars => RejectInv'
  BY NextKeepsRejections
<1>4. ReplayInv /\ RejectInv => HonestEvidencePasses
  <2> SUFFICES ASSUME ReplayInv, RejectInv
               PROVE  HonestEvidencePasses
    OBVIOUS
  <2>1. head \in States
    BY DEF ReplayInv
  <2>2. head \in WellRecorded
    BY <2>1, HonestIsWellRecorded
  <2>3. ASSUME stage = "rejected", witness = HonestWitness(head),
               NEW curve \in Curves, trace = HonestTrace(head, curve)
        PROVE  FALSE
    <3>1. PICK i \in 1 .. Len(drawn) : ~Replayed(trace, witness, drawn[i])
      BY <2>3 DEF RejectInv
    <3>2. drawn[i] \in 1 .. Steps
      <4>1. drawn \in [1 .. Challenges -> 1 .. Steps] /\ Challenges \in Nat
        BY <2>3, EvidenceConstants DEF RejectInv
      <4>2. Len(drawn) = Challenges
        BY <4>1
      <4> QED
        BY <4>1, <4>2
    <3>3. Replayed(HonestTrace(head, curve), HonestWitness(head), drawn[i])
      BY <2>1, <3>2, HonestReplays
    <3> QED
      BY <2>3, <3>1, <3>3
  <2> QED
    BY <2>2, <2>3 DEF HonestEvidencePasses
<1> QED
  BY <1>1, <1>2, <1>3, <1>4, PTL DEF SpecEvidence
=============================================================================
