---------------------------- MODULE SumTheorems ----------------------------
(***************************************************************************)
(* Sums of functions over finite sets, and the least and greatest element  *)
(* of a finite set, as far as the proofs about the ledgers need them.      *)
(*                                                                         *)
(* SumFunctionOnSet is defined by a recursive function, hence by a CHOOSE: *)
(* what it computes takes an induction over the subsets of the set.  Each  *)
(* induction below is a smallest counterexample (SmallestSubset): if a     *)
(* fact failed for some subset, it would fail for one all of whose proper  *)
(* subsets satisfy it.                                                     *)
(***************************************************************************)
EXTENDS Functions, FiniteSetTheorems, WellFoundedInduction, Integers, TLAPS

(* A nonempty set of subsets of a finite set has a member that properly     *)
(* contains no other.                                                       *)
LEMMA SmallestSubset ==
  ASSUME NEW S, IsFiniteSet(S), NEW T, T \subseteq SUBSET S, T # {}
  PROVE  \E t \in T : \A u \in T : u \subseteq t => u = t
<1>1. IsWellFoundedOn(StrictSubsetOrdering(S), SUBSET S)
  BY FS_FiniteSubsetsOfFinite, FS_StrictSubsetOrderingWellFounded
<1>2. PICK t \in T : \A u \in T : ~ (<<u, t>> \in StrictSubsetOrdering(S))
  BY <1>1, WFMin
<1>3. \A u \in T : u \subseteq t => u = t
  <2> SUFFICES ASSUME NEW u \in T, u \subseteq t, u # t PROVE FALSE
    OBVIOUS
  <2>1. <<u, t>> \in (SUBSET S) \X (SUBSET S)
    OBVIOUS
  <2>2. <<u, t>>[1] = u /\ <<u, t>>[2] = t
    OBVIOUS
  <2> QED BY <2>1, <2>2, <1>2 DEF StrictSubsetOrdering
<1> QED BY <1>3

-----------------------------------------------------------------------------
(* The definition                                                           *)

First(s) == CHOOSE x \in s : TRUE

\* g gives the sum of f over every subset of A.
SumsUp(g, f, A) ==
  g = [s \in SUBSET A |-> IF s = {} THEN 0 ELSE f[First(s)] + g[s \ {First(s)}]]

LEMMA SumIsRec ==
  ASSUME NEW f, NEW S
  PROVE  SumFunctionOnSet(f, S) = (CHOOSE g : SumsUp(g, f, S))[S]
BY DEF SumFunctionOnSet, FoldFunctionOnSet, MapThenFoldSet, SumsUp, First

LEMMA FirstIn == ASSUME NEW s, s # {} PROVE First(s) \in s
BY DEF First

(* Two such functions agree wherever both are defined.                      *)
LEMMA SumsAgree ==
  ASSUME NEW f, NEW A, NEW B, NEW g, NEW h, SumsUp(g, f, A), SumsUp(h, f, B),
         NEW s, IsFiniteSet(s), s \subseteq A, s \subseteq B
  PROVE  g[s] = h[s]
<1> DEFINE Bad == {t \in SUBSET s : g[t] # h[t]}
<1> SUFFICES ASSUME s \in Bad PROVE FALSE
  OBVIOUS
<1>0. Bad \subseteq SUBSET s /\ Bad # {}
  OBVIOUS
<1>1. PICK t \in Bad : \A u \in Bad : u \subseteq t => u = t
  <2> HIDE DEF Bad
  <2> QED BY <1>0, SmallestSubset
<1>2. t \in SUBSET A /\ t \in SUBSET B
  OBVIOUS
<1>3. CASE t = {}
  BY <1>2, <1>3 DEF SumsUp
<1>4. CASE t # {}
  <2>1. First(t) \in t
    BY <1>4, FirstIn
  <2>2. t \ {First(t)} \notin Bad
    BY <2>1, <1>1
  <2>3. g[t \ {First(t)}] = h[t \ {First(t)}]
    BY <2>2
  <2>4. g[t] = f[First(t)] + g[t \ {First(t)}]
    BY <1>2, <1>4 DEF SumsUp
  <2>5. h[t] = f[First(t)] + h[t \ {First(t)}]
    BY <1>2, <1>4 DEF SumsUp
  <2> QED BY <2>3, <2>4, <2>5
<1> QED BY <1>3, <1>4

(* Such a function exists for every finite set.                             *)
LEMMA SumsExist ==
  ASSUME NEW f, NEW S, IsFiniteSet(S)
  PROVE  \E g : SumsUp(g, f, S)
<1> DEFINE Bad == {t \in SUBSET S : ~ \E g : SumsUp(g, f, t)}
<1> SUFFICES ASSUME S \in Bad PROVE FALSE
  OBVIOUS
<1>0. Bad \subseteq SUBSET S /\ Bad # {}
  OBVIOUS
<1>1. PICK A \in Bad : \A u \in Bad : u \subseteq A => u = A
  <2> HIDE DEF Bad
  <2> QED BY <1>0, SmallestSubset
<1> DEFINE H(t) == CHOOSE g : SumsUp(g, f, t)
           G == [s \in SUBSET A |->
                   IF s = {} THEN 0 ELSE f[First(s)] + H(s \ {First(s)})[s \ {First(s)}]]
<1>2. \A t : t \subseteq A /\ t # A => SumsUp(H(t), f, t)
  <2> SUFFICES ASSUME NEW t, t \subseteq A, t # A PROVE SumsUp(H(t), f, t)
    OBVIOUS
  <2>1. t \in SUBSET S /\ t \notin Bad
    BY <1>1
  <2>2. PICK g : SumsUp(g, f, t)
    BY <2>1
  <2> HIDE DEF Bad
  <2> QED BY <2>2
<1> HIDE DEF H
<1>3. \A t : t \subseteq A /\ t # A => G[t] = H(t)[t]
  <2> SUFFICES ASSUME NEW t, t \subseteq A, t # A PROVE G[t] = H(t)[t]
    OBVIOUS
  <2>1. SumsUp(H(t), f, t)
    BY <1>2
  <2>2. CASE t = {}
    <3>1. H(t)[t] = 0
      BY <2>1, <2>2 DEF SumsUp
    <3> QED BY <3>1, <2>2
  <2>3. CASE t # {}
    <3> DEFINE r == t \ {First(t)}
    <3>1. First(t) \in t
      BY <2>3, FirstIn
    <3>2. r \subseteq A /\ r # A /\ r \subseteq t
      BY <3>1
    <3>3. SumsUp(H(r), f, r)
      BY <1>2, <3>2
    <3>4. IsFiniteSet(r)
      BY FS_Subset
    <3>5. H(t)[r] = H(r)[r]
      <4> HIDE DEF r
      <4> QED BY <2>1, <3>2, <3>3, <3>4, SumsAgree
    <3>6. H(t)[t] = f[First(t)] + H(t)[r]
      BY <2>1, <2>3 DEF SumsUp
    <3>7. G[t] = f[First(t)] + H(r)[r]
      BY <2>3
    <3> QED BY <3>5, <3>6, <3>7
  <2> QED BY <2>2, <2>3
<1>4. SumsUp(G, f, A)
  <2>1. \A s \in SUBSET A : s # {} => H(s \ {First(s)})[s \ {First(s)}] = G[s \ {First(s)}]
    <3> SUFFICES ASSUME NEW s \in SUBSET A, s # {}
                 PROVE  H(s \ {First(s)})[s \ {First(s)}] = G[s \ {First(s)}]
      OBVIOUS
    <3>1. First(s) \in s
      BY FirstIn
    <3> HIDE DEF G
    <3> QED BY <3>1, <1>3
  <2> DEFINE K == [s \in SUBSET A |-> IF s = {} THEN 0 ELSE f[First(s)] + G[s \ {First(s)}]]
  <2>2. \A s \in SUBSET A : G[s] = K[s]
    <3> SUFFICES ASSUME NEW s \in SUBSET A PROVE G[s] = K[s]
      OBVIOUS
    <3>1. G[s] = IF s = {} THEN 0 ELSE f[First(s)] + H(s \ {First(s)})[s \ {First(s)}]
      OBVIOUS
    <3>2. K[s] = IF s = {} THEN 0 ELSE f[First(s)] + G[s \ {First(s)}]
      BY Zenon
    <3> HIDE DEF G, K
    <3> QED BY <3>1, <3>2, <2>1
  <2>3. G = [s \in SUBSET A |-> G[s]] /\ K = [s \in SUBSET A |-> K[s]]
    OBVIOUS
  <2>4. G = K
    <3> HIDE DEF G, K
    <3> QED BY <2>2, <2>3
  <2> QED BY <2>4 DEF SumsUp
<1> QED BY <1>1, <1>4

(* The sum over a finite set follows the recursion it is defined by.        *)
LEMMA SumUnfolds ==
  ASSUME NEW f, NEW S, IsFiniteSet(S)
  PROVE  SumFunctionOnSet(f, S) =
           IF S = {} THEN 0 ELSE f[First(S)] + SumFunctionOnSet(f, S \ {First(S)})
<1> DEFINE H(t) == CHOOSE g : SumsUp(g, f, t)
           R == S \ {First(S)}
<1>1. IsFiniteSet(R)
  BY FS_Subset
<1>2. SumsUp(H(S), f, S) /\ SumsUp(H(R), f, R)
  BY <1>1, SumsExist
<1>3. SumFunctionOnSet(f, S) = H(S)[S] /\ SumFunctionOnSet(f, R) = H(R)[R]
  BY SumIsRec
<1> HIDE DEF H
<1>4. H(S)[R] = H(R)[R]
  <2>0. R \subseteq S /\ R \subseteq R
    OBVIOUS
  <2> HIDE DEF R
  <2> QED BY <2>0, <1>1, <1>2, SumsAgree
<1>5. S \in SUBSET S
  OBVIOUS
<1>6. H(S)[S] = IF S = {} THEN 0 ELSE f[First(S)] + H(S)[R]
  BY <1>2, <1>5 DEF SumsUp
<1> QED BY <1>3, <1>4, <1>6

-----------------------------------------------------------------------------
(* Facts about sums over a finite set                                       *)

LEMMA SumEmpty == ASSUME NEW f PROVE SumFunctionOnSet(f, {}) = 0
BY SumUnfolds, FS_EmptySet

(* Sums are of the type of their terms.                                     *)
LEMMA SumInt ==
  ASSUME NEW f, NEW S, IsFiniteSet(S), \A x \in S : f[x] \in Int
  PROVE  SumFunctionOnSet(f, S) \in Int
<1> DEFINE Bad == {t \in SUBSET S : SumFunctionOnSet(f, t) \notin Int}
<1> SUFFICES ASSUME S \in Bad PROVE FALSE
  OBVIOUS
<1>0. Bad \subseteq SUBSET S /\ Bad # {}
  OBVIOUS
<1>1. PICK t \in Bad : \A u \in Bad : u \subseteq t => u = t
  <2> HIDE DEF Bad
  <2> QED BY <1>0, SmallestSubset
<1>2. IsFiniteSet(t)
  BY FS_Subset
<1>3. t # {}
  BY SumEmpty
<1>4. First(t) \in t
  BY <1>3, FirstIn
<1>5. t \ {First(t)} \notin Bad
  BY <1>1, <1>4
<1> QED BY <1>2, <1>3, <1>4, <1>5, SumUnfolds

LEMMA SumNat ==
  ASSUME NEW f, NEW S, IsFiniteSet(S), \A x \in S : f[x] \in Nat
  PROVE  SumFunctionOnSet(f, S) \in Nat
<1> DEFINE Bad == {t \in SUBSET S : SumFunctionOnSet(f, t) \notin Nat}
<1> SUFFICES ASSUME S \in Bad PROVE FALSE
  OBVIOUS
<1>0. Bad \subseteq SUBSET S /\ Bad # {}
  OBVIOUS
<1>1. PICK t \in Bad : \A u \in Bad : u \subseteq t => u = t
  <2> HIDE DEF Bad
  <2> QED BY <1>0, SmallestSubset
<1>2. IsFiniteSet(t)
  BY FS_Subset
<1>3. t # {}
  BY SumEmpty
<1>4. First(t) \in t
  BY <1>3, FirstIn
<1>5. t \ {First(t)} \notin Bad
  BY <1>1, <1>4
<1> QED BY <1>2, <1>3, <1>4, <1>5, SumUnfolds

(* Any term can be taken out of a sum.                                      *)
LEMMA SumTakeOut ==
  ASSUME NEW f, NEW S, IsFiniteSet(S), \A x \in S : f[x] \in Int, NEW a \in S
  PROVE  SumFunctionOnSet(f, S) = f[a] + SumFunctionOnSet(f, S \ {a})
<1> DEFINE Bad == {t \in SUBSET S : \E x \in t :
                     SumFunctionOnSet(f, t) # f[x] + SumFunctionOnSet(f, t \ {x})}
<1> SUFFICES ASSUME S \in Bad PROVE FALSE
  OBVIOUS
<1>0. Bad \subseteq SUBSET S /\ Bad # {}
  OBVIOUS
<1>1. PICK t \in Bad : \A u \in Bad : u \subseteq t => u = t
  <2> HIDE DEF Bad
  <2> QED BY <1>0, SmallestSubset
<1>2. PICK x \in t : SumFunctionOnSet(f, t) # f[x] + SumFunctionOnSet(f, t \ {x})
  OBVIOUS
<1> DEFINE c == First(t)
           r == t \ {c, x}
<1>3. c \in t
  BY FirstIn
<1>4. IsFiniteSet(t) /\ IsFiniteSet(r) /\ t \subseteq S /\ r \subseteq S
  BY FS_Subset
<1>5. SumFunctionOnSet(f, t) = f[c] + SumFunctionOnSet(f, t \ {c})
  BY <1>4, SumUnfolds
<1>6. c # x
  BY <1>2, <1>5
<1>7. t \ {c} \notin Bad /\ t \ {x} \notin Bad
  BY <1>1, <1>3
<1>8. (t \ {c}) \ {x} = r /\ (t \ {x}) \ {c} = r
  OBVIOUS
<1>9. SumFunctionOnSet(f, t \ {c}) = f[x] + SumFunctionOnSet(f, r)
  BY <1>6, <1>7, <1>8
<1>10. SumFunctionOnSet(f, t \ {x}) = f[c] + SumFunctionOnSet(f, r)
  BY <1>3, <1>6, <1>7, <1>8
<1>11. SumFunctionOnSet(f, r) \in Int /\ f[c] \in Int /\ f[x] \in Int
  <2>1. \A y \in r : f[y] \in Int
    BY <1>4
  <2> QED BY <2>1, <1>3, <1>4, SumInt
<1> HIDE DEF c, r, Bad
<1> QED BY <1>2, <1>5, <1>9, <1>10, <1>11

(* Functions that agree on a set have the same sum over it.                 *)
LEMMA SumEqual ==
  ASSUME NEW f, NEW g, NEW S, IsFiniteSet(S), \A x \in S : f[x] = g[x]
  PROVE  SumFunctionOnSet(f, S) = SumFunctionOnSet(g, S)
<1> DEFINE Bad == {t \in SUBSET S : SumFunctionOnSet(f, t) # SumFunctionOnSet(g, t)}
<1> SUFFICES ASSUME S \in Bad PROVE FALSE
  OBVIOUS
<1>0. Bad \subseteq SUBSET S /\ Bad # {}
  OBVIOUS
<1>1. PICK t \in Bad : \A u \in Bad : u \subseteq t => u = t
  <2> HIDE DEF Bad
  <2> QED BY <1>0, SmallestSubset
<1>2. IsFiniteSet(t)
  BY FS_Subset
<1>3. t # {}
  BY SumEmpty
<1>4. First(t) \in t
  BY <1>3, FirstIn
<1>5. t \ {First(t)} \notin Bad
  BY <1>1, <1>4
<1>6. SumFunctionOnSet(f, t \ {First(t)}) = SumFunctionOnSet(g, t \ {First(t)})
  BY <1>5
<1>7. f[First(t)] = g[First(t)]
  BY <1>4
<1>8. SumFunctionOnSet(f, t) = f[First(t)] + SumFunctionOnSet(f, t \ {First(t)})
  BY <1>2, <1>3, SumUnfolds
<1>9. SumFunctionOnSet(g, t) = g[First(t)] + SumFunctionOnSet(g, t \ {First(t)})
  BY <1>2, <1>3, SumUnfolds
<1> QED BY <1>6, <1>7, <1>8, <1>9

(* A change at one argument changes the sum by as much.                     *)
LEMMA SumUpdate ==
  ASSUME NEW f, NEW g, NEW S, IsFiniteSet(S), NEW a \in S, NEW v \in Int,
         \A x \in S : f[x] \in Int, \A x \in S \ {a} : g[x] = f[x], g[a] = v
  PROVE  SumFunctionOnSet(g, S) = SumFunctionOnSet(f, S) - f[a] + v
<1> DEFINE R == S \ {a}
<1>1. IsFiniteSet(R)
  BY FS_Subset
<1>2. SumFunctionOnSet(g, R) = SumFunctionOnSet(f, R)
  <2>1. \A x \in R : g[x] = f[x]
    OBVIOUS
  <2> HIDE DEF R
  <2> QED BY <1>1, <2>1, SumEqual
<1>3. \A x \in S : g[x] \in Int
  OBVIOUS
<1>4. SumFunctionOnSet(f, S) = f[a] + SumFunctionOnSet(f, R)
  BY SumTakeOut
<1>5. SumFunctionOnSet(g, S) = g[a] + SumFunctionOnSet(g, R)
  BY <1>3, SumTakeOut
<1>6. SumFunctionOnSet(f, R) \in Int
  <2>1. \A x \in R : f[x] \in Int
    OBVIOUS
  <2> HIDE DEF R
  <2> QED BY <1>1, <2>1, SumInt
<1> HIDE DEF R
<1> QED BY <1>2, <1>4, <1>5, <1>6

(* A sum over a set is the sum over a part of it and over the rest.         *)
LEMMA SumSplit ==
  ASSUME NEW f, NEW S, IsFiniteSet(S), \A x \in S : f[x] \in Int, NEW T, T \subseteq S
  PROVE  SumFunctionOnSet(f, S) = SumFunctionOnSet(f, T) + SumFunctionOnSet(f, S \ T)
<1> DEFINE Bad == {t \in SUBSET T : SumFunctionOnSet(f, S) #
                     SumFunctionOnSet(f, t) + SumFunctionOnSet(f, S \ t)}
<1> SUFFICES ASSUME T \in Bad PROVE FALSE
  OBVIOUS
<1>0. Bad \subseteq SUBSET T /\ Bad # {} /\ IsFiniteSet(T)
  BY FS_Subset
<1>1. PICK t \in Bad : \A u \in Bad : u \subseteq t => u = t
  <2> HIDE DEF Bad
  <2> QED BY <1>0, SmallestSubset
<1>2. t \subseteq S /\ IsFiniteSet(t) /\ IsFiniteSet(S \ t)
  BY FS_Subset
<1>3. SumFunctionOnSet(f, S) \in Int
  BY SumInt
<1>4. CASE t = {}
  <2>1. S \ t = S
    BY <1>4
  <2> QED BY <1>3, <1>4, <2>1, SumEmpty
<1>5. CASE t # {}
  <2> DEFINE c == First(t)
             r == t \ {c}
             k == S \ r
  <2>1. c \in t
    BY <1>5, FirstIn
  <2>2. r \notin Bad
    BY <1>1, <2>1
  <2>3. IsFiniteSet(r) /\ IsFiniteSet(k) /\ r \subseteq S /\ k \subseteq S
    BY <1>2, FS_Subset
  <2>4. k \ {c} = S \ t /\ c \in k
    BY <1>2, <2>1
  <2>5. SumFunctionOnSet(f, t) = f[c] + SumFunctionOnSet(f, r)
    BY <1>2, <1>5, SumUnfolds
  <2>6. SumFunctionOnSet(f, k) = f[c] + SumFunctionOnSet(f, S \ t)
    <3>1. \A x \in k : f[x] \in Int
      BY <2>3
    <3> HIDE DEF k, c, r
    <3>2. SumFunctionOnSet(f, k) = f[c] + SumFunctionOnSet(f, k \ {c})
      BY <2>3, <2>4, <3>1, SumTakeOut
    <3> QED BY <3>2, <2>4
  <2>7. SumFunctionOnSet(f, S) = SumFunctionOnSet(f, r) + SumFunctionOnSet(f, k)
    BY <2>2
  <2>8. /\ SumFunctionOnSet(f, r) \in Int /\ SumFunctionOnSet(f, S \ t) \in Int
        /\ f[c] \in Int
    <3>1. (\A x \in r : f[x] \in Int) /\ (\A x \in S \ t : f[x] \in Int)
      BY <2>3
    <3>2. f[c] \in Int
      BY <1>2, <2>1
    <3> HIDE DEF r, c
    <3> QED BY <1>2, <2>3, <3>1, <3>2, SumInt
  <2>9. SumFunctionOnSet(f, S) # SumFunctionOnSet(f, t) + SumFunctionOnSet(f, S \ t)
    OBVIOUS
  <2> HIDE DEF c, r, k, Bad
  <2> QED BY <2>5, <2>6, <2>7, <2>8, <2>9
<1> QED BY <1>4, <1>5

(* A sum of zeros is zero.                                                  *)
LEMMA SumZero ==
  ASSUME NEW f, NEW S, IsFiniteSet(S), \A x \in S : f[x] = 0
  PROVE  SumFunctionOnSet(f, S) = 0
<1> DEFINE Bad == {t \in SUBSET S : SumFunctionOnSet(f, t) # 0}
<1> SUFFICES ASSUME S \in Bad PROVE FALSE
  OBVIOUS
<1>0. Bad \subseteq SUBSET S /\ Bad # {}
  OBVIOUS
<1>1. PICK t \in Bad : \A u \in Bad : u \subseteq t => u = t
  <2> HIDE DEF Bad
  <2> QED BY <1>0, SmallestSubset
<1>2. IsFiniteSet(t)
  BY FS_Subset
<1>3. t # {}
  BY SumEmpty
<1>4. First(t) \in t
  BY <1>3, FirstIn
<1>5. t \ {First(t)} \notin Bad
  BY <1>1, <1>4
<1> QED BY <1>2, <1>3, <1>4, <1>5, SumUnfolds

(* A sum of equal terms is a product.                                       *)
LEMMA SumConstant ==
  ASSUME NEW f, NEW S, IsFiniteSet(S), NEW v \in Int, \A x \in S : f[x] = v
  PROVE  SumFunctionOnSet(f, S) = v * Cardinality(S)
<1> DEFINE Bad == {t \in SUBSET S : SumFunctionOnSet(f, t) # v * Cardinality(t)}
<1> SUFFICES ASSUME S \in Bad PROVE FALSE
  OBVIOUS
<1>0. Bad \subseteq SUBSET S /\ Bad # {}
  OBVIOUS
<1>1. PICK t \in Bad : \A u \in Bad : u \subseteq t => u = t
  <2> HIDE DEF Bad
  <2> QED BY <1>0, SmallestSubset
<1>2. IsFiniteSet(t)
  BY FS_Subset
<1>3. t # {}
  BY SumEmpty, FS_EmptySet
<1>4. First(t) \in t
  BY <1>3, FirstIn
<1> DEFINE r == t \ {First(t)}
<1>5. r \notin Bad
  BY <1>1, <1>4
<1>6. Cardinality(r) = Cardinality(t) - 1 /\ Cardinality(r) \in Nat /\ Cardinality(t) \in Nat
  BY <1>2, <1>4, FS_RemoveElement, FS_CardinalityType
<1>7. SumFunctionOnSet(f, r) = v * Cardinality(r)
  BY <1>5
<1>8. SumFunctionOnSet(f, t) = v + SumFunctionOnSet(f, r)
  BY <1>2, <1>3, <1>4, SumUnfolds
<1>9. v + v * (Cardinality(t) - 1) = v * Cardinality(t)
  BY <1>6
<1> QED BY <1>6, <1>7, <1>8, <1>9

(* Clearing the terms of a part of the set takes their sum away.            *)
LEMMA SumCleared ==
  ASSUME NEW f, NEW g, NEW S, IsFiniteSet(S), \A x \in S : f[x] \in Int,
         NEW T, T \subseteq S, \A x \in S : g[x] = IF x \in T THEN 0 ELSE f[x]
  PROVE  SumFunctionOnSet(g, S) = SumFunctionOnSet(f, S) - SumFunctionOnSet(f, T)
<1> DEFINE R == S \ T
<1>1. IsFiniteSet(R) /\ IsFiniteSet(T)
  BY FS_Subset
<1>2. \A x \in S : g[x] \in Int
  OBVIOUS
<1>3. SumFunctionOnSet(f, S) = SumFunctionOnSet(f, T) + SumFunctionOnSet(f, R)
  BY SumSplit
<1>4. SumFunctionOnSet(g, S) = SumFunctionOnSet(g, T) + SumFunctionOnSet(g, R)
  BY <1>2, SumSplit
<1>5. /\ \A x \in R : g[x] = f[x] /\ f[x] \in Int
      /\ \A x \in T : g[x] = 0 /\ f[x] \in Int
  OBVIOUS
<1> HIDE DEF R
<1>6. SumFunctionOnSet(g, R) = SumFunctionOnSet(f, R)
  BY <1>1, <1>5, SumEqual
<1>7. SumFunctionOnSet(g, T) = 0
  BY <1>1, <1>5, SumZero
<1>8. SumFunctionOnSet(f, R) \in Int /\ SumFunctionOnSet(f, T) \in Int
  BY <1>1, <1>5, SumInt
<1> QED BY <1>3, <1>4, <1>6, <1>7, <1>8

(* A sum of natural numbers is at least each of them.                       *)
LEMMA SumBoundsTerm ==
  ASSUME NEW f, NEW S, IsFiniteSet(S), \A x \in S : f[x] \in Nat, NEW a \in S
  PROVE  f[a] <= SumFunctionOnSet(f, S)
<1> DEFINE R == S \ {a}
<1>1. SumFunctionOnSet(f, S) = f[a] + SumFunctionOnSet(f, R)
  BY SumTakeOut
<1>2. SumFunctionOnSet(f, R) \in Nat
  <2>1. IsFiniteSet(R) /\ \A x \in R : f[x] \in Nat
    BY FS_Subset
  <2> HIDE DEF R
  <2> QED BY <2>1, SumNat
<1> HIDE DEF R
<1> QED BY <1>1, <1>2

-----------------------------------------------------------------------------
(* Extremes of a function over a finite set                                 *)

LEMMA GreatestExists ==
  ASSUME NEW f, NEW S, IsFiniteSet(S), S # {}, \A x \in S : f[x] \in Int
  PROVE  \E m \in S : \A x \in S : f[x] <= f[m]
<1> DEFINE Bad == {t \in SUBSET S : t # {} /\ ~ \E m \in t : \A x \in t : f[x] <= f[m]}
<1> SUFFICES ASSUME S \in Bad PROVE FALSE
  OBVIOUS
<1>0. Bad \subseteq SUBSET S /\ Bad # {}
  OBVIOUS
<1>1. PICK t \in Bad : \A u \in Bad : u \subseteq t => u = t
  <2> HIDE DEF Bad
  <2> QED BY <1>0, SmallestSubset
<1>2. PICK c \in t : TRUE
  OBVIOUS
<1>3. t # {c}
  OBVIOUS
<1>4. t \ {c} # {} /\ t \ {c} \notin Bad
  BY <1>1, <1>2, <1>3
<1>5. PICK m \in t \ {c} : \A x \in t \ {c} : f[x] <= f[m]
  BY <1>4
<1>6. f[m] \in Int /\ f[c] \in Int /\ \A x \in t : f[x] \in Int
  OBVIOUS
<1>7. CASE f[c] <= f[m]
  BY <1>5, <1>7
<1>8. CASE ~(f[c] <= f[m])
  <2>1. \A x \in t : f[x] <= f[c]
    BY <1>5, <1>6, <1>8
  <2> QED BY <2>1
<1> QED BY <1>7, <1>8

LEMMA LeastExists ==
  ASSUME NEW f, NEW S, IsFiniteSet(S), S # {}, \A x \in S : f[x] \in Int
  PROVE  \E m \in S : \A x \in S : f[m] <= f[x]
<1> DEFINE g == [x \in S |-> - f[x]]
<1>1. \A x \in S : g[x] \in Int
  OBVIOUS
<1>2. \E m \in S : \A x \in S : g[x] <= g[m]
  <2> HIDE DEF g
  <2> QED BY <1>1, GreatestExists
<1> QED BY <1>2

(* A set of numbers up to n has a least.                                    *)
LEMMA SmallestNumber ==
  ASSUME NEW n \in Nat, NEW T, T \subseteq 0 .. n, T # {}
  PROVE  \E t \in T : \A u \in T : t <= u
<1> DEFINE f == [x \in T |-> x]
<1>1. IsFiniteSet(T)
  <2>1. IsFiniteSet(0 .. n)
    BY FS_Interval
  <2> QED
    BY <2>1, FS_Subset
<1>2. \A x \in T : f[x] \in Int
  OBVIOUS
<1>3. \E m \in T : \A x \in T : f[m] <= f[x]
  <2> HIDE DEF f
  <2> QED
    BY <1>1, <1>2, LeastExists
<1> QED
  BY <1>3
=============================================================================
