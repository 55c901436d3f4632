---------------------------- MODULE MCPogoChain ----------------------------
(***************************************************************************)
(* Small instances of PogoChain for TLC.                                   *)
(***************************************************************************)
EXTENDS PogoChainProps, TLC

CONSTANTS n1, n2, n3    \* node addresses

\* The order of the addresses in sorted(...).
Rank == n1 :> 0 @@ n2 :> 1 @@ n3 :> 2 @@ GenesisMiner :> 3

\* A stand-in for int(SHA256(miner | hash)) % len(candidates).
MCDraw(S, m, h) ==
  LET k == (Rank[m] + h) % Cardinality(S)
  IN  CHOOSE n \in S : Cardinality({x \in S : Rank[x] < Rank[n]}) = k

OneWorkerEach == {<<n, 1>> : n \in Nodes}
SpareWorker == OneWorkerEach \cup {<<n1, 2>>}
HostOf == [w \in Workers |-> w[1]]
=============================================================================
