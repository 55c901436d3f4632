-------------------------- MODULE MCTrainingMarket --------------------------
(***************************************************************************)
(* Small instances of TrainingMarket for TLC.                              *)
(***************************************************************************)
EXTENDS TrainingMarketProps, TLC

CONSTANTS t1, t2, t3, t4, t5, m1, m2, m3, m4

\* Two tasks compete for one model; t4 tips nothing.
MCModelOf == t1 :> m1 @@ t2 :> m2 @@ t3 :> m2 @@ t4 :> m3 @@ t5 :> m4
MCTip == t1 :> 2 @@ t2 :> 3 @@ t3 :> 3 @@ t4 :> 0 @@ t5 :> 3
MCOffer == t1 :> 10 @@ t2 :> 10 @@ t3 :> 9 @@ t4 :> 10 @@ t5 :> 10
MCTarget == <<1, 2>>
MCChangeRate == <<1, 8>>

\* The tasks live long enough for how many they are.
ASSUME CrowdIsServed == CrowdFitsLife
=============================================================================
