---------------------------- MODULE MCEconomics ----------------------------
(***************************************************************************)
(* Small instances of Economics and TrainingFreeze for TLC.                *)
(***************************************************************************)
EXTENDS EconomicsProps, TrainingFreeze, TLC

CONSTANTS me, owner, m1, m2, t1, t2, r1, r2

\* One model belongs to another address, one to the miner.
MCOwner == m1 :> owner @@ m2 :> me
MCCost == m1 :> 2 @@ m2 :> 1

\* More is emitted while the bootstrap lasts.
MCEmission(p, i) == IF i < p THEN 2 ELSE 1

\* The ledger and the tables of strikes have neither state nor calls in common: each
\* is explored while the other is as it began.
MCInit == Init /\ InitFreeze

MCNext ==
  \/ Next /\ InitFreeze /\ UNCHANGED freezeVars
  \/ NextFreeze /\ Init /\ UNCHANGED vars

MCSpec == MCInit /\ [][MCNext]_<<vars, freezeVars>>
=============================================================================
