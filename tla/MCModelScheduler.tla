-------------------------- MODULE MCModelScheduler --------------------------
(***************************************************************************)
(* Small instances of ModelScheduler for TLC.                              *)
(***************************************************************************)
EXTENDS ModelSchedulerProps, TLC

CONSTANTS m1, m2, m3    \* models

OneOfEachTier == m1 :> "high" @@ m2 :> "normal" @@ m3 :> "low"
TwoNormal == m1 :> "high" @@ m2 :> "normal" @@ m3 :> "normal"
UnitPrice == [m \in Models |-> 1]
=============================================================================
