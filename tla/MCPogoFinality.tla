--------------------------- MODULE MCPogoFinality ---------------------------
(***************************************************************************)
(* Small instances of PogoFinality for TLC.                                *)
(***************************************************************************)
EXTENDS PogoFinalityProps, TLC

CONSTANTS me, peer, m1, b1, b2, b3, b4

\* Two training blocks of one model are this node's, the others a peer's.
MCMiner == [b \in Blocks |-> IF b \in {b1, b2} THEN me ELSE peer]
MCModel == [b \in Blocks |-> IF b = b3 THEN Noop ELSE m1]
MCSteps == [b \in Blocks |-> IF b = b3 THEN 0 ELSE 1]
MCWeight == me :> 2 @@ peer :> 1
MCStakes == {me :> 10 @@ peer :> 10}
MCPenalty == [r \in Reasons |-> CASE r = "invalid" -> 20 [] r = "negative" -> 10 [] OTHER -> 50]
MCBanTime == [r \in Reasons |-> CASE r = "invalid" -> 1 [] r = "negative" -> 0 [] OTHER -> 2]
MCDemerit == [r \in Reasons |-> CASE r = "invalid" -> 50 [] r = "negative" -> 25 [] OTHER -> 100]

\* Once two threads have built side by side, a single call is explored.
MCNext == Next /\ (beside' # {} => calls' <= 1)

MCSpec == Init /\ [][MCNext]_vars
=============================================================================
