---------------------------- MODULE MCParameters ----------------------------
(***************************************************************************)
(* Small instances of DynamicBlockTime and NetworkPrices for TLC.          *)
(***************************************************************************)
EXTENDS DynamicBlockTime, NetworkPrices, TLC

CONSTANTS b1, storage

MCStress == <<55, 100>>
MCSlack == <<145, 100>>
MCSlowDown == <<115, 100>>
MCSpeedUp == <<95, 100>>

\* A network price that every step of a quarter rounds.
MCDefault == storage :> [price |-> 10, low |-> 8, high |-> 20]
MCInitial == storage :> 10
MCLeast == storage :> 8
MCMost == storage :> 20

\* The block timer and the prices have neither state nor calls in common, so that their
\* order means nothing: each is explored while the other is as it began.
MCInit == Init /\ InitPrices

MCNext ==
  \/ Next /\ InitPrices /\ UNCHANGED priceVars
  \/ NextPrices /\ Init /\ UNCHANGED vars

MCSpec == MCInit /\ [][MCNext]_<<vars, priceVars>>
=============================================================================
