---------------------------- MODULE NetworkPrices ---------------------------
(***************************************************************************)
(* What a node's operator asks for (networking/node_operator_api.py) and   *)
(* what the node makes of the network's prices when it leads a block       *)
(* (economics/dynamic_parameters.py, runtime/node.py).  Every node keeps   *)
(* network prices of its own: nothing here is sent to anybody.             *)
(***************************************************************************)
EXTENDS Integers

CONSTANTS
  Params, Networked,   \* PricingParameter, and those that are network parameters
  Prices,              \* what operators ask for
  Default,             \* of each parameter: its PricingConfig price and bounds
  Initial, Least, Most,\* of each network price: its first value and its bounds
  Portion,             \* an adjustment is a Portion-th of the value
  MaxDuration,         \* bound: duration_blocks
  MaxCalls             \* bound: adjustments made by hand

ASSUME PriceConstants ==
  /\ Networked \subseteq Params /\ Prices \subseteq Nat
  /\ {Portion, MaxDuration} \subseteq Nat \ {0} /\ MaxCalls \in Nat
  /\ \A p \in Params : Default[p].low <= Default[p].price /\ Default[p].price <= Default[p].high
  /\ {Initial, Least, Most} \subseteq [Networked -> Nat]
  /\ \A p \in Networked : Initial[p] \in Least[p] .. Most[p]
  \* Prices are numbers of a unit so small that an adjustment never is nothing.
  /\ \A p \in Networked : Portion <= Least[p]

VARIABLES
  config,   \* PricingConfig: of each parameter a price and its bounds
  backup,   \* what export_config returned last
  targets,  \* pricing_targets
  value,    \* DynamicParameterManager: of each network parameter its value
  calls     \* adjustments made by hand so far

priceVars == <<config, backup, targets, value, calls>>

NoTarget == [kind |-> "none", goal |-> 0, up |-> FALSE, left |-> 0]
Absolute == [kind : {"absolute"}, goal : Prices, up : {FALSE}, left : {0}]
Relative == [kind : {"relative"}, goal : {0}, up : BOOLEAN, left : {0}]
Temporary == [kind : {"temporary"}, goal : {0}, up : BOOLEAN, left : 1 .. MaxDuration]

(* What set_storage_price_target and set_block_reward_target ask for: a     *)
(* price, or a change, for good or for some blocks.                         *)
Targets == Absolute \cup Relative \cup Temporary

(* PricingConfig.validate *)
Valid(c) == \A p \in Params : c[p].low <= c[p].price /\ c[p].price <= c[p].high

InitPrices ==
  /\ config = Default /\ backup = Default
  /\ targets = [p \in Params |-> NoTarget]
  /\ value = Initial
  /\ calls = 0

-----------------------------------------------------------------------------
(* The operator                                                             *)

MaySet(p, v) == config[p].low <= v /\ v <= config[p].high

SetPrice(p, v) ==
  /\ MaySet(p, v)
  /\ config' = [config EXCEPT ![p].price = v]
  /\ UNCHANGED <<backup, targets, value, calls>>

(* Nobody looks at the price that is to stay within the bounds.             *)
UpdateBounds(p, v) ==
  /\ config' \in {[config EXCEPT ![p].low = v], [config EXCEPT ![p].high = v]}
  /\ UNCHANGED <<backup, targets, value, calls>>

ResetToDefaults ==
  /\ config' = Default
  /\ UNCHANGED <<backup, targets, value, calls>>

ExportConfig ==
  /\ backup' = config
  /\ UNCHANGED <<config, targets, value, calls>>

ImportConfig ==
  /\ Valid(backup)
  /\ config' = backup
  /\ UNCHANGED <<backup, targets, value, calls>>

SetTarget(p, t) ==
  /\ targets' = [targets EXCEPT ![p] = t]
  /\ UNCHANGED <<config, backup, value, calls>>

RemoveTarget(p) == targets[p] # NoTarget /\ SetTarget(p, NoTarget)

-----------------------------------------------------------------------------
(* The leader                                                               *)

Adjustable(p, v) == Least[p] <= v /\ v <= Most[p]

\* Variant: up is down.
StepAway(v, up) == IF up THEN v - v \div Portion ELSE v + v \div Portion

StepOf(v, up) == IF up THEN v + v \div Portion ELSE v - v \div Portion

(* adjust_block_reward, adjust_storage_price, adjust_training_payment       *)
AdjustedPrice(p, up) ==
  LET v == StepOf(value[p], up) IN IF Adjustable(p, v) THEN v ELSE value[p]

\* Variant: the last block counts twice.
ExpiresLate(t) == t.kind = "temporary" /\ t.left < 0

IsExpired(t) == t.kind = "temporary" /\ t.left <= 0

(* should_increase: whether a target acts, and which way.                   *)
Acts(p, t) ==
  /\ p \in Networked /\ ~IsExpired(t)
  /\ t.kind # "none" /\ (t.kind = "absolute" => value[p] # t.goal)

Upwards(p, t) == IF t.kind = "absolute" THEN value[p] < t.goal ELSE t.up

MarkApplied(t) == IF t.kind = "temporary" THEN [t EXCEPT !.left = @ - 1] ELSE t

(* apply_as_block_leader: every target that acts is marked, whether its     *)
(* adjustment will stay in bounds or not.                                   *)
Acting == {p \in Params : Acts(p, targets[p])}

ApplyTargets ==
  targets' = [p \in Params |-> IF p \in Acting THEN MarkApplied(targets[p]) ELSE targets[p]]

(* on_selected_as_block_leader *)
Lead ==
  /\ Acting # {}
  /\ ApplyTargets
  /\ value' = [p \in Networked |->
                 IF p \in Acting THEN AdjustedPrice(p, Upwards(p, targets[p])) ELSE value[p]]
  /\ UNCHANGED <<config, backup, calls>>

(* adjust_network_parameter, which anybody may call at any time.            *)
AdjustByHand(p, up) ==
  /\ calls < MaxCalls
  /\ calls' = calls + 1
  /\ value' = [value EXCEPT ![p] = AdjustedPrice(p, up)]
  /\ UNCHANGED <<config, backup, targets>>

NextPrices ==
  \/ \E p \in Params, v \in Prices : SetPrice(p, v) \/ UpdateBounds(p, v)
  \/ ResetToDefaults \/ ExportConfig \/ ImportConfig
  \/ \E p \in Params, t \in Targets : SetTarget(p, t)
  \/ \E p \in Params : RemoveTarget(p)
  \/ Lead
  \/ \E p \in Networked, up \in BOOLEAN : AdjustByHand(p, up)

SpecPrices == InitPrices /\ [][NextPrices]_priceVars

-----------------------------------------------------------------------------
(* What a node's prices promise                                            *)

\* A network price keeps within its bounds whoever moves it, and a temporary target
\* never has less than no block left: it acts in as many leaderships as it was set
\* for (DynamicParameterManager, mark_applied).
PricesInBounds ==
  /\ value \in [Networked -> Nat] /\ \A p \in Networked : value[p] \in Least[p] .. Most[p]
  /\ targets \in [Params -> {NoTarget} \cup Absolute \cup Relative
                     \cup [kind : {"temporary"}, goal : {0}, up : BOOLEAN, left : 0 .. MaxDuration]]
  /\ calls \in 0 .. MaxCalls

Distance(x, y) == IF x < y THEN y - x ELSE x - y

\* Every leadership takes a price nearer to its operator's absolute target, until it
\* is within one adjustment of it, from where it cannot get away again although the
\* adjustments do not divide the distance and some are refused at a bound
\* (on_selected_as_block_leader, adjust_block_reward).
LeadersApproach ==
  [][Lead => \A p \in Networked :
       LET goal == targets[p].goal
           before == Distance(value[p], goal)
           after == Distance(value'[p], goal)
       IN  targets[p].kind = "absolute" /\ goal \in Least[p] .. Most[p] =>
             after < before \/ after <= value[p] \div Portion]_priceVars
=============================================================================
