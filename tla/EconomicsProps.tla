-------------------------- MODULE EconomicsProps --------------------------
(***************************************************************************)
(* What the ledger promises.                                               *)
(***************************************************************************)
EXTENDS Economics

TypeOK ==
  /\ period \in Periods
  /\ height \in 0 .. MaxHeight /\ index \in 0 .. MaxHeight
  /\ balance \in [Holders -> Nat]
  /\ staked \in [Accounts -> Nat] /\ virtual \in [Accounts -> Nat]
  /\ due \in [Accounts -> [Blocks -> Nat]]
  /\ escrow \in [Models -> Nat]
  /\ emitted \in Nat /\ wallet \in Nat
  /\ order \in [Accounts -> Nat]
  /\ slashed \subseteq Accounts /\ todo \subseteq Accounts
  /\ materialised \in BOOLEAN
  /\ stage \in {"idle", "joined", "round", "checked", "training", "mature", "reward", "pay",
                "rank", "append"}
  /\ model \in Models \cup {Noop}
  /\ calls \in Nat

\* Genesis never pays out more than it has: what was emitted and what genesis
\* still holds are the supply it started with (_mint_from_genesis,
\* materialize_bootstrap_survivor).
EmissionIsBacked == balance[Genesis] + emitted = Supply - StartLiquid * Cardinality(Accounts)

\* No token appears or vanishes: liquid, staked, unbonding and escrowed tokens
\* add up to the supply, what the wallet brought in and what "system" issued,
\* less what slashing destroyed, whatever settles while callers move tokens.
Conserved ==
  LET unbonding == [a \in Accounts |-> due[a][MaxHeight + Cooldown]]
  IN  SumFunction(balance) + SumFunction(staked) + SumFunction(unbonding) + SumFunction(escrow)
        + wallet + burnt = Supply + StartWallet + issued

\* Stake that is asked back stays locked for its cooldown: of the principal
\* that unlocks above the current height nothing ever leaves the queue.
UnbondingStaysLocked ==
  [][\A a \in Accounts : \A u \in Blocks :
       u > height => due[a][u] - due[a][height] <= due'[a][u] - due'[a][height]]_vars

\* Virtual stake is a claim of a registered, unslashed participant that is
\* settled exactly once: none is left when the bootstrap has materialised.
VirtualStakeIsClaimedOnce ==
  \A a \in Accounts : virtual[a] > 0 =>
    /\ virtual[a] = VirtualStake /\ a \in Participants
    /\ materialised => FALSE
    /\ stage = "mature" => a \in todo

\* The ranking slash never empties the active set: while the bootstrap lasts
\* and somebody has registered, somebody may mine.
SomebodyMayMine == Registered # {} => Active # {}
=============================================================================
