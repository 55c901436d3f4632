------------------------- MODULE PogoFinalityProps -------------------------
(***************************************************************************)
(* What attestation, finalisation and slashing promise.                    *)
(***************************************************************************)
EXTENDS PogoFinality

\* Attestations of an address that no finalisation has dealt with yet.
Awaiting(a) == SumFunctionOnSet([b \in Blocks |-> Cast(pending[b], a)], Blocks)

Tallies == [Addresses -> [Votes -> Nat]]

\* An attestation is decided upon once: it is pending, or it counted for one
\* finalisation, or a veto dropped it; and the one reward it stands for is liquid,
\* is staked, was not to be had from genesis any more, or went with a penalty
\* (finalize_block_with_economics).
AttestationsCountOnce ==
  \A a \in Addresses : credit[a] = Reward * Awaiting(a) + stake[a] + liquid[a] + forgone[a]

\* "so verifiers always audit a single committed head": while a block this node
\* trained is in phase 1 or 2, no round begins that trains its model again
\* (_model_locked_for_phase2_or_finalization), although peers' and finalised
\* blocks shift heights meanwhile.  Two heads of a model are audited at once only
\* if two threads were building them side by side: the lock does not see a block
\* before it is appended.
AuditedHeadIsSingle ==
  \A b, c \in tracked :
    /\ b # c /\ Model[b] = Model[c] /\ Model[b] # Noop /\ Steps[b] > 0 /\ index[b] <= index[c]
    /\ <<b, c>> \notin beside /\ <<c, b>> \notin beside
    => CurrentPhase(index[c], index[b]) = "finalization"

\* A percentage of the stake never reaches the liquid balance, also when one
\* finalisation finds an address guilty twice of the same stake.
SlashingStaysWithinStake ==
  [][\A a \in Addresses : reputation'[a] # reputation[a] => liquid'[a] >= liquid[a]]_vars
=============================================================================
