----------------------------- MODULE AgreedLog -----------------------------
(***************************************************************************)
(* What a replicated chain looks like from outside: one log of blocks,     *)
(* extended by one node at a time that already holds all of it, and copied *)
(* block by block, in order, by the others.                                *)
(***************************************************************************)
EXTENDS Integers, Sequences

CONSTANTS Nodes, Genesis

VARIABLES log, copy

vars == <<log, copy>>

Init == log = <<Genesis>> /\ copy = [n \in Nodes |-> <<Genesis>>]

\* A new block names its position and the hash of its parent.
Links(b) == b.index = Len(log) /\ b.prev = log[Len(log)].hash

Propose(n) ==
  /\ copy[n] = log
  /\ Len(log') = Len(log) + 1
  /\ SubSeq(log', 1, Len(log)) = log
  /\ Links(log'[Len(log')]) /\ log'[Len(log')].miner = n
  /\ copy' = [copy EXCEPT ![n] = log']

Learn(n) ==
  /\ Len(copy[n]) < Len(log)
  /\ copy' = [copy EXCEPT ![n] = Append(@, log[Len(@) + 1])]
  /\ UNCHANGED log

Next == \E n \in Nodes : Learn(n) \/ Propose(n)

Spec == Init /\ [][Next]_vars
=============================================================================
