---------------------------- MODULE MCSpotCheck ----------------------------
(***************************************************************************)
(* Three states of the weights, two steps of training, both, one twice or  *)
(* the other twice drawn; every trace and every witness of that size.      *)
(***************************************************************************)
EXTENDS SpotCheckProps

MCGradient == [x \in States \X (1 .. Steps) |-> 1 + ((x[1] * x[2]) % 2)]
MCApply == [x \in States \X Grads |-> (x[1] + 3 - x[2]) % 3]
MCLoss == [s \in States |-> s]
\* One minibatch dips, one does not, one is not finite, one jumps.
MCCurves == {<<1, 0, 1>>, <<1, 1, 1>>, <<1, NaN, 1>>, <<0, 2, 3>>}
\* Three layers, of which the states share the first.
MCShapes == <<2, 1, 1>>
MCWeights == [s \in States |-> <<42, -18, 5 * s, 12 * s>>]
\* 32 bits hold every other weight: that of 5 is not kept, nor is its level lost.
MCSingle(w) == 2 * RoundedDiv(w, 2)
=============================================================================
