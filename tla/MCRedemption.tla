---------------------------- MODULE MCRedemption ----------------------------
(* Small sets of concurrent calls on one or two redemptions of one holder. *)
EXTENDS Redemption, TLC

CONSTANTS u1, r1, q1, q2, o1, o2, h1

MCAccount == {u1}
MCOneRef == {r1}
MCOneSeq == {1}
MCTwoSeqs == {1, 2}
MCOneAmount == {1}
MCReserves == {2}
MCOneRequester == {q1}
MCTwoRequesters == {q1, q2}
MCOneOperator == {o1}
MCTwoOperators == {o1, o2}
MCHolders == {h1}
CallSymmetry == Permutations(MCTwoRequesters) \cup Permutations(MCTwoOperators)
=============================================================================
