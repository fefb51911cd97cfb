---------------------------- MODULE MCChainBridge ----------------------------
(* Two or three calls over a small stream; two of them may be for one intent. *)
EXTENDS ChainBridge, TLC

CONSTANTS c1, c2, c3, r1, r2, k1

MCOneCall == {c1}
MCTwoCalls == {c1, c2}
MCThreeCalls == {c1, c2, c3}
MCNone == {}
MCOneMint == {r1}
MCTwoMints == {r1, r2}
MCOneBurn == {k1}
MCFigures == {1, 2}
MCOneFigure == {1}
CallSymmetry == Permutations(MCThreeCalls)
TwoCallSymmetry == Permutations(MCTwoCalls)
MintSymmetry == Permutations(MCTwoMints)
=============================================================================
