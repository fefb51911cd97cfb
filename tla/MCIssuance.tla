----------------------------- MODULE MCIssuance -----------------------------
(* Two concurrent deliveries, the sweep and one attestor on small instances. *)
EXTENDS Issuance, TLC

CONSTANTS w1, r1, r2, h1, h2, a1, a2

MCAccount == {w1}
MCOneRef == {r1}
MCTwoRefs == {r1, r2}
MCSeq == {}
MCOneAmount == {1}
MCTwoAmounts == {1, 2}
MCReserves == {1, 2}
MCOneHandler == {h1}
MCTwoHandlers == {h1, h2}
MCOneAttestor == {a1}
MCTwoAttestors == {a1, a2}
HandlerSymmetry == Permutations(MCTwoHandlers)
=============================================================================
