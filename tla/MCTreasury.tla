----------------------------- MODULE MCTreasury -----------------------------
(* The ledger driven by arbitrary callers on a small instance. *)
EXTENDS Treasury

CONSTANTS u1, u2, r1, r2

MCAccount == {u1, u2}
MCRef == {r1, r2}
MCSeq == {1}
MCAmounts == {1, 2}
MCReserves == {1, 3}
=============================================================================
