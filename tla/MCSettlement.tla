---------------------------- MODULE MCSettlement ----------------------------
(* Both legs and reconciliation: two accounts, one deposit, one task of each kind. *)
EXTENDS Settlement, TLC

CONSTANTS u1, u2, r1, h1, q1, o1, d1

MCOneAccount == {u1}
MCTwoAccounts == {u1, u2}
MCOneRef == {r1}
MCOneSeq == {1}
MCOneAmount == {1}
MCReserves == {1}
MCHandlers == {h1}
MCNoAttestors == {}
MCRequesters == {q1}
MCOperators == {o1}
MCHolders == {d1}

AccountSymmetry == Permutations(Account)
=============================================================================
