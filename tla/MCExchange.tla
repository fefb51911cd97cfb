------------------------------ MODULE MCExchange ------------------------------
(***************************************************************************)
(* Instances of Exchange: widths small enough that every figure of a quote *)
(* reaches its limit.                                                      *)
(***************************************************************************)
EXTENDS Exchange

mcRates == {0, 1, 3, 7, 15}
mcFeeBps == {0, 1, 2, 5, 6}
mcAmounts == {0, 1, 2, 3, 5, 9, 15}
mcLevels == {0, 4, 15}
=============================================================================
