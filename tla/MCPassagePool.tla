---------------------------- MODULE MCPassagePool ----------------------------
(* PassagePool for TLC: every wallet starts with the same amounts.          *)
EXTENDS PassagePool, TLC

CONSTANTS P0, Q0

EveryP == [u \in Users |-> P0]
EveryQ == [u \in Users |-> Q0]

WalletSymmetry == Permutations(Users)
===============================================================================
