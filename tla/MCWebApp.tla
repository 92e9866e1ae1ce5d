------------------------------- MODULE MCWebApp -------------------------------
(* WebApp for TLC: a pool that starts at a price of one.  It does not matter *)
(* which click is which.                                                    *)
EXTENDS WebApp, TLC

CONSTANT R0

BothReserves == [p |-> R0, q |-> R0]

ClickSymmetry == Permutations(Clicks)
===============================================================================
