---------------------------- MODULE MCPassageGate ----------------------------
(* PassageGate for TLC: no wallet is special.                               *)
EXTENDS PassageGate, TLC

WalletSymmetry == Permutations(Wallets)
===============================================================================
