--------------------------- MODULE MCPassageWrapper ---------------------------
(***************************************************************************)
(* PassageWrapper for TLC.  The wallets are interchangeable.               *)
(***************************************************************************)
EXTENDS PassageWrapper, TLC

WalletSymmetry == Permutations(Wallets)
===============================================================================
