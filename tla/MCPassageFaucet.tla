--------------------------- MODULE MCPassageFaucet ---------------------------
(* PassageFaucet for TLC: the wallets are interchangeable.                  *)
EXTENDS PassageFaucet, TLC

WalletSymmetry == Permutations(Wallets)
===============================================================================
