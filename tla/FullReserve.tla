----------------------------- MODULE FullReserve -----------------------------
(***************************************************************************)
(* What the vault promises, without wallets, mints or fee rates: an        *)
(* institution that holds assets in custody, has issued claims on them and *)
(* has earned a revenue it has not yet taken out.  Claims are only issued  *)
(* against assets that came in, and assets only leave against claims that  *)
(* are handed back or as earned revenue.                                   *)
(***************************************************************************)
EXTENDS Naturals

CONSTANT MaxAmount   \* the largest amount one operation moves

VARIABLES custody,   \* assets held
          issued,    \* claims outstanding
          revenue    \* earned, still in custody

vars == <<custody, issued, revenue>>

Init == custody = 0 /\ issued = 0 /\ revenue = 0

\* Assets come in; claims are issued for them, less a fee.
Deposit(amount, fee) ==
  /\ custody' = custody + amount
  /\ issued' = issued + (amount - fee)
  /\ revenue' = revenue + fee

\* Claims are handed back and paid out, less a fee.
Redeem(amount, fee) ==
  /\ amount <= issued
  /\ issued' = issued - amount
  /\ custody' = custody - (amount - fee)
  /\ revenue' = revenue + fee

\* The whole revenue is taken out.
TakeRevenue ==
  /\ custody' = custody - revenue
  /\ revenue' = 0
  /\ UNCHANGED issued

\* The revenue is given up: it stays in custody, and nobody can take it.
ForgoRevenue ==
  /\ revenue' = 0
  /\ UNCHANGED <<custody, issued>>

\* Assets come in for nothing.
Gift(amount) ==
  /\ custody' = custody + amount
  /\ UNCHANGED <<issued, revenue>>

\* A holder destroys claims without redeeming them.
Forfeit(amount) ==
  /\ amount <= issued
  /\ issued' = issued - amount
  /\ UNCHANGED <<custody, revenue>>

Next ==
  \/ TakeRevenue \/ ForgoRevenue
  \/ \E amount \in 0 .. MaxAmount :
       \/ Gift(amount)
       \/ Forfeit(amount)
       \/ \E fee \in 0 .. amount : Deposit(amount, fee) \/ Redeem(amount, fee)

Spec == Init /\ [][Next]_vars

-------------------------------------------------------------------------------
TypeOK == custody \in Nat /\ issued \in Nat /\ revenue \in Nat

(* Every claim and the whole revenue can be paid at once, whatever was      *)
(* deposited, redeemed and taken out before.                               *)
FullyReserved == custody >= issued + revenue
===============================================================================
