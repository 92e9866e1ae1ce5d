--------------------------- MODULE FullReserveProofs ---------------------------
(***************************************************************************)
(* What every implementation of FullReserve inherits.                      *)
(***************************************************************************)
EXTENDS FullReserve, Integers, TLAPS

(* The institution can pay every claim and its whole revenue at any time.   *)
(* The vault program implements FullReserve (PassageWrapperProofs), so its *)
(* asset account always covers the pTokens and the accrued fees.           *)
THEOREM FullyReservedAlways ==
  ASSUME MaxAmount \in Nat
  PROVE  Spec => [](TypeOK /\ FullyReserved)
<1> DEFINE Inv == TypeOK /\ FullyReserved
<1>1. Init => Inv
  BY DEF Init, TypeOK, FullyReserved
<1>2. Inv /\ [Next]_vars => Inv'
  <2> SUFFICES ASSUME Inv, [Next]_vars PROVE Inv'
    OBVIOUS
  <2> USE DEF TypeOK, FullyReserved
  <2>1. CASE TakeRevenue \/ ForgoRevenue
    BY <2>1 DEF TakeRevenue, ForgoRevenue
  <2>2. ASSUME NEW amount \in 0 .. MaxAmount, Gift(amount) PROVE Inv'
    BY <2>2 DEF Gift
  <2>3. ASSUME NEW amount \in 0 .. MaxAmount, Forfeit(amount) PROVE Inv'
    BY <2>3 DEF Forfeit
  <2>4. ASSUME NEW amount \in 0 .. MaxAmount, NEW fee \in 0 .. amount,
               Deposit(amount, fee)
        PROVE  Inv'
    BY <2>4 DEF Deposit
  <2>5. ASSUME NEW amount \in 0 .. MaxAmount, NEW fee \in 0 .. amount,
               Redeem(amount, fee)
        PROVE  Inv'
    BY <2>5 DEF Redeem
  <2>6. CASE UNCHANGED vars
    BY <2>6 DEF vars
  <2> QED BY <2>1, <2>2, <2>3, <2>4, <2>5, <2>6 DEF Next
<1> QED BY <1>1, <1>2, PTL DEF Spec
===============================================================================
