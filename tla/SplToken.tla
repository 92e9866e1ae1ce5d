------------------------------- MODULE SplToken -------------------------------
(***************************************************************************)
(* The SPL token programs (Token and Token-2022), as far as the Passage    *)
(* programs use them: what transfer_checked, mint_to and burn require and  *)
(* what they do to the balances of one mint.  The token programs are not   *)
(* part of the repository; every definition here is external.              *)
(*                                                                         *)
(* A ledger is a function from owners to amounts.  The owner stands for    *)
(* its token account of the mint.                                          *)
(***************************************************************************)
EXTENDS Naturals, FiniteSets

CONSTANT MaxU64   \* the largest u64; 2^64 - 1 in the programs

ASSUME MaxU64Assumption == MaxU64 \in Nat

U64 == 0 .. MaxU64

-------------------------------------------------------------------------------
(* transfer_checked: "received" is "sent" less what a transfer-fee mint     *)
(* withholds.  A transfer of an account to itself moves nothing.           *)

CanTransfer(ledger, from, to, sent, received) ==
  /\ sent <= ledger[from]
  /\ from # to => ledger[to] + received <= MaxU64

Transferred(ledger, from, to, sent, received) ==
  IF from = to
    THEN ledger
    ELSE [ledger EXCEPT ![from] = @ - sent, ![to] = @ + received]

(* mint_to and burn keep the supply of the mint beside the balances.       *)

CanMint(ledger, supply, to, amount) ==
  /\ supply + amount <= MaxU64
  /\ ledger[to] + amount <= MaxU64

Minted(ledger, to, amount) == [ledger EXCEPT ![to] = @ + amount]

CanBurn(ledger, supply, from, amount) ==
  /\ amount <= ledger[from]
  /\ amount <= supply

Burned(ledger, from, amount) == [ledger EXCEPT ![from] = @ - amount]

-------------------------------------------------------------------------------
(* The units of a mint that are in some account, each unit named by its    *)
(* owner and its place in the owner's account, and how many there are: the *)
(* sum of the balances.                                                    *)

Units(ledger) ==
  {u \in (DOMAIN ledger) \X (1 .. MaxU64) : u[2] <= ledger[u[1]]}

Total(ledger) == Cardinality(Units(ledger))
===============================================================================
