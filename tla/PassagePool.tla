----------------------------- MODULE PassagePool -----------------------------
(***************************************************************************)
(* The gated constant-product pool (programs/passage_pool): one pToken     *)
(* against one quote token.  Reserves are the balances of the pool PDA's   *)
(* own accounts, read at the start of each instruction; LP tokens are a    *)
(* classic mint, which the hook knows nothing about.  pToken transfers go  *)
(* through the transfer hook, in either direction.                         *)
(*                                                                         *)
(* An instruction is one action: any failed check or CPI undoes it whole.  *)
(* Around the program, wallets move all three tokens themselves and the    *)
(* registry changes; wrapping and unwrapping are in PassageWrapper.        *)
(***************************************************************************)
EXTENDS SplToken, Integers

CONSTANTS
  Users,          \* wallets
  PoolPda,        \* the pool PDA: it needs a credential like anybody else
  NoKey,          \* an absent credential PDA
  SWAP_FEE_BPS,   \* 25 in the code
  BPS,            \* 10_000 in the code
  PEndowment,     \* bound: pTokens of each wallet at the start
  QEndowment,     \* bound: quote tokens of each wallet at the start
  Amounts         \* bound: the amounts instructions are called with

ASSUME PoolAssumption ==
  /\ IsFiniteSet(Users)
  /\ PoolPda \notin Users
  /\ NoKey \notin Users \cup {PoolPda}
  /\ BPS \in Nat \ {0}
  /\ SWAP_FEE_BPS \in 0 .. BPS
  /\ PEndowment \in [Users -> U64]
  /\ QEndowment \in [Users -> U64]
  /\ Amounts \subseteq U64

Owners == Users \cup {PoolPda}

VARIABLES
  pool,         \* the Pool account, its token accounts and LP mint exist
  pToken,       \* pToken balance of each owner
  quote,        \* quote balance of each owner
  lp,           \* LP balance of each wallet
  lpSupply,     \* supply of the LP mint
  credential    \* the registry's credential PDA of each owner

vars == <<pool, pToken, quote, lp, lpSupply, credential>>

Hook == INSTANCE PassageHook WITH metaList <- TRUE

\* What is in circulation, before the pool has any of it.
InitialP == [o \in Owners |-> IF o = PoolPda THEN 0 ELSE PEndowment[o]]
InitialQ == [o \in Owners |-> IF o = PoolPda THEN 0 ELSE QEndowment[o]]

\* The supply of either mint is a u64.
ASSUME SupplyAssumption == Total(InitialP) <= MaxU64 /\ Total(InitialQ) <= MaxU64

Init ==
  /\ pool = FALSE
  /\ pToken = InitialP
  /\ quote = InitialQ
  /\ lp = [u \in Users |-> 0]
  /\ lpSupply = 0
  /\ credential = [o \in Owners |-> NoKey]

ReserveP == pToken[PoolPda]
ReserveQ == quote[PoolPda]

-------------------------------------------------------------------------------
(* Arithmetic.  Every product of two u64 fits the u128 it is computed in.   *)

\* Mutant: a single step of the iteration.
integer_sqrt_once(v) == IF v = 0 THEN 0 ELSE (v + 1) \div 2

\* Newton's iteration from above stops where it no longer falls.
NewtonStep(v, x) == (x + v \div x) \div 2

NewtonStop(v) ==
  LET stop[x \in 1 .. v] ==
        IF NewtonStep(v, x) < x THEN stop[NewtonStep(v, x)] ELSE x
  IN  stop

integer_sqrt(v) == IF v = 0 THEN 0 ELSE NewtonStop(v)[v]

\* "as u64": the low bits of a u128.
AsU64(n) == n % (MaxU64 + 1)

\* Mutant: the share is rounded up.
ShareUp(amount, part, whole) == (amount * part + whole - 1) \div whole

\* The share that amount has in whole, taken of part.
Share(amount, part, whole) == (amount * part) \div whole

\* Mutant: the output is rounded up.
SwapOutUp(amount_in, reserve_in, reserve_out) ==
  LET in_after_fee == (amount_in * (BPS - SWAP_FEE_BPS)) \div BPS
  IN  (reserve_out * in_after_fee + reserve_in) \div (reserve_in + in_after_fee)

SwapOut(amount_in, reserve_in, reserve_out) ==
  LET in_after_fee == (amount_in * (BPS - SWAP_FEE_BPS)) \div BPS
  IN  (reserve_out * in_after_fee) \div (reserve_in + in_after_fee)

-------------------------------------------------------------------------------
(* Token movements *)

\* transfer_p_token: a CPI to Token-2022, which calls the hook.
CanMoveP(from, to, amount) ==
  /\ CanTransfer(pToken, from, to, amount, amount)
  /\ Hook!TransferHook(from, to)

MoveP(from, to, amount) ==
  /\ CanMoveP(from, to, amount)
  /\ pToken' = Transferred(pToken, from, to, amount, amount)

CanMoveQuote(from, to, amount) == CanTransfer(quote, from, to, amount, amount)

MoveQuote(from, to, amount) ==
  /\ CanMoveQuote(from, to, amount)
  /\ quote' = Transferred(quote, from, to, amount, amount)

-------------------------------------------------------------------------------
(* What the account constraints of the instructions ask of the state *)

InitializePoolAccounts == ~pool     \* init of the pool, its accounts, the LP mint
ModifyLiquidityAccounts == pool
SwapAccounts == pool

-------------------------------------------------------------------------------
(* Instructions *)

InitializePool ==
  /\ InitializePoolAccounts
  /\ pool' = TRUE
  /\ UNCHANGED <<pToken, quote, lp, lpSupply, credential>>

Deposit(user, use_p, use_q, mint_lp) ==
  /\ mint_lp > 0
  /\ MoveP(user, PoolPda, use_p)
  /\ MoveQuote(user, PoolPda, use_q)
  /\ CanMint(lp, lpSupply, user, AsU64(mint_lp))
  /\ lp' = Minted(lp, user, AsU64(mint_lp))
  /\ lpSupply' = lpSupply + AsU64(mint_lp)
  /\ UNCHANGED <<pool, credential>>

AddLiquidity(user, amount_p, max_quote) ==
  /\ ModifyLiquidityAccounts
  /\ amount_p > 0 /\ max_quote > 0
  /\ IF lpSupply = 0
       THEN Deposit(user, amount_p, max_quote, integer_sqrt(amount_p * max_quote))
       ELSE LET need_q == Share(amount_p, ReserveQ, ReserveP)
            IN  /\ ReserveP > 0             \* or the division panics
                /\ need_q <= max_quote
                /\ Deposit(user, amount_p, need_q,
                           Share(amount_p, lpSupply, ReserveP))

\* Every check a withdrawal passes, its CPIs' included.
CanRemoveLiquidity(user, lp_amount) ==
  /\ ModifyLiquidityAccounts
  /\ lp_amount > 0 /\ lpSupply > 0
  /\ LET out_p == Share(lp_amount, ReserveP, lpSupply)
         out_q == Share(lp_amount, ReserveQ, lpSupply)
     IN  /\ out_p > 0 /\ out_q > 0
         /\ CanBurn(lp, lpSupply, user, lp_amount)
         /\ CanMoveP(PoolPda, user, out_p)
         /\ CanMoveQuote(PoolPda, user, out_q)

\* Mutant: the LP tokens are not burned.
RemoveLiquidityUnburned(user, lp_amount) ==
  /\ CanRemoveLiquidity(user, lp_amount)
  /\ MoveP(PoolPda, user, Share(lp_amount, ReserveP, lpSupply))
  /\ MoveQuote(PoolPda, user, Share(lp_amount, ReserveQ, lpSupply))
  /\ UNCHANGED <<pool, lp, lpSupply, credential>>

RemoveLiquidity(user, lp_amount) ==
  /\ CanRemoveLiquidity(user, lp_amount)
  /\ lp' = Burned(lp, user, lp_amount)
  /\ lpSupply' = lpSupply - lp_amount
  /\ MoveP(PoolPda, user, Share(lp_amount, ReserveP, lpSupply))
  /\ MoveQuote(PoolPda, user, Share(lp_amount, ReserveQ, lpSupply))
  /\ UNCHANGED <<pool, credential>>

Swap(user, amount_in, min_out, p_to_quote) ==
  /\ SwapAccounts
  /\ amount_in > 0
  /\ ReserveP > 0 /\ ReserveQ > 0
  /\ LET amount_out == IF p_to_quote THEN SwapOut(amount_in, ReserveP, ReserveQ)
                                     ELSE SwapOut(amount_in, ReserveQ, ReserveP)
     IN  /\ amount_out >= min_out
         /\ amount_out > 0
         /\ IF p_to_quote
              THEN /\ MoveP(user, PoolPda, amount_in)
                   /\ MoveQuote(PoolPda, user, amount_out)
              ELSE /\ MoveQuote(user, PoolPda, amount_in)
                   /\ MoveP(PoolPda, user, amount_out)
  /\ UNCHANGED <<pool, lp, lpSupply, credential>>

-------------------------------------------------------------------------------
(* What happens around the program *)

\* The registry verifies or revokes any owner, the pool PDA included.
Verify(owner) ==
  /\ credential[owner] = NoKey
  /\ credential' = [credential EXCEPT ![owner] = owner]
  /\ UNCHANGED <<pool, pToken, quote, lp, lpSupply>>

Revoke(owner) ==
  /\ credential[owner] # NoKey
  /\ credential' = [credential EXCEPT ![owner] = NoKey]
  /\ UNCHANGED <<pool, pToken, quote, lp, lpSupply>>

\* Wallets send tokens to each other, or give them to the pool.
TransferPToken(from, to, amount) ==
  /\ pool \/ to # PoolPda
  /\ MoveP(from, to, amount)
  /\ UNCHANGED <<pool, quote, lp, lpSupply, credential>>

TransferQuote(from, to, amount) ==
  /\ pool \/ to # PoolPda
  /\ MoveQuote(from, to, amount)
  /\ UNCHANGED <<pool, pToken, lp, lpSupply, credential>>

TransferLp(from, to, amount) ==
  /\ CanTransfer(lp, from, to, amount, amount)
  /\ lp' = Transferred(lp, from, to, amount, amount)
  /\ UNCHANGED <<pool, pToken, quote, lpSupply, credential>>

BurnLp(holder, amount) ==
  /\ CanBurn(lp, lpSupply, holder, amount)
  /\ lp' = Burned(lp, holder, amount)
  /\ lpSupply' = lpSupply - amount
  /\ UNCHANGED <<pool, pToken, quote, credential>>

-------------------------------------------------------------------------------
Program ==
  \/ InitializePool
  \/ \E u \in Users, a \in Amounts, q \in Amounts : AddLiquidity(u, a, q)
  \/ \E u \in Users, n \in Amounts : RemoveLiquidity(u, n)
  \/ \E u \in Users, n \in Amounts, m \in Amounts, b \in BOOLEAN : Swap(u, n, m, b)

Environment ==
  \/ \E o \in Owners : Verify(o) \/ Revoke(o)
  \/ \E u \in Users, o \in Owners, n \in Amounts :
       TransferPToken(u, o, n) \/ TransferQuote(u, o, n)
  \/ \E u, v \in Users, n \in Amounts : TransferLp(u, v, n)
  \/ \E u \in Users, n \in Amounts : BurnLp(u, n)

Next == Program \/ Environment

Spec == Init /\ [][Next]_vars

-------------------------------------------------------------------------------
(* Properties *)

TypeOK ==
  /\ pool \in BOOLEAN
  /\ pToken \in [Owners -> U64]
  /\ quote \in [Owners -> U64]
  /\ lp \in [Users -> U64]
  /\ lpSupply \in U64
  /\ credential \in [Owners -> Owners \cup {NoKey}]

(* As long as an LP token exists, both reserves are positive: no instruction*)
(* divides by zero or finds the pool empty while somebody owns a share of  *)
(* it (lib.rs:57-59, 130-131, 198), whatever was swapped out before.       *)
LpBacked == lpSupply > 0 => ReserveP > 0 /\ ReserveQ > 0

(* The reserves behind one LP token, as their product, never fall in a step *)
(* that issues no LP token: swaps pay their fee to the pool, withdrawals   *)
(* round against the one who leaves (lib.rs:8 "25 bps swap fee that accrues*)
(* to LPs").                                                               *)
LpShareNeverFalls ==
  [][0 < lpSupply' /\ lpSupply' <= lpSupply =>
       ReserveP' * ReserveQ' * lpSupply * lpSupply
         >= ReserveP * ReserveQ * lpSupply' * lpSupply']_vars

(* Nothing is created or lost: the wallets and the pool together own what   *)
(* there was at the start, and every LP token is in some wallet.           *)
Circulation ==
  /\ Total(pToken) = Total(InitialP)
  /\ Total(quote) = Total(InitialQ)
  /\ Total(lp) = lpSupply

(* What makes LpBacked and OnlyDustIsRefused inductive: only a pool that    *)
(* exists has LP tokens, and a credential names the owner it is found at.  *)
Inductive ==
  /\ TypeOK
  /\ lpSupply > 0 => pool
  /\ \A o \in Owners : credential[o] \in {NoKey, o}
  /\ LpBacked
  /\ Circulation

(* A deposit taken out again at once, with nothing in between, never yields *)
(* more of either token than was put in, whatever the rounding of the      *)
(* three divisions (lib.rs:57, 59, 130-131).                               *)
NoProfitFromDeposit ==
  lpSupply > 0 =>
    \A a \in Amounts \ {0} :
      LET need_q == Share(a, ReserveQ, ReserveP)
          minted == Share(a, lpSupply, ReserveP)
      IN  /\ Share(minted, ReserveP + a, lpSupply + minted) <= a
          /\ Share(minted, ReserveQ + need_q, lpSupply + minted) <= need_q

(* A later deposit dilutes nobody: every LP token is backed by at least as  *)
(* many pTokens as before, and short of a single base unit in the whole    *)
(* pool by as many quote tokens (lib.rs:40-41, 57-59: need_q and mint_lp   *)
(* are rounded down separately, and mint_lp is cut to a u64).              *)
DepositDilutesNobody ==
  [][lpSupply > 0 /\ lpSupply' > lpSupply =>
       /\ ReserveP' * lpSupply >= ReserveP * lpSupply'
       /\ (ReserveQ' + 1) * lpSupply >= ReserveQ * lpSupply']_vars

(* A later deposit is credited with its whole share of the supply: the cast *)
(* "mint_lp as u64" (lib.rs:107) drops nothing.                            *)
DepositsCreditedInFull ==
  [][lpSupply > 0 /\ lpSupply' > lpSupply =>
       lpSupply' - lpSupply = Share(ReserveP' - ReserveP, lpSupply, ReserveP)]_vars

(* A holder with a credential is refused the withdrawal of LP tokens for    *)
(* one reason only: their share of a reserve is under one base unit        *)
(* (lib.rs:132), which the share of all LP tokens never is.  Neither a     *)
(* revoked pool nor a full account, nor what others did, is one.  Several  *)
(* small holders can be refused for that reason all together.              *)
OnlyDustIsRefused ==
  \A u \in Users : credential[u] # NoKey =>
    \A n \in 1 .. lp[u] :
      \/ CanRemoveLiquidity(u, n)
      \/ /\ n < lpSupply
         /\ n * ReserveP < lpSupply \/ n * ReserveQ < lpSupply

(* Whoever finds no LP token in existence, be it for the first time or after*)
(* everybody left, is credited with the integer square root of what it     *)
(* brings: Newton's iteration (lib.rs:309-320) stops neither early nor late.*)
EmptyPoolCreditsSqrt ==
  [][lpSupply = 0 /\ lpSupply' > 0 =>
       LET product == (ReserveP' - ReserveP) * (ReserveQ' - ReserveQ)
       IN  /\ lpSupply' * lpSupply' <= product
           /\ product < (lpSupply' + 1) * (lpSupply' + 1)]_vars
===============================================================================
