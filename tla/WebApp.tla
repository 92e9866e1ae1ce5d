-------------------------------- MODULE WebApp --------------------------------
(***************************************************************************)
(* The swap side of the web page (app/index.html) in front of the pool.    *)
(* The page quotes from reserves it read some time ago, in two separate    *)
(* requests; a click on Swap fixes amount, direction and the smallest      *)
(* acceptable output at once and then waits for the wallet, the cluster    *)
(* and a refresh, while the user goes on clicking, other wallets trade and *)
(* refreshes finish in any order.                                          *)
(*                                                                         *)
(* Amounts are base units; the page's floating-point quote is a rational   *)
(* number here.  Everybody is verified.  Wrapping and claiming from the    *)
(* page, the balances it shows and its messages are left out.              *)
(***************************************************************************)
EXTENDS Integers

CONSTANTS
  Me, Other,              \* the page's wallet, and one that trades elsewhere
  PoolPda, NoKey, MaxU64, BPS,
  SWAP_FEE_BPS,           \* CONFIG.swapFeeBps, and the pool's
  Amounts,                \* bound: what can be typed in
  Endowment,              \* tokens of either kind that each wallet starts with
  InitialReserves,        \* the pool's, as a record [p, q]
  Clicks,                 \* bound: the clicks on Swap
  MaxTrades,              \* bound: the swaps of other wallets
  OtherSells,             \* bound: their directions, TRUE for selling pTokens
  MaxFailures             \* bound: the requests that fail

ASSUME AppAssumption ==
  /\ Me # Other /\ PoolPda \notin {Me, Other}
  /\ BPS \in Nat \ {0} /\ SWAP_FEE_BPS \in 0 .. BPS
  /\ Amounts \subseteq 1 .. MaxU64
  /\ MaxU64 \in Nat /\ Endowment \in 0 .. MaxU64
  /\ InitialReserves \in [p : 0 .. MaxU64, q : 0 .. MaxU64]
  /\ OtherSells \subseteq BOOLEAN
  /\ MaxTrades \in Nat /\ MaxFailures \in Nat

VARIABLES
  pToken, quote, pool, lp, lpSupply, credential,   \* the pool's chain
  trades, failures,       \* swaps of others and failed requests so far
  mode, sellP, amountIn,  \* what the user chose and typed
  reserves,               \* the reserves the page believes in
  amountOut,              \* the output the page shows
  reads,                  \* the refreshes under way
  clicks,                 \* where the handler of each click on Swap is
  txs                     \* the transaction of each click

ledgers == <<pToken, quote, pool, lp, lpSupply, credential>>
form == <<mode, sellP, amountIn>>
bounds == <<trades, failures>>
vars == <<ledgers, bounds, form, reserves, amountOut, reads, clicks, txs>>

Users == {Me, Other}
Owners == Users \cup {PoolPda}

Pool == INSTANCE PassagePool WITH
  PEndowment <- [u \in Users |-> Endowment],
  QEndowment <- [u \in Users |-> Endowment]

ChainReserves == [p |-> pToken[PoolPda], q |-> quote[PoolPda]]

Page == "page"                  \* the refresh started by opening the Swap tab
Readers == Clicks \cup {Page}
Unread == -1
NotReading == [on |-> FALSE, p |-> Unread, q |-> Unread]
Reading == [on |-> TRUE, p |-> Unread, q |-> Unread]

\* A transaction that is about to be sent, or was.
Tx == [state : {"unsent", "pending"}, amount : Amounts, sellP : BOOLEAN,
       minOut : Nat, shown : Nat]

NoTx == [state |-> "none"]
Included == [state |-> "included"]      \* in a block, with success or an error
Pending == {c \in Clicks : txs[c].state = "pending"}

Init ==
  /\ pToken = [o \in Owners |-> IF o = PoolPda THEN InitialReserves.p ELSE Endowment]
  /\ quote = [o \in Owners |-> IF o = PoolPda THEN InitialReserves.q ELSE Endowment]
  /\ pool = TRUE /\ lp = [u \in Users |-> 0] /\ lpSupply = InitialReserves.p
  /\ credential = [o \in Owners |-> o]
  /\ trades = 0 /\ failures = 0
  /\ mode = "wrap" /\ sellP = TRUE /\ amountIn = 0
  /\ reserves = [p |-> 0, q |-> 0]
  /\ amountOut = 0
  /\ reads = [r \in Readers |-> NotReading]
  /\ clicks = [c \in Clicks |-> "none"]
  /\ txs = [c \in Clicks |-> NoTx]

-------------------------------------------------------------------------------
(* The quote *)

\* k times what v buys of r, rounded down: the fee is taken off the input.
QuoteSwap(v, sell, r, k) ==
  LET rIn == IF sell THEN r.p ELSE r.q
      rOut == IF sell THEN r.q ELSE r.p
      bought == rOut * v * (BPS - SWAP_FEE_BPS)
      of == rIn * BPS + v * (BPS - SWAP_FEE_BPS)
  IN  IF rIn = 0 \/ rOut = 0 THEN 0
      ELSE k * (bought \div of) + (k * (bought % of)) \div of

\* The quote as shown: to the nearest unit.
Recalc(m, v, sell, r) ==
  IF m = "swap" THEN (QuoteSwap(v, sell, r, 2) + 1) \div 2 ELSE 0

\* Mutants: no tolerance; whatever the pool pays.
MinOutExact(v) == QuoteSwap(v, sellP, reserves, 2) \div 2 + 1

MinOutAny(v) == 1

\* 99% of the quote, but at least one unit.
MinOut(v) ==
  LET limit == QuoteSwap(v, sellP, reserves, 99) \div 100
  IN  IF limit > 1 THEN limit ELSE 1

-------------------------------------------------------------------------------
(* The form *)

SetMode(m, sell) ==
  /\ mode' = m /\ sellP' = sell
  /\ amountOut' = Recalc(m, amountIn, sell, reserves)
  /\ UNCHANGED <<ledgers, bounds, amountIn, reserves, clicks, txs>>

TabWrap == SetMode("wrap", sellP) /\ UNCHANGED reads

\* The refresh is not awaited: an earlier one may still be under way.
TabSwap ==
  /\ ~reads[Page].on                    \* bound: one of them at a time
  /\ SetMode("swap", sellP)
  /\ reads' = [reads EXCEPT ![Page] = Reading]

Flip == mode = "swap" /\ SetMode("swap", ~sellP) /\ UNCHANGED reads

Type(v) ==
  /\ amountIn' = v
  /\ amountOut' = Recalc(mode, v, sellP, reserves)
  /\ UNCHANGED <<ledgers, bounds, mode, sellP, reserves, reads, clicks, txs>>

-------------------------------------------------------------------------------
(* refreshPool: two requests, each of which counts as 0 when it fails *)

Answer(reserve, answer) ==
  \/ answer = reserve /\ UNCHANGED failures
  \/ answer = 0 /\ failures < MaxFailures /\ failures' = failures + 1

ReadP(r) ==
  /\ reads[r].on /\ reads[r].p = Unread
  /\ \E p \in {ChainReserves.p, 0} :
       /\ Answer(ChainReserves.p, p)
       /\ reads' = [reads EXCEPT ![r].p = p]
  /\ UNCHANGED <<ledgers, trades, form, reserves, amountOut, clicks, txs>>

ReadQ(r) ==
  /\ reads[r].on /\ reads[r].q = Unread
  /\ \E q \in {ChainReserves.q, 0} :
       /\ Answer(ChainReserves.q, q)
       /\ reads' = [reads EXCEPT ![r].q = q]
  /\ UNCHANGED <<ledgers, trades, form, reserves, amountOut, clicks, txs>>

\* Mutant: the quote on the page is not computed again.
ShownAfterReadKept(r) == amountOut

ShownAfterRead(r) == Recalc(mode, amountIn, sellP, r)

\* The last to finish wins.  A click waits for its own refresh.
FinishRead(r) ==
  /\ reads[r].on /\ reads[r].p # Unread /\ reads[r].q # Unread
  /\ reserves' = [p |-> reads[r].p, q |-> reads[r].q]
  /\ amountOut' = ShownAfterRead(reserves')
  /\ reads' = [reads EXCEPT ![r] = NotReading]
  /\ clicks' = IF r = Page THEN clicks ELSE [clicks EXCEPT ![r] = "done"]
  /\ UNCHANGED <<ledgers, bounds, form, txs>>

-------------------------------------------------------------------------------
(* doSwap.  The button is not disabled while a click is being handled.      *)

Click(c) ==
  /\ clicks[c] = "none"
  /\ mode = "swap" /\ amountIn # 0
  /\ clicks' = [clicks EXCEPT ![c] = "signing"]
  /\ txs' = [txs EXCEPT ![c] =
       [state |-> "unsent", amount |-> amountIn, sellP |-> sellP,
        minOut |-> MinOut(amountIn), shown |-> amountOut]]
  /\ UNCHANGED <<ledgers, bounds, form, reserves, amountOut, reads>>

\* Blockhash, wallet and preflight: any of them may end the click.
Send(c) ==
  /\ clicks[c] = "signing"
  /\ \/ /\ clicks' = [clicks EXCEPT ![c] = "confirming"]
        /\ txs' = [txs EXCEPT ![c].state = "pending"]
     \/ /\ clicks' = [clicks EXCEPT ![c] = "done"]
        /\ txs' = [txs EXCEPT ![c] = NoTx]
  /\ UNCHANGED <<ledgers, bounds, form, reserves, amountOut, reads>>

\* confirmTransaction resolves for a transaction in a block, be its result an
\* error.
Confirm(c) ==
  /\ clicks[c] = "confirming" /\ txs[c] = Included
  /\ clicks' = [clicks EXCEPT ![c] = "refreshing"]
  /\ reads' = [reads EXCEPT ![c] = Reading]
  /\ UNCHANGED <<ledgers, bounds, form, reserves, amountOut, txs>>

\* The library gives up after a while, also on a transaction still to land.
Timeout(c) ==
  /\ clicks[c] = "confirming"
  /\ clicks' = [clicks EXCEPT ![c] = "done"]
  /\ UNCHANGED <<ledgers, bounds, form, reserves, amountOut, reads, txs>>

-------------------------------------------------------------------------------
(* The cluster *)

Swap(c) == Pool!Swap(Me, txs[c].amount, txs[c].minOut, txs[c].sellP)

\* Or never: its blockhash gets too old.
Land(c) ==
  /\ c \in Pending
  /\ Swap(c) \/ (~ENABLED Swap(c) /\ UNCHANGED ledgers)
  /\ txs' = [txs EXCEPT ![c] = Included]
  /\ UNCHANGED <<bounds, form, reserves, amountOut, reads, clicks>>

OtherTrades(amount, sell) ==
  /\ trades < MaxTrades
  /\ trades' = trades + 1
  /\ Pool!Swap(Other, amount, 0, sell)
  /\ UNCHANGED <<failures, form, reserves, amountOut, reads, clicks, txs>>

-------------------------------------------------------------------------------
User ==
  \/ TabWrap \/ TabSwap \/ Flip
  \/ \E v \in Amounts : Type(v)
  \/ \E c \in Clicks : Click(c)

Handlers(c) == Send(c) \/ Confirm(c) \/ Timeout(c)

Requests(r) == ReadP(r) \/ ReadQ(r) \/ FinishRead(r)

Cluster ==
  \/ \E c \in Clicks : Land(c)
  \/ \E v \in Amounts, sell \in OtherSells : OtherTrades(v, sell)

Next ==
  \/ User
  \/ \E c \in Clicks : Handlers(c)
  \/ \E r \in Readers : Requests(r)
  \/ Cluster

Spec == Init /\ [][Next]_vars

-------------------------------------------------------------------------------
(* Properties *)

TypeOK ==
  /\ Pool!TypeOK
  /\ mode \in {"wrap", "swap"} /\ sellP \in BOOLEAN /\ amountIn \in Amounts \cup {0}
  /\ reserves \in [p : Nat, q : Nat] /\ amountOut \in Nat
  /\ reads \in [Readers -> [on : BOOLEAN, p : Nat \cup {Unread}, q : Nat \cup {Unread}]]
  /\ clicks \in [Clicks -> {"none", "signing", "confirming", "refreshing", "done"}]
  /\ txs \in [Clicks -> {NoTx, Included} \cup Tx]

Payout(c) ==
  IF txs[c].sellP THEN quote'[Me] - quote[Me] ELSE pToken'[Me] - pToken[Me]

(* The output on the page is always the quote of the amount and direction on*)
(* the page by the reserves it believes in, however refreshes, typing and  *)
(* flipping interleave (index.html:414 computes it again only in swap mode,*)
(* and the mode may have changed since the refresh began).                 *)
ShownIsQuote == mode = "swap" => amountOut = Recalc(mode, amountIn, sellP, reserves)

(* A swap sent from the page pays at least 99% of what the page showed when *)
(* it was clicked, but for the rounding of shown amount, limit and payout, *)
(* whenever it lands: also after the page reported a timeout, after a      *)
(* second click, and if the reserves it quoted from were stale or torn     *)
(* (index.html:489).                                                       *)
QuoteHonoured ==
  [][\A c \in Pending :
       txs'[c] = Included /\ pToken' # pToken
         => 100 * (Payout(c) + 2) > 99 * txs[c].shown]_vars

(* What makes QuoteHonoured inductive: the limit of every transaction on its*)
(* way is within the tolerance of what was shown for it.                   *)
Inductive ==
  /\ TypeOK
  /\ ShownIsQuote
  /\ \A c \in Clicks :
       /\ clicks[c] = "signing" => txs[c] \in Tx /\ txs[c].state = "unsent"
       /\ txs[c] \in Tx => 100 * (txs[c].minOut + 2) > 99 * txs[c].shown

(* A quote from the reserves as they are is one the pool accepts, if it pays*)
(* anything at all and the amount is no dust: the page's arithmetic and the*)
(* program's, which rounds twice (passage_pool lib.rs:205-206), then differ*)
(* by less than the tolerance (index.html:425 "matching the on-chain       *)
(* maths").                                                                *)
FreshQuoteAccepted ==
  LET pays == IF sellP THEN Pool!SwapOut(amountIn, reserves.p, reserves.q)
                       ELSE Pool!SwapOut(amountIn, reserves.q, reserves.p)
  IN  /\ mode = "swap" /\ reserves = ChainReserves
      /\ reserves.p > 0 /\ reserves.q > 0
      /\ (amountIn * (BPS - SWAP_FEE_BPS)) \div BPS >= 99
      /\ pays > 0
      => MinOut(amountIn) <= pays

(* "1% slippage tolerance — reserves can move between quoting and signing." *)
(* (index.html:489): while they have not moved, the limit sent along is    *)
(* within 1% of what the pool pays, rounding aside.                        *)
SlippageLimited ==
  ChainReserves = InitialReserves =>
    \A c \in Clicks :
      LET tx == txs[c]
          pays == IF tx.sellP
                    THEN Pool!SwapOut(tx.amount, InitialReserves.p, InitialReserves.q)
                    ELSE Pool!SwapOut(tx.amount, InitialReserves.q, InitialReserves.p)
      IN  clicks[c] = "signing" => 100 * (tx.minOut + 2) > 99 * pays
===============================================================================
