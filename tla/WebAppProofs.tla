----------------------------- MODULE WebAppProofs -----------------------------
(***************************************************************************)
(* Proofs about the page's quotes and limits and the pool they are for, for *)
(* every fee, amount and reserve, any number of clicks, refreshes, failed  *)
(* requests and trades of others.                                          *)
(***************************************************************************)
EXTENDS WebApp, TLAPS

-------------------------------------------------------------------------------
(* Integer division *)

LEMMA Quotient ==
  ASSUME NEW a \in Nat, NEW b \in Nat, b > 0
  PROVE  /\ a \div b \in Nat /\ a % b \in Nat /\ a % b < b
         /\ (a \div b) * b <= a
         /\ a < (a \div b) * b + b
  OBVIOUS

LEMMA ProductNat ==
  ASSUME NEW a \in Nat, NEW b \in Nat
  PROVE  a * b \in Nat
  OBVIOUS

LEMMA ProductMonotonic ==
  ASSUME NEW a \in Nat, NEW b \in Nat, NEW c \in Nat, b <= c
  PROVE  a * b <= a * c /\ b * a <= c * a
  OBVIOUS

LEMMA CancelFactor ==
  ASSUME NEW a \in Int, NEW b \in Int, NEW c \in Nat, c > 0
  PROVE  /\ a * c <= b * c => a <= b
         /\ a * c < b * c => a < b
  OBVIOUS

LEMMA Sizes ==
  /\ MaxU64 \in Nat /\ BPS \in Nat /\ BPS > 0
  /\ BPS - SWAP_FEE_BPS \in Nat /\ BPS - SWAP_FEE_BPS <= BPS
  /\ \A v \in Amounts : v \in Nat /\ v > 0
  /\ Amounts \cup {0} \subseteq Nat
  BY AppAssumption

-------------------------------------------------------------------------------
(* The quote *)

(* k times the quote, rounded down: k times its whole part, and less than k *)
(* for the rest; the rest is less than one.                                *)
LEMMA QuoteSwapRange ==
  ASSUME NEW v \in Nat, NEW sell \in BOOLEAN, NEW r \in [p : Nat, q : Nat]
  PROVE  \E a \in Nat :
           /\ QuoteSwap(v, sell, r, 2) \in {2 * a, 2 * a + 1}
           /\ QuoteSwap(v, sell, r, 99) \in Nat
           /\ QuoteSwap(v, sell, r, 99) >= 99 * a
<1> DEFINE net == BPS - SWAP_FEE_BPS
           rIn == IF sell THEN r.p ELSE r.q
           rOut == IF sell THEN r.q ELSE r.p
           bought == rOut * v * net
           of == rIn * BPS + v * net
<1>1. CASE rIn = 0 \/ rOut = 0
  <2>1. QuoteSwap(v, sell, r, 2) = 0 /\ QuoteSwap(v, sell, r, 99) = 0
    BY <1>1 DEF QuoteSwap
  <2> QED BY <2>1
<1>2. CASE ~(rIn = 0 \/ rOut = 0)
  <2> DEFINE a == bought \div of
             rest == bought % of
  <2>1. /\ QuoteSwap(v, sell, r, 2) = 2 * a + (2 * rest) \div of
        /\ QuoteSwap(v, sell, r, 99) = 99 * a + (99 * rest) \div of
    BY <1>2 DEF QuoteSwap
  <2>2. rIn \in Nat /\ rOut \in Nat /\ rIn > 0 /\ net \in Nat
    BY <1>2, Sizes
  <2> HIDE DEF rIn, rOut, net
  <2>3. bought \in Nat
    <3>1. rOut * v \in Nat
      BY <2>2, ProductNat
    <3> QED BY <2>2, <3>1, ProductNat
  <2>4. of \in Nat /\ of > 0
    <3>1. v * net \in Nat
      BY <2>2, ProductNat
    <3>2. rIn * BPS \in Nat /\ rIn * BPS > 0
      BY <2>2, Sizes
    <3> QED BY <3>1, <3>2
  <2> HIDE DEF bought, of
  <2>5. a \in Nat /\ rest \in Nat /\ rest < of
    BY <2>3, <2>4, Quotient
  <2> HIDE DEF a, rest
  <2>6. (2 * rest) \div of \in {0, 1}
    <3> DEFINE d == (2 * rest) \div of
    <3>1. d \in Nat /\ d * of <= 2 * rest
      BY <2>4, <2>5, Quotient
    <3> HIDE DEF d
    <3>2. d * of < 2 * of
      BY <2>4, <2>5, <3>1, ProductNat
    <3>3. d < 2
      BY <2>4, <3>1, <3>2, CancelFactor
    <3> QED BY <3>1, <3>3 DEF d
  <2>7. (99 * rest) \div of \in Nat
    BY <2>4, <2>5, Quotient
  <2> QED BY <2>1, <2>5, <2>6, <2>7
<1> QED BY <1>1, <1>2

(* What the page shows is the quote to the nearest unit, and the limit it   *)
(* sends along is within the tolerance of that.                            *)
LEMMA LimitOfShown ==
  ASSUME NEW v \in Nat, sellP \in BOOLEAN, reserves \in [p : Nat, q : Nat]
  PROVE  /\ Recalc("swap", v, sellP, reserves) \in Nat
         /\ MinOut(v) \in Nat /\ MinOut(v) >= 1
         /\ 100 * (MinOut(v) + 2) > 99 * Recalc("swap", v, sellP, reserves)
<1> DEFINE double == QuoteSwap(v, sellP, reserves, 2)
           ninety == QuoteSwap(v, sellP, reserves, 99)
           limit == ninety \div 100
           shown == (double + 1) \div 2
<1>1. PICK a \in Nat : double \in {2 * a, 2 * a + 1} /\ ninety \in Nat
                                                     /\ ninety >= 99 * a
  BY QuoteSwapRange
<1>2. /\ Recalc("swap", v, sellP, reserves) = shown
      /\ MinOut(v) = IF limit > 1 THEN limit ELSE 1
  BY DEF Recalc, MinOut
<1> HIDE DEF double, ninety
<1>3. shown \in Nat /\ shown <= a + 1
  BY <1>1
<1>4. limit \in Nat /\ 100 * limit + 99 >= ninety
  BY <1>1
<1> HIDE DEF shown, limit
<1>5. 100 * (limit + 2) > 99 * shown
  BY <1>1, <1>3, <1>4
<1>6. MinOut(v) \in Nat /\ MinOut(v) >= 1 /\ MinOut(v) >= limit
  BY <1>2, <1>4
<1> QED BY <1>2, <1>3, <1>4, <1>5, <1>6

LEMMA RecalcNat ==
  ASSUME NEW m, NEW v \in Nat, NEW sell \in BOOLEAN, NEW r \in [p : Nat, q : Nat]
  PROVE  Recalc(m, v, sell, r) \in Nat
<1>1. PICK a \in Nat : QuoteSwap(v, sell, r, 2) \in {2 * a, 2 * a + 1}
  BY QuoteSwapRange
<1> QED BY <1>1 DEF Recalc

-------------------------------------------------------------------------------
(* A swap of the pool *)

LEMMA SwapOutNat ==
  ASSUME NEW amount \in Nat, NEW reserve_in \in Nat, NEW reserve_out \in Nat,
         reserve_in > 0
  PROVE  Pool!SwapOut(amount, reserve_in, reserve_out) \in Nat
<1> DEFINE net == BPS - SWAP_FEE_BPS
           after == (amount * net) \div BPS
<1>1. net \in Nat /\ BPS \in Nat /\ BPS > 0
  BY Sizes
<1> HIDE DEF net
<1>2. after \in Nat
  BY <1>1, ProductNat, Quotient
<1>3. Pool!SwapOut(amount, reserve_in, reserve_out)
        = (reserve_out * after) \div (reserve_in + after)
  BY DEF Pool!SwapOut, net
<1> HIDE DEF after
<1>4. reserve_out * after \in Nat /\ reserve_in + after \in Nat /\ reserve_in + after > 0
  BY <1>2, ProductNat
<1> QED BY <1>3, <1>4, Quotient

LEMMA TransferEffect ==
  ASSUME NEW ledger \in [Owners -> 0 .. MaxU64], NEW from \in Owners, NEW to \in Owners,
         NEW amount \in Nat, from # to,
         Pool!CanTransfer(ledger, from, to, amount, amount)
  PROVE  LET after == Pool!Transferred(ledger, from, to, amount, amount)
         IN  /\ after \in [Owners -> 0 .. MaxU64]
             /\ after[to] = ledger[to] + amount
  BY Sizes DEF Pool!CanTransfer, Pool!Transferred

(* A swap keeps balances in u64, and one of the page's own wallet pays it at *)
(* least the limit, in the token it buys.                                  *)
LEMMA SwapEffect ==
  ASSUME Pool!TypeOK, NEW user \in Users, NEW amount \in Nat, NEW limit \in Nat,
         NEW sell \in BOOLEAN, Pool!Swap(user, amount, limit, sell)
  PROVE  /\ Pool!TypeOK'
         /\ IF sell THEN quote'[user] - quote[user] >= limit
                    ELSE pToken'[user] - pToken[user] >= limit
<1>1. /\ pToken \in [Owners -> 0 .. MaxU64] /\ quote \in [Owners -> 0 .. MaxU64]
      /\ pToken[PoolPda] \in Nat /\ quote[PoolPda] \in Nat
      /\ user \in Owners /\ PoolPda \in Owners /\ user # PoolPda
  BY AppAssumption, Sizes DEF Pool!TypeOK, Pool!Owners, Pool!U64, Owners, Users
<1>2. /\ pToken[PoolPda] > 0 /\ quote[PoolPda] > 0
      /\ UNCHANGED <<pool, lp, lpSupply, credential>>
  BY DEF Pool!Swap, Pool!ReserveP, Pool!ReserveQ
<1>3. CASE sell
  <2> DEFINE out == Pool!SwapOut(amount, pToken[PoolPda], quote[PoolPda])
  <2>1. /\ out >= limit
        /\ Pool!MoveP(user, PoolPda, amount) /\ Pool!MoveQuote(PoolPda, user, out)
    BY <1>3 DEF Pool!Swap, Pool!ReserveP, Pool!ReserveQ
  <2>2. out \in Nat
    BY <1>1, <1>2, SwapOutNat
  <2> HIDE DEF out
  <2>3. pToken' \in [Owners -> 0 .. MaxU64]
    BY <1>1, <2>1, TransferEffect DEF Pool!MoveP, Pool!CanMoveP
  <2>4. quote' \in [Owners -> 0 .. MaxU64] /\ quote'[user] = quote[user] + out
    BY <1>1, <2>1, <2>2, TransferEffect DEF Pool!MoveQuote, Pool!CanMoveQuote
  <2>5. quote'[user] - quote[user] >= limit
    BY <1>1, <2>1, <2>2, <2>4, Sizes
  <2> QED BY <1>2, <1>3, <2>3, <2>4, <2>5
          DEF Pool!TypeOK, Pool!Owners, Pool!U64, Owners, Users
<1>4. CASE ~sell
  <2> DEFINE out == Pool!SwapOut(amount, quote[PoolPda], pToken[PoolPda])
  <2>1. /\ out >= limit
        /\ Pool!MoveQuote(user, PoolPda, amount) /\ Pool!MoveP(PoolPda, user, out)
    BY <1>4 DEF Pool!Swap, Pool!ReserveP, Pool!ReserveQ
  <2>2. out \in Nat
    BY <1>1, <1>2, SwapOutNat
  <2> HIDE DEF out
  <2>3. quote' \in [Owners -> 0 .. MaxU64]
    BY <1>1, <2>1, TransferEffect DEF Pool!MoveQuote, Pool!CanMoveQuote
  <2>4. pToken' \in [Owners -> 0 .. MaxU64] /\ pToken'[user] = pToken[user] + out
    BY <1>1, <2>1, <2>2, TransferEffect DEF Pool!MoveP, Pool!CanMoveP
  <2>5. pToken'[user] - pToken[user] >= limit
    BY <1>1, <2>1, <2>2, <2>4, Sizes
  <2> QED BY <1>2, <1>4, <2>3, <2>4, <2>5
          DEF Pool!TypeOK, Pool!Owners, Pool!U64, Owners, Users
<1> QED BY <1>3, <1>4

-------------------------------------------------------------------------------
(* The invariant *)

\* The transactions that are being made or under way.
LEMMA StatesOfTx ==
  /\ NoTx \notin Tx /\ Included \notin Tx /\ NoTx # Included
  /\ \A t \in {NoTx, Included} \cup Tx : t.state \in {"unsent", "pending"} => t \in Tx
<1>1. ASSUME NEW t \in Tx PROVE t.state \in {"unsent", "pending"}
  BY DEF Tx
<1>2. /\ NoTx.state = "none" /\ Included.state = "included"
  BY DEF NoTx, Included
<1>3. NoTx \notin Tx /\ Included \notin Tx
  BY <1>1, <1>2
<1> QED BY <1>2, <1>3

LEMMA InductiveInit == Init => Inductive
<1> SUFFICES ASSUME Init PROVE Inductive
  OBVIOUS
<1>1. Pool!TypeOK
  BY AppAssumption, Sizes
     DEF Init, Pool!TypeOK, Pool!Owners, Pool!U64, Owners, Users
<1>2. TypeOK
  BY <1>1 DEF Init, TypeOK, Readers, NotReading, Unread
<1>3. ShownIsQuote
  BY DEF Init, ShownIsQuote
<1>4. \A c \in Clicks : clicks[c] # "signing" /\ txs[c] \notin Tx
  BY StatesOfTx DEF Init
<1> QED BY <1>2, <1>3, <1>4 DEF Inductive

LEMMA InductiveStep == Inductive /\ [Next]_vars => Inductive'
<1> SUFFICES ASSUME Inductive, [Next]_vars PROVE Inductive'
  OBVIOUS
<1> DEFINE Limits(theClicks, theTxs) ==
             \A c \in Clicks :
               /\ theClicks[c] = "signing" => /\ theTxs[c] \in Tx
                                              /\ theTxs[c].state = "unsent"
               /\ theTxs[c] \in Tx => 100 * (theTxs[c].minOut + 2) > 99 * theTxs[c].shown
           FormOK == /\ mode \in {"wrap", "swap"} /\ sellP \in BOOLEAN
                     /\ amountIn \in Amounts \cup {0}
           ReadsOK == reads \in [Readers -> [on : BOOLEAN, p : Nat \cup {Unread},
                                             q : Nat \cup {Unread}]]
           ClicksOK == clicks \in [Clicks -> {"none", "signing", "confirming",
                                              "refreshing", "done"}]
           TxsOK == txs \in [Clicks -> {NoTx, Included} \cup Tx]
           ShownOK == /\ reserves \in [p : Nat, q : Nat] /\ amountOut \in Nat
                      /\ ShownIsQuote
<1>0. /\ Pool!TypeOK /\ FormOK /\ ReadsOK /\ ClicksOK /\ TxsOK /\ ShownOK
      /\ Limits(clicks, txs)
  BY DEF Inductive, TypeOK
<1>00. /\ pToken[PoolPda] \in Nat /\ quote[PoolPda] \in Nat
  BY <1>0, Sizes DEF Pool!TypeOK, Pool!Owners, Pool!U64
<1>000. amountIn \in Nat
  BY <1>0, Sizes
<1>a. SUFFICES /\ Pool!TypeOK' /\ FormOK' /\ ReadsOK' /\ ClicksOK' /\ TxsOK' /\ ShownOK'
               /\ Limits(clicks', txs')
  BY DEF Inductive, TypeOK
<1> DEFINE Goal == /\ Pool!TypeOK' /\ FormOK' /\ ReadsOK' /\ ClicksOK' /\ TxsOK'
                   /\ ShownOK' /\ Limits(clicks', txs')
<1>b. UNCHANGED ledgers => Pool!TypeOK'
  BY <1>0 DEF ledgers, Pool!TypeOK
<1>c. UNCHANGED <<form, reserves, amountOut>> => FormOK' /\ ShownOK'
  BY <1>0 DEF form, ShownIsQuote
<1>1. ASSUME NEW m \in {"wrap", "swap"}, NEW sell \in BOOLEAN, SetMode(m, sell), ReadsOK'
      PROVE  Goal
  <2>1. /\ UNCHANGED <<ledgers, amountIn, reserves, clicks, txs>>
        /\ mode' = m /\ sellP' = sell
        /\ amountOut' = Recalc(m, amountIn, sell, reserves)
    BY <1>1 DEF SetMode
  <2>2. amountOut' \in Nat
    BY <1>0, <1>000, <2>1, RecalcNat
  <2>3. ShownOK'
    BY <1>0, <2>1, <2>2 DEF ShownIsQuote, Recalc, QuoteSwap
  <2> QED BY <1>0, <1>1, <1>b, <2>1, <2>3
<1>2. CASE TabWrap
  <2>1. ReadsOK' /\ SetMode("wrap", sellP)
    BY <1>0, <1>2 DEF TabWrap
  <2> QED BY <1>0, <1>1, <2>1
<1>3. CASE TabSwap
  <2>1. SetMode("swap", sellP) /\ reads' = [reads EXCEPT ![Page] = Reading]
    BY <1>3 DEF TabSwap
  <2>2. ReadsOK'
    BY <1>0, <2>1 DEF Reading, Unread
  <2> QED BY <1>0, <1>1, <2>1, <2>2
<1>4. CASE Flip
  <2>1. ReadsOK' /\ SetMode("swap", ~sellP)
    BY <1>0, <1>4 DEF Flip
  <2>2. (~sellP) \in BOOLEAN
    OBVIOUS
  <2> QED BY <1>1, <2>1, <2>2
<1>5. ASSUME NEW v \in Amounts, Type(v) PROVE Goal
  <2>1. /\ UNCHANGED <<ledgers, mode, sellP, reserves, reads, clicks, txs>>
        /\ amountIn' = v /\ v \in Nat
        /\ amountOut' = Recalc(mode, v, sellP, reserves)
    BY <1>5, Sizes DEF Type
  <2>2. amountOut' \in Nat
    BY <1>0, <2>1, RecalcNat
  <2>3. ShownOK'
    BY <1>0, <2>1, <2>2 DEF ShownIsQuote, Recalc, QuoteSwap
  <2> QED BY <1>0, <1>b, <2>1, <2>3
<1>6. ASSUME NEW c \in Clicks, Click(c) PROVE Goal
  <2> DEFINE t == [state |-> "unsent", amount |-> amountIn, sellP |-> sellP,
                   minOut |-> MinOut(amountIn), shown |-> amountOut]
  <2>1. /\ mode = "swap" /\ amountIn # 0
        /\ clicks' = [clicks EXCEPT ![c] = "signing"]
        /\ txs' = [txs EXCEPT ![c] = t]
        /\ UNCHANGED <<ledgers, form, reserves, amountOut, reads>>
    BY <1>6 DEF Click
  <2>2. /\ MinOut(amountIn) \in Nat
        /\ 100 * (MinOut(amountIn) + 2) > 99 * amountOut
    BY <1>0, <1>000, <2>1, LimitOfShown DEF ShownIsQuote
  <2>3. t \in Tx /\ t.state = "unsent" /\ 100 * (t.minOut + 2) > 99 * t.shown
    BY <1>0, <2>1, <2>2 DEF Tx
  <2> HIDE DEF t
  <2>4. TxsOK' /\ ClicksOK' /\ Limits(clicks', txs')
    BY <1>0, <2>1, <2>3
  <2> QED BY <1>0, <1>b, <1>c, <2>1, <2>4
<1>7. ASSUME NEW c \in Clicks, Send(c) PROVE Goal
  <2>1. /\ clicks[c] = "signing" /\ txs[c] \in Tx
        /\ UNCHANGED <<ledgers, form, reserves, amountOut, reads>>
    BY <1>0, <1>7 DEF Send
  <2>2. CASE /\ clicks' = [clicks EXCEPT ![c] = "confirming"]
             /\ txs' = [txs EXCEPT ![c].state = "pending"]
    <3>1. /\ txs'[c] \in Tx /\ txs'[c].minOut = txs[c].minOut
          /\ txs'[c].shown = txs[c].shown
      BY <1>0, <2>1, <2>2 DEF Tx
    <3>2. TxsOK' /\ ClicksOK' /\ Limits(clicks', txs')
      BY <1>0, <2>1, <2>2, <3>1
    <3> QED BY <1>0, <1>b, <1>c, <2>1, <3>2
  <2>3. CASE /\ clicks' = [clicks EXCEPT ![c] = "done"]
             /\ txs' = [txs EXCEPT ![c] = NoTx]
    <3>1. TxsOK' /\ ClicksOK' /\ Limits(clicks', txs')
      BY <1>0, <2>1, <2>3, StatesOfTx
    <3> QED BY <1>0, <1>b, <1>c, <2>1, <3>1
  <2> QED BY <1>7, <2>2, <2>3 DEF Send
<1>8. ASSUME NEW c \in Clicks, Confirm(c) PROVE Goal
  <2>1. /\ clicks' = [clicks EXCEPT ![c] = "refreshing"]
        /\ reads' = [reads EXCEPT ![c] = Reading]
        /\ UNCHANGED <<ledgers, form, reserves, amountOut, txs>>
    BY <1>8 DEF Confirm
  <2>2. ReadsOK' /\ ClicksOK' /\ TxsOK' /\ Limits(clicks', txs')
    BY <1>0, <2>1 DEF Reading, Unread
  <2> QED BY <1>0, <1>b, <1>c, <2>1, <2>2
<1>9. ASSUME NEW c \in Clicks, Timeout(c) PROVE Goal
  <2>1. /\ clicks' = [clicks EXCEPT ![c] = "done"]
        /\ UNCHANGED <<ledgers, form, reserves, amountOut, reads, txs>>
    BY <1>9 DEF Timeout
  <2>2. ReadsOK' /\ ClicksOK' /\ TxsOK' /\ Limits(clicks', txs')
    BY <1>0, <2>1
  <2> QED BY <1>0, <1>b, <1>c, <2>1, <2>2
<1>10. ASSUME NEW r \in Readers, ReadP(r) \/ ReadQ(r) PROVE Goal
  <2>1. /\ UNCHANGED <<ledgers, form, reserves, amountOut, clicks, txs>>
        /\ \E n \in Nat : \/ reads' = [reads EXCEPT ![r].p = n]
                          \/ reads' = [reads EXCEPT ![r].q = n]
    BY <1>00, <1>10 DEF ReadP, ReadQ, ChainReserves
  <2>2. ReadsOK'
    BY <1>0, <2>1
  <2> QED BY <1>0, <1>b, <1>c, <2>1, <2>2
<1>11. ASSUME NEW r \in Readers, FinishRead(r) PROVE Goal
  <2>1. /\ reads[r].p # Unread /\ reads[r].q # Unread
        /\ reserves' = [p |-> reads[r].p, q |-> reads[r].q]
        /\ amountOut' = Recalc(mode, amountIn, sellP, reserves')
        /\ reads' = [reads EXCEPT ![r] = NotReading]
        /\ clicks' = IF r = Page THEN clicks ELSE [clicks EXCEPT ![r] = "done"]
        /\ UNCHANGED <<ledgers, form, txs>>
    BY <1>11 DEF FinishRead, ShownAfterRead
  <2>2. reserves' \in [p : Nat, q : Nat]
    BY <1>0, <2>1
  <2>3. amountOut' \in Nat
    BY <1>0, <1>000, <2>1, <2>2, RecalcNat
  <2>4. FormOK' /\ ShownOK'
    BY <1>0, <2>1, <2>2, <2>3 DEF form, ShownIsQuote, Recalc, QuoteSwap
  <2>5. ReadsOK' /\ ClicksOK' /\ TxsOK' /\ Limits(clicks', txs')
    BY <1>0, <2>1 DEF NotReading, Unread
  <2> QED BY <1>b, <2>1, <2>4, <2>5
<1>12. ASSUME NEW c \in Clicks, Land(c) PROVE Goal
  <2>1. /\ c \in Pending /\ (Swap(c) \/ UNCHANGED ledgers)
        /\ txs' = [txs EXCEPT ![c] = Included]
        /\ UNCHANGED <<form, reserves, amountOut, reads, clicks>>
    BY <1>12 DEF Land
  <2>2. txs[c] \in Tx /\ txs[c].state = "pending"
    BY <1>0, <2>1, StatesOfTx DEF Pending
  <2>3. Pool!TypeOK'
    <3>1. CASE Swap(c)
      <4>1. /\ txs[c].amount \in Nat /\ txs[c].minOut \in Nat /\ txs[c].sellP \in BOOLEAN
            /\ Me \in Users
        BY <2>2, Sizes DEF Tx, Users
      <4>2. Pool!Swap(Me, txs[c].amount, txs[c].minOut, txs[c].sellP)
        BY <3>1 DEF Swap
      <4> QED BY <1>0, <4>1, <4>2, SwapEffect
    <3> QED BY <1>b, <2>1, <3>1
  <2>4. TxsOK' /\ Limits(clicks', txs')
    <3>1. clicks[c] # "signing"
      BY <1>0, <2>2
    <3> QED BY <1>0, <2>1, <2>2, <3>1, StatesOfTx
  <2> QED BY <1>0, <1>c, <2>1, <2>3, <2>4
<1>13. ASSUME NEW v \in Amounts, NEW sell \in OtherSells, OtherTrades(v, sell) PROVE Goal
  <2>1. /\ Pool!Swap(Other, v, 0, sell)
        /\ UNCHANGED <<form, reserves, amountOut, reads, clicks, txs>>
        /\ v \in Nat /\ sell \in BOOLEAN /\ Other \in Users
    BY <1>13, Sizes, AppAssumption DEF OtherTrades, Users
  <2>2. Pool!TypeOK'
    <3>1. Pool!TypeOK /\ 0 \in Nat
      BY <1>0
    <3> QED BY <2>1, <3>1, SwapEffect
  <2> QED BY <1>0, <1>c, <2>1, <2>2
<1>14. CASE UNCHANGED vars
  <2>1. UNCHANGED <<ledgers, form, reserves, amountOut, reads, clicks, txs>>
    BY <1>14 DEF vars
  <2> QED BY <1>0, <1>b, <1>c, <2>1
<1> QED BY <1>2, <1>3, <1>4, <1>5, <1>6, <1>7, <1>8, <1>9, <1>10, <1>11, <1>12,
           <1>13, <1>14
        DEF Next, User, Handlers, Requests, Cluster


(* However typing, flipping, refreshes, clicks, timeouts and trades         *)
(* interleave: what is shown belongs to what is on the page, and every     *)
(* limit on its way to what was shown for it.                              *)
THEOREM InductiveHolds == Spec => []Inductive
  BY InductiveInit, InductiveStep, PTL DEF Spec

(* The number on the page is the quote of the amount, direction and         *)
(* reserves of the page.                                                   *)
THEOREM ShownIsQuoteAlways == Spec => []ShownIsQuote
<1>1. Inductive => ShownIsQuote
  BY DEF Inductive
<1> QED BY <1>1, InductiveHolds, PTL

(* A swap sent from the page pays 99% of what the page showed, rounding     *)
(* aside, whenever it lands and whatever happened in between.              *)
THEOREM QuoteHonouredAlways == Spec => QuoteHonoured
<1> DEFINE Honoured == \A c \in Pending :
             txs'[c] = Included /\ pToken' # pToken
               => 100 * (Payout(c) + 2) > 99 * txs[c].shown
<1>1. Inductive /\ [Next]_vars => [Honoured]_vars
  <2> SUFFICES ASSUME Inductive, Next, NEW c \in Pending,
                      txs'[c] = Included, pToken' # pToken
               PROVE  100 * (Payout(c) + 2) > 99 * txs[c].shown
    OBVIOUS
  <2>1. /\ Pool!TypeOK /\ c \in Clicks /\ txs[c].state = "pending"
        /\ txs \in [Clicks -> {NoTx, Included} \cup Tx]
    BY DEF Inductive, TypeOK, Pending
  <2>2. txs[c] \in Tx
    BY <2>1, StatesOfTx
  <2>3. 100 * (txs[c].minOut + 2) > 99 * txs[c].shown
    BY <2>1, <2>2 DEF Inductive
  <2>4. txs'[c] # txs[c]
    BY <2>2, StatesOfTx
  <2>5. PICK d \in Clicks : Land(d)
    <3>1. /\ ~TabWrap /\ ~TabSwap /\ ~Flip /\ \A v \in Amounts : ~Type(v)
          /\ \A d \in Clicks : ~Click(d) /\ ~Handlers(d)
          /\ \A r \in Readers : ~Requests(r)
      BY DEF TabWrap, TabSwap, Flip, SetMode, Type, Click, Handlers, Send, Confirm,
             Timeout, Requests, ReadP, ReadQ, FinishRead, ledgers
    <3>2. \A v \in Amounts, sell \in OtherSells : ~OtherTrades(v, sell)
      BY <2>4 DEF OtherTrades
    <3> QED BY <3>1, <3>2 DEF Next, User, Cluster
  <2>6. txs' = [txs EXCEPT ![d] = Included] /\ (Swap(d) \/ UNCHANGED ledgers)
    BY <2>5 DEF Land
  <2>7. d = c
    BY <2>1, <2>4, <2>6
  <2>8. Swap(c)
    BY <2>6, <2>7 DEF ledgers
  <2>9. /\ txs[c].amount \in Nat /\ txs[c].minOut \in Nat /\ txs[c].shown \in Nat
        /\ txs[c].sellP \in BOOLEAN /\ Me \in Users
    BY <2>2, Sizes DEF Tx, Users
  <2>10. /\ Pool!TypeOK'
         /\ IF txs[c].sellP THEN quote'[Me] - quote[Me] >= txs[c].minOut
                            ELSE pToken'[Me] - pToken[Me] >= txs[c].minOut
    BY <2>1, <2>8, <2>9, SwapEffect DEF Swap
  <2>11. Payout(c) \in Int /\ Payout(c) >= txs[c].minOut
    <3>1. /\ quote[Me] \in Int /\ quote'[Me] \in Int
          /\ pToken[Me] \in Int /\ pToken'[Me] \in Int
      BY <2>1, <2>10, Sizes DEF Pool!TypeOK, Pool!Owners, Pool!U64, Users
    <3> QED BY <2>10, <3>1 DEF Payout
  <2> QED BY <2>3, <2>9, <2>11
<1> QED BY <1>1, InductiveHolds, PTL DEF Spec, QuoteHonoured

-------------------------------------------------------------------------------
(* The page's arithmetic and the program's *)

(* 99% of the exact output is at most what the program pays after rounding  *)
(* its input and its output, if at least 99 units of the input are left    *)
(* after the fee.                                                          *)
LEMMA LimitWithinPayout ==
  ASSUME NEW r_in \in Nat, NEW r_out \in Nat, NEW w \in Nat, NEW limit \in Nat,
         NEW x \in Nat, NEW b \in Nat, r_in > 0, b > 0, x >= 99,
         w < (x + 1) * b,
         100 * limit * (r_in * b + w) <= 99 * (r_out * w)
  PROVE  limit * (r_in + x) <= r_out * x
<1> DEFINE l == 100 * limit
           gain == 99 * r_out - l
<1>1. l \in Nat /\ gain \in Int /\ r_in * b \in Nat /\ r_in * b > 0
  OBVIOUS
<1>2. l * (r_in * b) <= gain * w
  <2>1. l * (r_in * b + w) = l * (r_in * b) + l * w
    BY <1>1
  <2>2. gain * w = 99 * (r_out * w) - l * w
    BY <1>1
  <2>3. l * (r_in * b + w) \in Nat /\ l * w \in Nat /\ r_out * w \in Nat
    BY <1>1, ProductNat
  <2> QED BY <1>1, <2>1, <2>2, <2>3
<1>3. CASE gain < 0
  <2>1. gain * w <= 0
    BY <1>1, <1>3
  <2>2. l > 0
    BY <1>1, <1>3
  <2>3. l * (r_in * b) > 0
    BY <1>1, <2>2
  <2> QED BY <1>1, <1>2, <2>1, <2>3
<1>4. CASE gain >= 0
  <2>1. gain * w <= gain * ((x + 1) * b)
    <3>1. gain \in Nat /\ (x + 1) * b \in Nat /\ w <= (x + 1) * b
      BY <1>1, <1>4
    <3> HIDE DEF gain
    <3> QED BY <3>1, ProductMonotonic
  <2>2. (l * r_in) * b <= (gain * (x + 1)) * b
    <3> HIDE DEF gain, l
    <3>1. (l * r_in) * b = l * (r_in * b)
      BY <1>1
    <3>2. (gain * (x + 1)) * b = gain * ((x + 1) * b)
      BY <1>1
    <3>3. gain * w \in Int /\ gain * ((x + 1) * b) \in Int /\ l * (r_in * b) \in Int
      BY <1>1
    <3> QED BY <1>2, <2>1, <3>1, <3>2, <3>3
  <2>3. l * r_in <= gain * (x + 1)
    <3>1. l * r_in \in Int /\ gain * (x + 1) \in Int
      BY <1>1
    <3> HIDE DEF gain, l
    <3> QED BY <2>2, <3>1, CancelFactor
  <2>4. gain * (x + 1) = 99 * r_out * x + 99 * r_out - l * x - l
    OBVIOUS
  <2>5. 99 * r_out * x + 99 * r_out <= 100 * (r_out * x)
    <3>1. r_out * 99 <= r_out * x
      BY ProductMonotonic
    <3>2. r_out * x \in Nat /\ 99 * r_out * x = 99 * (r_out * x)
      BY ProductNat
    <3> QED BY <3>1, <3>2
  <2>6. l * r_in + l * x <= 100 * (r_out * x)
    <3>1. l * r_in \in Nat /\ l * x \in Nat /\ r_out * x \in Nat
      BY <1>1, ProductNat
    <3>2. 99 * r_out * x \in Int
      OBVIOUS
    <3> HIDE DEF gain, l
    <3> QED BY <1>1, <2>3, <2>4, <2>5, <3>1, <3>2
  <2>7. 100 * (limit * (r_in + x)) = l * r_in + l * x
    OBVIOUS
  <2>8. limit * (r_in + x) \in Nat /\ r_out * x \in Nat
    BY ProductNat
  <2> QED BY <2>6, <2>7, <2>8
<1> QED BY <1>1, <1>3, <1>4


(* As long as the page has the reserves as they are, its limit is one the   *)
(* pool accepts, dust aside: 99 units are what the program's rounding of   *)
(* the fee needs to stay within the tolerance.                             *)
THEOREM FreshQuoteAcceptedAlways == Spec => []FreshQuoteAccepted
<1>1. Inductive => FreshQuoteAccepted
  <2> DEFINE net == BPS - SWAP_FEE_BPS
             r_in == IF sellP THEN reserves.p ELSE reserves.q
             r_out == IF sellP THEN reserves.q ELSE reserves.p
             w == amountIn * net
             x == w \div BPS
             pays == Pool!SwapOut(amountIn, r_in, r_out)
  <2> SUFFICES ASSUME Inductive, reserves.p > 0, reserves.q > 0, x >= 99, pays > 0
               PROVE  MinOut(amountIn) <= pays
    BY DEF FreshQuoteAccepted
  <2>1. /\ amountIn \in Nat /\ net \in Nat /\ BPS \in Nat /\ BPS > 0
        /\ r_in \in Nat /\ r_in > 0 /\ r_out \in Nat /\ r_out > 0
    BY Sizes DEF Inductive, TypeOK
  <2>2. MinOut(amountIn) =
          IF QuoteSwap(amountIn, sellP, reserves, 99) \div 100 > 1
            THEN QuoteSwap(amountIn, sellP, reserves, 99) \div 100 ELSE 1
    BY DEF MinOut
  <2> DEFINE bought == r_out * amountIn * net
             of == r_in * BPS + w
             exact == 99 * (bought \div of) + (99 * (bought % of)) \div of
             limit == exact \div 100
  <2>3. QuoteSwap(amountIn, sellP, reserves, 99) = exact
    BY <2>1 DEF QuoteSwap
  <2>4. pays = (r_out * x) \div (r_in + x)
    BY DEF Pool!SwapOut
  <2> HIDE DEF net, r_in, r_out
  <2>5. w \in Nat /\ bought = r_out * w
    BY <2>1, ProductNat
  <2>6. x \in Nat /\ w < (x + 1) * BPS
    <3> HIDE DEF w
    <3>1. x \in Nat /\ w < x * BPS + BPS
      BY <2>1, <2>5, Quotient
    <3> HIDE DEF x
    <3>2. (x + 1) * BPS = x * BPS + BPS
      BY <2>1, <3>1
    <3> QED BY <3>1, <3>2
  <2> HIDE DEF w, x, bought
  <2>7. bought \in Nat /\ of \in Nat /\ of > 0
    BY <2>1, <2>5, ProductNat
  <2>8. exact \in Nat /\ exact * of <= 99 * bought
    <3> DEFINE a == bought \div of
               rest == bought % of
               d == (99 * rest) \div of
    <3> HIDE DEF of
    <3>1. a \in Nat /\ rest \in Nat /\ bought = a * of + rest
      BY <2>7
    <3> HIDE DEF a, rest
    <3>2. d \in Nat /\ d * of <= 99 * rest
      BY <2>7, <3>1, Quotient
    <3> HIDE DEF d
    <3>3. exact = 99 * a + d
      BY DEF a, rest, d
    <3> HIDE DEF exact
    <3>4. (99 * a + d) * of = 99 * (a * of) + d * of
      BY <2>7, <3>1, <3>2
    <3>5. a * of \in Nat /\ d * of \in Nat
      BY <2>7, <3>1, <3>2, ProductNat
    <3> QED BY <3>1, <3>2, <3>3, <3>4, <3>5
  <2> HIDE DEF exact
  <2>9. limit \in Nat /\ 100 * limit <= exact
    BY <2>8
  <2> HIDE DEF limit
  <2>10. 100 * limit * of <= 99 * (r_out * w)
    <3> HIDE DEF of
    <3>1. (100 * limit) * of <= exact * of
      BY <2>7, <2>8, <2>9, ProductMonotonic
    <3>2. (100 * limit) * of \in Nat /\ exact * of \in Nat
      BY <2>7, <2>8, <2>9, ProductNat
    <3> QED BY <2>5, <2>7, <2>8, <3>1, <3>2
  <2>11. limit * (r_in + x) <= r_out * x
    BY <2>1, <2>5, <2>6, <2>9, <2>10, LimitWithinPayout
  <2>12. limit <= pays
    <3> DEFINE whole == r_in + x
               paid == r_out * x
    <3>1. whole \in Nat /\ whole > 0 /\ paid \in Nat
      BY <2>1, <2>6, ProductNat
    <3>2. pays = paid \div whole
      BY <2>4
    <3>3. limit * whole <= paid
      BY <2>11
    <3> HIDE DEF whole, paid, pays
    <3>4. pays \in Nat /\ paid < pays * whole + whole
      BY <3>1, <3>2, Quotient
    <3>5. limit * whole < (pays + 1) * whole
      <4>1. (pays + 1) * whole = pays * whole + whole
        BY <3>1, <3>4
      <4>2. limit * whole \in Nat /\ pays * whole \in Nat
        BY <2>9, <3>1, <3>4, ProductNat
      <4> QED BY <3>1, <3>3, <3>4, <4>1, <4>2
    <3>6. limit < pays + 1
      BY <2>9, <3>1, <3>4, <3>5, CancelFactor
    <3> QED BY <2>9, <3>4, <3>6
  <2>13. MinOut(amountIn) = IF limit > 1 THEN limit ELSE 1
    BY <2>2, <2>3 DEF limit
  <2>14. pays \in Nat
    BY <2>1, SwapOutNat
  <2> HIDE DEF pays
  <2> QED BY <2>9, <2>12, <2>13, <2>14
<1> QED BY <1>1, InductiveHolds, PTL

===============================================================================
