-------------------------- MODULE PassagePoolProofs --------------------------
(***************************************************************************)
(* Proofs about the pool program, for every set of wallets, amount, fee and *)
(* width of u64.                                                           *)
(***************************************************************************)
EXTENDS PassagePool, SplTokenProofs, WellFoundedInduction

-------------------------------------------------------------------------------
(* Integer division *)

LEMMA Quotient ==
  ASSUME NEW a \in Nat, NEW b \in Nat, b > 0
  PROVE  /\ a \div b \in Nat
         /\ (a \div b) * b <= a
         /\ a < (a \div b) * b + b
  OBVIOUS

LEMMA ProductNat ==
  ASSUME NEW a \in Nat, NEW b \in Nat
  PROVE  a * b \in Nat
  OBVIOUS

LEMMA ProductMonotonic ==
  ASSUME NEW a \in Nat, NEW b \in Nat, NEW c \in Nat, NEW d \in Nat,
         a <= c, b <= d
  PROVE  a * b <= c * d
  OBVIOUS

LEMMA CancelFactor ==
  ASSUME NEW a \in Int, NEW b \in Int, NEW c \in Nat, c > 0
  PROVE  /\ a * c <= b * c => a <= b
         /\ a * c < b * c => a < b
  OBVIOUS

(* The quotient is the only integer of its kind.                           *)
LEMMA QuotientBelow ==
  ASSUME NEW a \in Nat, NEW b \in Nat, b > 0, NEW q \in Nat, a < (q + 1) * b
  PROVE  a \div b <= q
<1> DEFINE d == a \div b
<1>1. d \in Nat /\ d * b <= a
  BY Quotient
<1> HIDE DEF d
<1>2. d * b < (q + 1) * b
  BY <1>1
<1>3. d < q + 1
  BY <1>1, <1>2, CancelFactor
<1> QED BY <1>1, <1>3 DEF d

-------------------------------------------------------------------------------
(* Newton's iteration *)

(* Induction on the natural numbers, as the existence of a least            *)
(* counterexample.                                                         *)
LEMMA LeastNatural ==
  ASSUME NEW T, T \subseteq Nat, T # {}
  PROVE  \E n \in T : \A m \in T : n <= m
<1>1. \E n \in T : \A m \in T : <<m, n>> \notin OpToRel(<, Nat)
  BY NatLessThanWellFounded, WFMin
<1>2. PICK n \in T : \A m \in T : <<m, n>> \notin OpToRel(<, Nat)
  BY <1>1
<1>3. \A m \in T : ~ (m < n)
  BY <1>2, Zenon DEF OpToRel
<1>4. n \in Nat /\ \A m \in T : m \in Nat
  OBVIOUS
<1>5. \A m \in T : n <= m
  BY <1>3, <1>4, SMT
<1> QED BY <1>2, <1>5

(* A step that falls stays in the range the iteration is defined on.       *)
LEMMA NewtonStepRange ==
  ASSUME NEW v \in Nat, NEW x \in 1 .. v
  PROVE  NewtonStep(v, x) \in Nat /\ NewtonStep(v, x) >= 1
<1>1. x \in Nat /\ x > 0 /\ x <= v
  OBVIOUS
<1>2. v \div x \in Nat /\ v < (v \div x) * x + x
  BY <1>1, Quotient
<1>3. v \div x >= 1
  BY <1>1, <1>2
<1> QED BY <1>1, <1>2, <1>3 DEF NewtonStep

(* The recursion is well defined: from each starting point up to v, hence   *)
(* from v itself.                                                          *)
LEMMA NewtonStopExists ==
  ASSUME NEW v \in Nat
  PROVE  \E stop :
           stop = [x \in 1 .. v |->
                     IF NewtonStep(v, x) < x THEN stop[NewtonStep(v, x)] ELSE x]
<1> DEFINE Stops(n, stop) ==
             stop = [x \in 1 .. n |->
                       IF NewtonStep(v, x) < x THEN stop[NewtonStep(v, x)] ELSE x]
           T == {n \in 0 .. v : ~ \E stop : Stops(n, stop)}
<1>1. SUFFICES ASSUME T # {} PROVE FALSE
  <2>1. v \in 0 .. v
    OBVIOUS
  <2>2. \E stop : Stops(v, stop)
    BY <1>1, <2>1
  <2> QED BY <2>2
<1>2. PICK n \in T : \A m \in T : n <= m
  <2>1. T \subseteq Nat
    OBVIOUS
  <2> HIDE DEF T
  <2> QED BY <1>1, <2>1, LeastNatural
<1>3. n \in Nat /\ n <= v
  OBVIOUS
<1>4. CASE n = 0
  <2> DEFINE empty == [x \in 1 .. 0 |-> x]
  <2>1. \A x \in 1 .. 0 : FALSE
    OBVIOUS
  <2>2. Stops(0, empty)
    BY <2>1
  <2> QED BY <1>4, <2>2
<1>5. CASE n # 0
  <2>1. n - 1 \in 0 .. v /\ ~ (n <= n - 1)
    BY <1>3, <1>5
  <2>2. PICK below : Stops(n - 1, below)
    BY <1>2, <2>1
  <2> DEFINE last == IF NewtonStep(v, n) < n THEN below[NewtonStep(v, n)] ELSE n
             stop == [x \in 1 .. n |-> IF x = n THEN last ELSE below[x]]
  <2>3. ASSUME NEW x \in 1 .. n
        PROVE  stop[x] =
                 IF NewtonStep(v, x) < x THEN stop[NewtonStep(v, x)] ELSE x
    <3>1. x \in 1 .. v /\ x \in Nat
      BY <1>3
    <3>2. NewtonStep(v, x) \in Nat /\ NewtonStep(v, x) >= 1
      BY <3>1, NewtonStepRange
    <3>3. NewtonStep(v, x) < x =>
            stop[NewtonStep(v, x)] = below[NewtonStep(v, x)]
      BY <1>3, <3>1, <3>2
    <3>4. CASE x = n
      BY <3>3, <3>4
    <3>5. CASE x # n
      <4>1. x \in 1 .. n - 1
        BY <1>3, <3>1, <3>5
      <4>2. below[x] =
              IF NewtonStep(v, x) < x THEN below[NewtonStep(v, x)] ELSE x
        BY <2>2, <4>1
      <4> QED BY <3>3, <3>5, <4>2
    <3> QED BY <3>4, <3>5
  <2>4. Stops(n, stop)
    <3>1. stop = [x \in 1 .. n |-> stop[x]]
      OBVIOUS
    <3> HIDE DEF stop
    <3> QED BY <2>3, <3>1
  <2> QED BY <2>4
<1> QED BY <1>4, <1>5

LEMMA NewtonStopDef ==
  ASSUME NEW v \in Nat, NEW x \in 1 .. v
  PROVE  NewtonStop(v)[x] =
           IF NewtonStep(v, x) < x THEN NewtonStop(v)[NewtonStep(v, x)] ELSE x
<1> DEFINE Stops(stop) ==
             stop = [y \in 1 .. v |->
                       IF NewtonStep(v, y) < y THEN stop[NewtonStep(v, y)] ELSE y]
<1>1. NewtonStop(v) = CHOOSE stop : Stops(stop)
  BY DEF NewtonStop
<1>2. \E stop : Stops(stop)
  BY NewtonStopExists
<1> HIDE DEF Stops
<1>3. Stops(NewtonStop(v))
  BY <1>1, <1>2
<1> QED BY <1>3 DEF Stops

(* A step from x does not fall below the root: (x + q) / 2 for q = v / x     *)
(* is at least the geometric mean, rounding included.                      *)
LEMMA NewtonStepAboveRoot ==
  ASSUME NEW v \in Nat, NEW x \in 1 .. v
  PROVE  LET y == NewtonStep(v, x) IN v < (y + 1) * (y + 1)
<1> DEFINE q == v \div x
           y == (x + q) \div 2
<1>1. x \in Nat /\ x > 0
  OBVIOUS
<1>2. q \in Nat /\ v < (q + 1) * x
  BY <1>1, Quotient
<1> HIDE DEF q
<1>3. y \in Nat /\ x + q < 2 * y + 2
  BY <1>1, <1>2
<1> HIDE DEF y
<1> DEFINE s == x + q + 1
<1>4. s \in Nat /\ s <= 2 * (y + 1)
  BY <1>1, <1>2, <1>3
<1>5. 4 * ((q + 1) * x) <= s * s
  <2>1. s * s = 4 * ((q + 1) * x) + (x - (q + 1)) * (x - (q + 1))
    BY <1>1, <1>2
  <2>2. (x - (q + 1)) * (x - (q + 1)) >= 0
    BY <1>1, <1>2
  <2>3. (q + 1) * x \in Nat /\ s * s \in Nat /\ (x - (q + 1)) * (x - (q + 1)) \in Int
    BY <1>1, <1>2, <1>4
  <2> HIDE DEF s
  <2> QED BY <2>1, <2>2, <2>3
<1> HIDE DEF s
<1>6. s * s <= (2 * (y + 1)) * (2 * (y + 1))
  BY <1>3, <1>4, ProductMonotonic
<1>7. 4 * v < 4 * ((y + 1) * (y + 1))
  <2>1. (2 * (y + 1)) * (2 * (y + 1)) = 4 * ((y + 1) * (y + 1))
    BY <1>3
  <2>2. (q + 1) * x \in Nat /\ s * s \in Nat /\ (y + 1) * (y + 1) \in Nat
    BY <1>1, <1>2, <1>3, <1>4
  <2> QED BY <1>2, <1>5, <1>6, <2>1, <2>2
<1>8. (y + 1) * (y + 1) \in Nat
  BY <1>3
<1>9. v < (y + 1) * (y + 1)
  BY <1>7, <1>8
<1> QED BY <1>9 DEF y, q, NewtonStep

(* From anywhere above the root the iteration stops at the root.           *)
LEMMA NewtonStopsAtRoot ==
  ASSUME NEW v \in Nat, NEW x \in 1 .. v, v < (x + 1) * (x + 1)
  PROVE  LET r == NewtonStop(v)[x]
         IN  r \in Nat /\ r * r <= v /\ v < (r + 1) * (r + 1)
<1> DEFINE IsRoot(r) == r \in Nat /\ r * r <= v /\ v < (r + 1) * (r + 1)
           T == {y \in 1 .. v : v < (y + 1) * (y + 1) /\ ~ IsRoot(NewtonStop(v)[y])}
<1>1. SUFFICES ASSUME T # {} PROVE FALSE
  BY <1>1
<1>2. PICK y \in T : \A m \in T : y <= m
  <2>1. T \subseteq Nat
    OBVIOUS
  <2> HIDE DEF T
  <2> QED BY <1>1, <2>1, LeastNatural
<1> DEFINE next == NewtonStep(v, y)
<1>3. y \in 1 .. v /\ y \in Nat /\ y > 0 /\ v < (y + 1) * (y + 1)
  OBVIOUS
<1>4. ~ IsRoot(NewtonStop(v)[y])
  OBVIOUS
<1>5. next \in Nat /\ next >= 1 /\ v < (next + 1) * (next + 1)
  BY <1>3, NewtonStepRange, NewtonStepAboveRoot
<1>6. NewtonStop(v)[y] = IF next < y THEN NewtonStop(v)[next] ELSE y
  BY <1>3, NewtonStopDef
<1>7. CASE next < y
  <2>1. next \in 1 .. v /\ ~ (y <= next)
    BY <1>3, <1>5, <1>7
  <2>2. next \notin T
    BY <1>2, <2>1
  <2>3. IsRoot(NewtonStop(v)[next])
    BY <1>5, <2>1, <2>2
  <2> HIDE DEF IsRoot, next
  <2> QED BY <1>4, <1>6, <1>7, <2>3
<1>8. CASE ~ (next < y)
  <2> DEFINE q == v \div y
  <2>1. q \in Nat /\ q * y <= v
    BY <1>3, Quotient
  <2>2. (y + q) \div 2 >= y
    BY <1>3, <1>5, <1>8 DEF NewtonStep
  <2> HIDE DEF q
  <2>3. y <= q
    BY <1>3, <2>1, <2>2
  <2>4. y * y <= q * y
    BY <1>3, <2>1, <2>3, ProductMonotonic
  <2>5. y * y <= v
    BY <1>3, <2>1, <2>4, ProductNat
  <2>6. NewtonStop(v)[y] = y
    BY <1>6, <1>8
  <2> QED BY <1>3, <1>4, <2>5, <2>6
<1> QED BY <1>7, <1>8

(* integer_sqrt (lib.rs:309-320) returns the integer square root of every   *)
(* number: Newton's iteration stops neither early nor late.                *)
THEOREM IntegerSqrtIsRoot ==
  ASSUME NEW v \in Nat
  PROVE  LET r == integer_sqrt(v)
         IN  r \in Nat /\ r * r <= v /\ v < (r + 1) * (r + 1)
<1>1. CASE v = 0
  BY <1>1 DEF integer_sqrt
<1>2. CASE v # 0
  <2>1. v \in 1 .. v /\ v < (v + 1) * (v + 1)
    BY <1>2
  <2> QED BY <1>2, <2>1, NewtonStopsAtRoot DEF integer_sqrt
<1> QED BY <1>1, <1>2

-------------------------------------------------------------------------------
(* What the pool computes *)

(* A share is the quotient, a part of a whole never exceeds it, and less    *)
(* than the whole takes less than all of what there is.                    *)
LEMMA ShareRange ==
  ASSUME NEW amount \in Nat, NEW part \in Nat, NEW whole \in Nat, whole > 0
  PROVE  /\ Share(amount, part, whole) \in Nat
         /\ Share(amount, part, whole) * whole <= amount * part
         /\ amount * part < (Share(amount, part, whole) + 1) * whole
         /\ amount <= whole => Share(amount, part, whole) <= part
         /\ amount < whole /\ part > 0 => Share(amount, part, whole) < part
<1> DEFINE share == Share(amount, part, whole)
<1>1. amount * part \in Nat /\ whole * part \in Nat
  BY ProductNat
<1>2. share \in Nat /\ share * whole <= amount * part
                    /\ amount * part < (share + 1) * whole
  <2> DEFINE product == amount * part
  <2>1. product \in Nat
    BY <1>1
  <2>2. share = product \div whole
    BY DEF Share
  <2> HIDE DEF product, share
  <2>3. share \in Nat /\ share * whole <= product /\ product < share * whole + whole
    BY <2>1, <2>2, Quotient
  <2>4. (share + 1) * whole = share * whole + whole
    BY <2>3
  <2> QED BY <2>3, <2>4 DEF product
<1> HIDE DEF share
<1>3. ASSUME amount <= whole PROVE share <= part
  <2>1. amount * part <= part * whole
    BY <1>3
  <2>2. share * whole <= part * whole
    BY <1>1, <1>2, <2>1, ProductNat
  <2> QED BY <1>2, <2>2, CancelFactor
<1>4. ASSUME amount < whole, part > 0 PROVE share < part
  <2>1. amount * part < part * whole
    BY <1>4
  <2>2. share * whole < part * whole
    BY <1>1, <1>2, <2>1, ProductNat
  <2> QED BY <1>2, <2>2, CancelFactor
<1> QED BY <1>2, <1>3, <1>4 DEF share

(* The fee is a part of the input.                                         *)
LEMMA InputAfterFee ==
  ASSUME NEW amount_in \in Nat
  PROVE  (amount_in * (BPS - SWAP_FEE_BPS)) \div BPS \in 0 .. amount_in
<1> DEFINE net == BPS - SWAP_FEE_BPS
           after == (amount_in * net) \div BPS
<1>1. BPS \in Nat /\ BPS > 0 /\ net \in Nat /\ net <= BPS
  BY PoolAssumption
<1> HIDE DEF net
<1>2. amount_in * net \in Nat /\ amount_in * net <= amount_in * BPS
  BY <1>1
<1>3. after \in Nat /\ after * BPS <= amount_in * net
  BY <1>1, <1>2, Quotient
<1> HIDE DEF after
<1>4. after * BPS <= amount_in * BPS
  BY <1>1, <1>2, <1>3, ProductNat
<1>5. after <= amount_in
  BY <1>1, <1>3, <1>4, CancelFactor
<1> QED BY <1>3, <1>5 DEF after, net

(* A swap pays out less than the reserve and leaves the product of the      *)
(* reserves at least as large as it was.                                   *)
LEMMA SwapOutRange ==
  ASSUME NEW amount_in \in Nat, NEW reserve_in \in Nat, NEW reserve_out \in Nat,
         reserve_in > 0, reserve_out > 0
  PROVE  LET amount_out == SwapOut(amount_in, reserve_in, reserve_out)
         IN  /\ amount_out \in Nat
             /\ amount_out < reserve_out
             /\ (reserve_in + amount_in) * (reserve_out - amount_out)
                  >= reserve_in * reserve_out
<1> DEFINE after == (amount_in * (BPS - SWAP_FEE_BPS)) \div BPS
           whole == reserve_in + after
           out == (reserve_out * after) \div whole
<1>1. after \in Nat /\ after <= amount_in
  BY InputAfterFee
<1>2. out = SwapOut(amount_in, reserve_in, reserve_out)
  BY DEF SwapOut
<1> HIDE DEF after
<1>3. whole \in Nat /\ whole > 0 /\ after < whole
  BY <1>1
<1>4. whole * reserve_out = reserve_in * reserve_out + after * reserve_out
  BY <1>1
<1> HIDE DEF whole
<1>5. reserve_out * after \in Nat /\ reserve_out * after < reserve_out * whole
  BY <1>1, <1>3
<1>6. out \in Nat /\ out * whole <= reserve_out * after
  BY <1>3, <1>5, Quotient
<1> HIDE DEF out
<1>7. out * whole < reserve_out * whole
  BY <1>3, <1>5, <1>6, ProductNat
<1>8. out < reserve_out
  BY <1>3, <1>6, <1>7, CancelFactor
<1>9. whole * (reserve_out - out) >= reserve_in * reserve_out
  <2>1. whole * (reserve_out - out) = whole * reserve_out - out * whole
    BY <1>3, <1>6
  <2>2. /\ whole * reserve_out \in Nat /\ reserve_in * reserve_out \in Nat
        /\ after * reserve_out \in Nat /\ out * whole \in Nat
        /\ after * reserve_out = reserve_out * after
    BY <1>1, <1>3, <1>6
  <2> QED BY <1>4, <1>6, <2>1, <2>2
<1>10. whole * (reserve_out - out)
         <= (reserve_in + amount_in) * (reserve_out - out)
  <2>1. reserve_out - out \in Nat /\ whole <= reserve_in + amount_in
    BY <1>1, <1>6, <1>8 DEF whole
  <2> HIDE DEF whole
  <2> QED BY <1>3, <2>1, ProductMonotonic
<1>11. /\ whole * (reserve_out - out) \in Int /\ reserve_in * reserve_out \in Int
       /\ (reserve_in + amount_in) * (reserve_out - out) \in Int
  BY <1>3, <1>6
<1>12. (reserve_in + amount_in) * (reserve_out - out) >= reserve_in * reserve_out
  BY <1>9, <1>10, <1>11
<1> QED BY <1>2, <1>6, <1>8, <1>12

-------------------------------------------------------------------------------
(* Steps *)

\* What the provers need to know of owners and numbers.
LEMMA Owned ==
  /\ IsFiniteSet(Owners) /\ IsFiniteSet(Users)
  /\ PoolPda \in Owners /\ Users \subseteq Owners
  /\ \A u \in Users : u # PoolPda
  /\ \A o \in Owners : o \in Users \/ o = PoolPda
  /\ NoKey \notin Owners
  /\ Amounts \subseteq Nat
  /\ \A n \in U64 : n \in Nat
<1>1. IsFiniteSet({PoolPda})
  BY FS_Singleton
<1>2. IsFiniteSet(Owners)
  BY <1>1, PoolAssumption, FS_Union DEF Owners
<1> QED BY <1>2, PoolAssumption, MaxU64Assumption DEF Owners, U64

\* What a transfer does to a ledger that is shared with the pool.
LEMMA TransferEffect ==
  ASSUME NEW S, IsFiniteSet(S), NEW ledger, ledger \in [S -> U64],
         NEW from \in S, NEW to \in S, NEW amount \in Nat,
         CanTransfer(ledger, from, to, amount, amount)
  PROVE  LET after == Transferred(ledger, from, to, amount, amount)
         IN  /\ after \in [S -> U64]
             /\ Total(after) = Total(ledger)
             /\ amount <= ledger[from]
             /\ from = to => after = ledger
             /\ from # to => /\ after[from] = ledger[from] - amount
                             /\ after[to] = ledger[to] + amount
             /\ \A s \in S \ {from, to} : after[s] = ledger[s]
<1> DEFINE after == Transferred(ledger, from, to, amount, amount)
<1>1. after \in [S -> U64] /\ Total(after) = Total(ledger)
  BY TotalTransferred
<1> QED BY <1>1 DEF CanTransfer, Transferred

LEMMA MovePEffect ==
  ASSUME pToken \in [Owners -> U64], NEW from \in Owners, NEW to \in Owners,
         NEW amount \in Nat, MoveP(from, to, amount)
  PROVE  /\ pToken' \in [Owners -> U64]
         /\ Total(pToken') = Total(pToken)
         /\ amount <= pToken[from]
         /\ from = to => pToken' = pToken
         /\ from # to => /\ pToken'[from] = pToken[from] - amount
                         /\ pToken'[to] = pToken[to] + amount
         /\ \A o \in Owners \ {from, to} : pToken'[o] = pToken[o]
<1>1. /\ CanTransfer(pToken, from, to, amount, amount)
      /\ pToken' = Transferred(pToken, from, to, amount, amount)
  BY DEF MoveP, CanMoveP
<1> QED BY <1>1, Owned, TransferEffect

LEMMA MoveQuoteEffect ==
  ASSUME quote \in [Owners -> U64], NEW from \in Owners, NEW to \in Owners,
         NEW amount \in Nat, MoveQuote(from, to, amount)
  PROVE  /\ quote' \in [Owners -> U64]
         /\ Total(quote') = Total(quote)
         /\ amount <= quote[from]
         /\ from = to => quote' = quote
         /\ from # to => /\ quote'[from] = quote[from] - amount
                         /\ quote'[to] = quote[to] + amount
         /\ \A o \in Owners \ {from, to} : quote'[o] = quote[o]
<1>1. /\ CanTransfer(quote, from, to, amount, amount)
      /\ quote' = Transferred(quote, from, to, amount, amount)
  BY DEF MoveQuote, CanMoveQuote
<1> QED BY <1>1, Owned, TransferEffect

(* The cast keeps what it is given within u64, keeps it as it is when it    *)
(* fits, and makes nothing larger.                                         *)
LEMMA AsU64Range ==
  ASSUME NEW n \in Nat
  PROVE  AsU64(n) \in U64 /\ AsU64(n) <= n /\ (n <= MaxU64 => AsU64(n) = n)
  BY MaxU64Assumption DEF AsU64, U64

(* A deposit, whatever share is credited for it.                           *)
LEMMA DepositEffect ==
  ASSUME TypeOK, NEW user \in Users, NEW use_p \in Nat, NEW use_q \in Nat,
         NEW mint_lp \in Nat, Deposit(user, use_p, use_q, mint_lp)
  PROVE  /\ TypeOK'
         /\ ReserveP' = ReserveP + use_p /\ ReserveQ' = ReserveQ + use_q
         /\ lpSupply' = lpSupply + AsU64(mint_lp)
         /\ Total(pToken') = Total(pToken) /\ Total(quote') = Total(quote)
         /\ Total(lp') = Total(lp) + AsU64(mint_lp)
         /\ pool' = pool /\ credential' = credential
<1> DEFINE minted == AsU64(mint_lp)
<1>1. /\ MoveP(user, PoolPda, use_p) /\ MoveQuote(user, PoolPda, use_q)
      /\ CanMint(lp, lpSupply, user, minted)
      /\ lp' = Minted(lp, user, minted)
      /\ lpSupply' = lpSupply + minted
      /\ pool' = pool /\ credential' = credential
  BY DEF Deposit
<1>2. minted \in Nat
  BY AsU64Range, Owned
<1> HIDE DEF minted
<1>3. user \in Owners /\ PoolPda \in Owners /\ user # PoolPda
  BY Owned
<1>4. /\ pToken' \in [Owners -> U64] /\ Total(pToken') = Total(pToken)
      /\ ReserveP' = ReserveP + use_p
  BY <1>1, <1>3, MovePEffect DEF TypeOK, ReserveP
<1>5. /\ quote' \in [Owners -> U64] /\ Total(quote') = Total(quote)
      /\ ReserveQ' = ReserveQ + use_q
  BY <1>1, <1>3, MoveQuoteEffect DEF TypeOK, ReserveQ
<1>6. lp' \in [Users -> U64] /\ Total(lp') = Total(lp) + minted
  BY <1>1, <1>2, Owned, TotalMinted DEF TypeOK, CanMint
<1>7. lpSupply' \in U64
  BY <1>1, <1>2, MaxU64Assumption DEF TypeOK, CanMint, U64
<1> QED BY <1>1, <1>4, <1>5, <1>6, <1>7 DEF TypeOK, minted

(* Both branches of add_liquidity are such deposits: the first credits the  *)
(* root of the product, the others a share of the supply.                  *)
LEMMA AddLiquidityEffect ==
  ASSUME TypeOK, NEW user \in Users, NEW amount_p \in Amounts,
         NEW max_quote \in Amounts, AddLiquidity(user, amount_p, max_quote)
  PROVE  \E use_q \in Nat, mint_lp \in Nat :
           /\ Deposit(user, amount_p, use_q, mint_lp)
           /\ amount_p \in U64 /\ amount_p > 0 /\ pool
           /\ lpSupply = 0 => /\ use_q = max_quote /\ use_q \in U64 /\ use_q > 0
                              /\ mint_lp = integer_sqrt(amount_p * use_q)
           /\ lpSupply # 0 => /\ ReserveP > 0
                              /\ use_q = Share(amount_p, ReserveQ, ReserveP)
                              /\ mint_lp = Share(amount_p, lpSupply, ReserveP)
<1>1. amount_p \in U64 /\ max_quote \in U64 /\ amount_p \in Nat /\ max_quote \in Nat
  BY Owned, PoolAssumption
<1>2. amount_p > 0 /\ max_quote > 0 /\ pool
  BY DEF AddLiquidity, ModifyLiquidityAccounts
<1>3. ReserveP \in Nat /\ ReserveQ \in Nat /\ lpSupply \in Nat
  BY Owned DEF TypeOK, ReserveP, ReserveQ
<1>4. CASE lpSupply = 0
  <2>1. amount_p * max_quote \in Nat
    BY <1>1
  <2>2. integer_sqrt(amount_p * max_quote) \in Nat
    BY <2>1, IntegerSqrtIsRoot
  <2>3. Deposit(user, amount_p, max_quote, integer_sqrt(amount_p * max_quote))
    BY <1>4 DEF AddLiquidity
  <2> QED BY <1>1, <1>2, <1>4, <2>2, <2>3
<1>5. CASE lpSupply # 0
  <2> DEFINE use_q == Share(amount_p, ReserveQ, ReserveP)
             mint_lp == Share(amount_p, lpSupply, ReserveP)
  <2>1. ReserveP > 0 /\ Deposit(user, amount_p, use_q, mint_lp)
    BY <1>5 DEF AddLiquidity
  <2>2. use_q \in Nat /\ mint_lp \in Nat
    BY <1>1, <1>3, <2>1, ShareRange
  <2>3. /\ use_q = Share(amount_p, ReserveQ, ReserveP)
        /\ mint_lp = Share(amount_p, lpSupply, ReserveP)
    OBVIOUS
  <2> HIDE DEF use_q, mint_lp
  <2> QED BY <1>1, <1>2, <1>5, <2>1, <2>2, <2>3
<1> QED BY <1>4, <1>5

(* A withdrawal pays at most what is there, and leaves something of both    *)
(* reserves to the LPs who stay.                                           *)
LEMMA RemoveLiquidityEffect ==
  ASSUME TypeOK, NEW user \in Users, NEW lp_amount \in Amounts,
         RemoveLiquidity(user, lp_amount)
  PROVE  LET out_p == Share(lp_amount, ReserveP, lpSupply)
             out_q == Share(lp_amount, ReserveQ, lpSupply)
         IN  /\ TypeOK'
             /\ lp_amount \in Nat /\ lp_amount > 0 /\ lp_amount <= lpSupply
             /\ out_p \in Nat /\ out_q \in Nat
             /\ ReserveP' = ReserveP - out_p /\ ReserveQ' = ReserveQ - out_q
             /\ lpSupply' = lpSupply - lp_amount
             /\ Total(pToken') = Total(pToken) /\ Total(quote') = Total(quote)
             /\ Total(lp') = Total(lp) - lp_amount
             /\ pool /\ pool' = pool /\ credential' = credential
<1> DEFINE out_p == Share(lp_amount, ReserveP, lpSupply)
           out_q == Share(lp_amount, ReserveQ, lpSupply)
<1>1. /\ lp_amount > 0 /\ lpSupply > 0 /\ pool
      /\ CanBurn(lp, lpSupply, user, lp_amount)
  BY DEF RemoveLiquidity, CanRemoveLiquidity, ModifyLiquidityAccounts
<1>2. /\ MoveP(PoolPda, user, out_p) /\ MoveQuote(PoolPda, user, out_q)
      /\ lp' = Burned(lp, user, lp_amount) /\ lpSupply' = lpSupply - lp_amount
      /\ pool' = pool /\ credential' = credential
  BY DEF RemoveLiquidity
<1>3. ReserveP \in Nat /\ ReserveQ \in Nat /\ lpSupply \in Nat /\ lp_amount \in Nat
  BY Owned DEF TypeOK, ReserveP, ReserveQ
<1>4. out_p \in Nat /\ out_q \in Nat
  BY <1>1, <1>3, ShareRange
<1> HIDE DEF out_p, out_q
<1>5. user \in Owners /\ PoolPda \in Owners /\ user # PoolPda
  BY Owned
<1>6. /\ pToken' \in [Owners -> U64] /\ Total(pToken') = Total(pToken)
      /\ ReserveP' = ReserveP - out_p
  BY <1>2, <1>4, <1>5, MovePEffect DEF TypeOK, ReserveP
<1>7. /\ quote' \in [Owners -> U64] /\ Total(quote') = Total(quote)
      /\ ReserveQ' = ReserveQ - out_q
  BY <1>2, <1>4, <1>5, MoveQuoteEffect DEF TypeOK, ReserveQ
<1>8. /\ lp' \in [Users -> U64] /\ Total(lp') = Total(lp) - lp_amount
      /\ lp_amount <= lpSupply
  BY <1>1, <1>2, <1>3, Owned, TotalBurned DEF TypeOK, CanBurn
<1>9. lpSupply' \in U64
  BY <1>2, <1>3, <1>8, MaxU64Assumption DEF TypeOK, U64
<1> QED BY <1>1, <1>2, <1>3, <1>4, <1>6, <1>7, <1>8, <1>9 DEF TypeOK, out_p, out_q

(* Either direction of a swap adds the input to one reserve and takes the   *)
(* output from the other, and the product of the two does not fall.        *)
LEMMA SwapEffect ==
  ASSUME TypeOK, NEW user \in Users, NEW amount_in \in Amounts, NEW min_out,
         NEW p_to_quote \in BOOLEAN, Swap(user, amount_in, min_out, p_to_quote)
  PROVE  /\ TypeOK'
         /\ ReserveP' > 0 /\ ReserveQ' > 0
         /\ ReserveP' * ReserveQ' >= ReserveP * ReserveQ
         /\ Total(pToken') = Total(pToken) /\ Total(quote') = Total(quote)
         /\ UNCHANGED <<pool, lp, lpSupply, credential>>
<1>1. /\ ReserveP > 0 /\ ReserveQ > 0 /\ amount_in > 0
      /\ UNCHANGED <<pool, lp, lpSupply, credential>>
  BY DEF Swap
<1>2. ReserveP \in Nat /\ ReserveQ \in Nat /\ amount_in \in Nat
  BY Owned DEF TypeOK, ReserveP, ReserveQ
<1>3. user \in Owners /\ PoolPda \in Owners /\ user # PoolPda
  BY Owned
<1>4. CASE p_to_quote
  <2> DEFINE out == SwapOut(amount_in, ReserveP, ReserveQ)
  <2>1. MoveP(user, PoolPda, amount_in) /\ MoveQuote(PoolPda, user, out)
    BY <1>4 DEF Swap
  <2>2. /\ out \in Nat /\ out < ReserveQ
        /\ (ReserveP + amount_in) * (ReserveQ - out) >= ReserveP * ReserveQ
    BY <1>1, <1>2, SwapOutRange
  <2> HIDE DEF out
  <2>3. /\ pToken' \in [Owners -> U64] /\ Total(pToken') = Total(pToken)
        /\ ReserveP' = ReserveP + amount_in
    BY <1>2, <1>3, <2>1, MovePEffect DEF TypeOK, ReserveP
  <2>4. /\ quote' \in [Owners -> U64] /\ Total(quote') = Total(quote)
        /\ ReserveQ' = ReserveQ - out
    BY <1>3, <2>1, <2>2, MoveQuoteEffect DEF TypeOK, ReserveQ
  <2>5. ReserveP' > 0 /\ ReserveQ' > 0
    BY <1>1, <1>2, <2>2, <2>3, <2>4
  <2> QED BY <1>1, <2>2, <2>3, <2>4, <2>5 DEF TypeOK
<1>5. CASE ~ p_to_quote
  <2> DEFINE out == SwapOut(amount_in, ReserveQ, ReserveP)
  <2>1. MoveQuote(user, PoolPda, amount_in) /\ MoveP(PoolPda, user, out)
    BY <1>5 DEF Swap
  <2>2. /\ out \in Nat /\ out < ReserveP
        /\ (ReserveQ + amount_in) * (ReserveP - out) >= ReserveQ * ReserveP
    BY <1>1, <1>2, SwapOutRange
  <2> HIDE DEF out
  <2>3. /\ pToken' \in [Owners -> U64] /\ Total(pToken') = Total(pToken)
        /\ ReserveP' = ReserveP - out
    BY <1>3, <2>1, <2>2, MovePEffect DEF TypeOK, ReserveP
  <2>4. /\ quote' \in [Owners -> U64] /\ Total(quote') = Total(quote)
        /\ ReserveQ' = ReserveQ + amount_in
    BY <1>2, <1>3, <2>1, MoveQuoteEffect DEF TypeOK, ReserveQ
  <2>5. ReserveP' > 0 /\ ReserveQ' > 0
    BY <1>1, <1>2, <2>2, <2>3, <2>4
  <2>6. ReserveP' * ReserveQ' >= ReserveP * ReserveQ
    BY <1>2, <2>2, <2>3, <2>4
  <2> QED BY <1>1, <2>3, <2>4, <2>5, <2>6 DEF TypeOK
<1> QED BY <1>4, <1>5

-------------------------------------------------------------------------------
(* The invariant *)

(* A gift leaves everything but two balances alone, and takes nothing from  *)
(* the pool.                                                               *)
LEMMA GiftEffect ==
  ASSUME TypeOK, NEW from \in Users, NEW to \in Owners, NEW amount \in Amounts,
         TransferPToken(from, to, amount) \/ TransferQuote(from, to, amount)
  PROVE  /\ TypeOK'
         /\ ReserveP' >= ReserveP /\ ReserveQ' >= ReserveQ
         /\ Total(pToken') = Total(pToken) /\ Total(quote') = Total(quote)
         /\ UNCHANGED <<pool, lp, lpSupply, credential>>
<1>1. from \in Owners /\ from # PoolPda /\ PoolPda \in Owners /\ amount \in Nat
  BY Owned
<1>2. ReserveP \in Nat /\ ReserveQ \in Nat
  BY Owned DEF TypeOK, ReserveP, ReserveQ
<1>3. CASE TransferPToken(from, to, amount)
  <2>1. MoveP(from, to, amount) /\ UNCHANGED <<pool, quote, lp, lpSupply, credential>>
    BY <1>3 DEF TransferPToken
  <2>2. pToken' \in [Owners -> U64] /\ Total(pToken') = Total(pToken)
    BY <1>1, <2>1, MovePEffect DEF TypeOK
  <2>3. ReserveP' = ReserveP \/ ReserveP' = ReserveP + amount
    BY <1>1, <2>1, MovePEffect DEF TypeOK, ReserveP
  <2> QED BY <1>1, <1>2, <2>1, <2>2, <2>3 DEF TypeOK, ReserveQ
<1>4. CASE TransferQuote(from, to, amount)
  <2>1. MoveQuote(from, to, amount) /\ UNCHANGED <<pool, pToken, lp, lpSupply, credential>>
    BY <1>4 DEF TransferQuote
  <2>2. quote' \in [Owners -> U64] /\ Total(quote') = Total(quote)
    BY <1>1, <2>1, MoveQuoteEffect DEF TypeOK
  <2>3. ReserveQ' = ReserveQ \/ ReserveQ' = ReserveQ + amount
    BY <1>1, <2>1, MoveQuoteEffect DEF TypeOK, ReserveQ
  <2> QED BY <1>1, <1>2, <2>1, <2>2, <2>3 DEF TypeOK, ReserveP
<1> QED BY <1>3, <1>4

LEMMA InductiveInit == Init => Inductive
<1> SUFFICES ASSUME Init PROVE Inductive
  OBVIOUS
<1>1. 0 \in U64
  BY MaxU64Assumption DEF U64
<1>2. InitialP \in [Owners -> U64] /\ InitialQ \in [Owners -> U64]
  BY <1>1, PoolAssumption DEF InitialP, InitialQ, Owners
<1>3. TypeOK
  BY <1>1, <1>2 DEF Init, TypeOK
<1>4. Total(lp) = 0
  BY TotalOfNothing DEF Init
<1> QED BY <1>3, <1>4 DEF Init, Inductive, LpBacked, Circulation

LEMMA InductiveStep == Inductive /\ [Next]_vars => Inductive'
<1> SUFFICES ASSUME Inductive, [Next]_vars PROVE Inductive'
  OBVIOUS
<1>0. /\ TypeOK
      /\ Total(pToken) = Total(InitialP) /\ Total(quote) = Total(InitialQ)
      /\ Total(lp) = lpSupply
      /\ lpSupply > 0 => pool /\ ReserveP > 0 /\ ReserveQ > 0
      /\ \A o \in Owners : credential[o] \in {NoKey, o}
  BY DEF Inductive, Circulation, LpBacked
<1>00. ReserveP \in Nat /\ ReserveQ \in Nat /\ lpSupply \in Nat
  BY <1>0, Owned DEF TypeOK, ReserveP, ReserveQ
<1>1. CASE InitializePool
  BY <1>0, <1>1 DEF InitializePool, Inductive, TypeOK, Circulation, LpBacked,
                    ReserveP, ReserveQ
<1>2. ASSUME NEW u \in Users, NEW a \in Amounts, NEW q \in Amounts,
             AddLiquidity(u, a, q)
      PROVE  Inductive'
  <2>1. PICK use_q \in Nat, mint_lp \in Nat :
           /\ Deposit(u, a, use_q, mint_lp)
           /\ a \in U64 /\ a > 0 /\ pool
           /\ lpSupply = 0 => use_q > 0
    BY <1>0, <1>2, AddLiquidityEffect
  <2>2. a \in Nat
    BY Owned
  <2>3. /\ TypeOK'
        /\ ReserveP' = ReserveP + a /\ ReserveQ' = ReserveQ + use_q
        /\ lpSupply' = lpSupply + AsU64(mint_lp)
        /\ Total(pToken') = Total(pToken) /\ Total(quote') = Total(quote)
        /\ Total(lp') = Total(lp) + AsU64(mint_lp)
        /\ pool' = pool /\ credential' = credential
    BY <1>0, <2>1, <2>2, DepositEffect
  <2>4. ReserveP' > 0 /\ ReserveQ' > 0
    BY <1>0, <1>00, <2>1, <2>2, <2>3
  <2> QED BY <1>0, <2>1, <2>3, <2>4 DEF Inductive, Circulation, LpBacked
<1>3. ASSUME NEW u \in Users, NEW n \in Amounts, RemoveLiquidity(u, n)
      PROVE  Inductive'
  <2> DEFINE out_p == Share(n, ReserveP, lpSupply)
             out_q == Share(n, ReserveQ, lpSupply)
  <2>1. /\ TypeOK'
        /\ n \in Nat /\ n > 0 /\ n <= lpSupply
        /\ out_p \in Nat /\ out_q \in Nat
        /\ ReserveP' = ReserveP - out_p /\ ReserveQ' = ReserveQ - out_q
        /\ lpSupply' = lpSupply - n
        /\ Total(pToken') = Total(pToken) /\ Total(quote') = Total(quote)
        /\ Total(lp') = Total(lp) - n
        /\ pool /\ pool' = pool /\ credential' = credential
    BY <1>0, <1>3, RemoveLiquidityEffect
  <2>2. n < lpSupply => out_p < ReserveP /\ out_q < ReserveQ
    BY <1>0, <1>00, <2>1, ShareRange
  <2> HIDE DEF out_p, out_q
  <2>3. lpSupply' > 0 => ReserveP' > 0 /\ ReserveQ' > 0
    BY <1>00, <2>1, <2>2
  <2> QED BY <1>0, <2>1, <2>3 DEF Inductive, Circulation, LpBacked
<1>4. ASSUME NEW u \in Users, NEW n \in Amounts, NEW m \in Amounts,
             NEW b \in BOOLEAN, Swap(u, n, m, b)
      PROVE  Inductive'
  <2>1. /\ TypeOK'
        /\ ReserveP' > 0 /\ ReserveQ' > 0
        /\ Total(pToken') = Total(pToken) /\ Total(quote') = Total(quote)
        /\ UNCHANGED <<pool, lp, lpSupply, credential>>
    BY <1>0, <1>4, SwapEffect
  <2> QED BY <1>0, <2>1 DEF Inductive, Circulation, LpBacked
<1>5. ASSUME NEW o \in Owners, Verify(o) \/ Revoke(o) PROVE Inductive'
  BY <1>0, <1>5 DEF Verify, Revoke, Inductive, TypeOK, Circulation, LpBacked,
                    ReserveP, ReserveQ
<1>6. ASSUME NEW u \in Users, NEW o \in Owners, NEW n \in Amounts,
             TransferPToken(u, o, n) \/ TransferQuote(u, o, n)
      PROVE  Inductive'
  <2>1. /\ TypeOK'
        /\ ReserveP' >= ReserveP /\ ReserveQ' >= ReserveQ
        /\ Total(pToken') = Total(pToken) /\ Total(quote') = Total(quote)
        /\ UNCHANGED <<pool, lp, lpSupply, credential>>
    BY <1>0, <1>6, GiftEffect
  <2>2. ReserveP' \in Nat /\ ReserveQ' \in Nat
    BY <2>1, Owned DEF TypeOK, ReserveP, ReserveQ
  <2>3. lpSupply > 0 => ReserveP' > 0 /\ ReserveQ' > 0
    BY <1>0, <1>00, <2>1, <2>2
  <2> QED BY <1>0, <2>1, <2>3 DEF Inductive, Circulation, LpBacked
<1>7. ASSUME NEW u \in Users, NEW w \in Users, NEW n \in Amounts, TransferLp(u, w, n)
      PROVE  Inductive'
  <2>1. /\ n \in Nat /\ CanTransfer(lp, u, w, n, n)
        /\ lp' = Transferred(lp, u, w, n, n)
        /\ UNCHANGED <<pool, pToken, quote, lpSupply, credential>>
    BY <1>7, Owned DEF TransferLp
  <2>2. lp' \in [Users -> U64] /\ Total(lp') = Total(lp)
    BY <1>0, <2>1, Owned, TotalTransferred DEF TypeOK
  <2> QED BY <1>0, <2>1, <2>2 DEF Inductive, TypeOK, Circulation, LpBacked,
                                  ReserveP, ReserveQ
<1>8. ASSUME NEW u \in Users, NEW n \in Amounts, BurnLp(u, n)
      PROVE  Inductive'
  <2>1. /\ n \in Nat /\ n <= lp[u] /\ n <= lpSupply
        /\ lp' = Burned(lp, u, n) /\ lpSupply' = lpSupply - n
        /\ UNCHANGED <<pool, pToken, quote, credential>>
    BY <1>8, Owned DEF BurnLp, CanBurn
  <2>2. lp' \in [Users -> U64] /\ Total(lp') = Total(lp) - n
    BY <1>0, <2>1, Owned, TotalBurned DEF TypeOK
  <2>3. lpSupply' \in U64 /\ (lpSupply' > 0 => lpSupply > 0)
    BY <1>0, <1>00, <2>1, MaxU64Assumption DEF TypeOK, U64
  <2> QED BY <1>0, <2>1, <2>2, <2>3 DEF Inductive, TypeOK, Circulation, LpBacked,
                                        ReserveP, ReserveQ
<1>9. CASE UNCHANGED vars
  BY <1>0, <1>9 DEF vars, Inductive, TypeOK, Circulation, LpBacked, ReserveP, ReserveQ
<1> QED BY <1>1, <1>2, <1>3, <1>4, <1>5, <1>6, <1>7, <1>8, <1>9
        DEF Next, Program, Environment

(* Whatever is added, withdrawn, swapped, given and burnt, in whatever      *)
(* order: the accounts hold what was there at the start, the LP tokens in  *)
(* the wallets are the supply, and a pool with LP tokens has both reserves. *)
THEOREM InductiveHolds == Spec => []Inductive
  BY InductiveInit, InductiveStep, PTL DEF Spec

(* Balances and supply stay within u64, for every width of it.             *)
THEOREM TypeCorrect == Spec => []TypeOK
<1>1. Inductive => TypeOK
  BY DEF Inductive
<1> QED BY <1>1, InductiveHolds, PTL

(* No instruction of the pool divides by zero or finds a reserve empty      *)
(* while an LP token exists.                                               *)
THEOREM LpBackedAlways == Spec => []LpBacked
<1>1. Inductive => LpBacked
  BY DEF Inductive
<1> QED BY <1>1, InductiveHolds, PTL

-------------------------------------------------------------------------------
(* What follows from it *)

(* Whoever holds LP tokens and a credential of its own can withdraw any     *)
(* part that is worth a base unit of either reserve, and whoever holds all *)
(* of them, all of it: the pool's own credential does not matter and no    *)
(* account overflows.                                                      *)
THEOREM OnlyDustIsRefusedAlways == Spec => []OnlyDustIsRefused
<1>1. Inductive => OnlyDustIsRefused
  <2> SUFFICES ASSUME Inductive, NEW u \in Users, credential[u] # NoKey,
                      NEW n \in 1 .. lp[u]
               PROVE  \/ CanRemoveLiquidity(u, n)
                      \/ /\ n < lpSupply
                         /\ n * ReserveP < lpSupply \/ n * ReserveQ < lpSupply
    BY DEF OnlyDustIsRefused
  <2> DEFINE out_p == Share(n, ReserveP, lpSupply)
             out_q == Share(n, ReserveQ, lpSupply)
  <2>1. /\ pToken \in [Owners -> U64] /\ quote \in [Owners -> U64]
        /\ lp \in [Users -> U64]
        /\ Total(pToken) <= MaxU64 /\ Total(quote) <= MaxU64
        /\ Total(lp) = lpSupply
        /\ lpSupply > 0 => pool /\ ReserveP > 0 /\ ReserveQ > 0
    BY SupplyAssumption DEF Inductive, TypeOK, Circulation, LpBacked
  <2>2. /\ u \in Owners /\ PoolPda \in Owners /\ u # PoolPda
        /\ ReserveP \in Nat /\ ReserveQ \in Nat /\ lpSupply \in Nat /\ lp[u] \in Nat
        /\ pToken[u] \in Nat /\ quote[u] \in Nat
    BY <2>1, Owned DEF Inductive, TypeOK, ReserveP, ReserveQ
  <2>3. lp[u] <= lpSupply
    BY <2>1, Owned, BalanceWithinTotal
  <2>4. /\ n \in Nat /\ n > 0 /\ n <= lp[u] /\ n <= lpSupply
        /\ lpSupply > 0 /\ pool /\ ReserveP > 0 /\ ReserveQ > 0
    BY <2>1, <2>2, <2>3
  <2>5. /\ out_p \in Nat /\ out_p <= ReserveP /\ out_q \in Nat /\ out_q <= ReserveQ
        /\ n * ReserveP < (out_p + 1) * lpSupply
        /\ n * ReserveQ < (out_q + 1) * lpSupply
    BY <2>2, <2>4, ShareRange
  <2> HIDE DEF out_p, out_q
  <2>6. CASE out_p > 0 /\ out_q > 0
    <3>1. /\ pToken[u] + ReserveP <= Total(pToken)
          /\ quote[u] + ReserveQ <= Total(quote)
      BY <2>1, <2>2, Owned, BalancesWithinTotal DEF ReserveP, ReserveQ
    <3>2. Total(pToken) \in Nat /\ Total(quote) \in Nat
      BY <2>1, Owned, TotalType
    <3>3. pToken[u] + out_p <= MaxU64 /\ quote[u] + out_q <= MaxU64
      BY <2>1, <2>2, <2>5, <3>1, <3>2, MaxU64Assumption
    <3>4. Hook!TransferHook(PoolPda, u)
      BY <2>2 DEF Inductive, Hook!TransferHook, Hook!ResolvedCredential
    <3>5. CanMoveP(PoolPda, u, out_p) /\ CanMoveQuote(PoolPda, u, out_q)
      BY <2>5, <3>3, <3>4 DEF CanMoveP, CanMoveQuote, CanTransfer, ReserveP, ReserveQ
    <3>6. CanBurn(lp, lpSupply, u, n)
      BY <2>2, <2>4 DEF CanBurn
    <3> QED BY <2>4, <2>6, <3>5, <3>6
            DEF CanRemoveLiquidity, ModifyLiquidityAccounts, out_p, out_q
  <2>7. CASE ~(out_p > 0 /\ out_q > 0)
    <3>1. n * ReserveP < lpSupply \/ n * ReserveQ < lpSupply
      BY <2>2, <2>5, <2>7
    <3>2. lpSupply <= lpSupply * ReserveP /\ lpSupply <= lpSupply * ReserveQ
      BY <2>2, <2>4, ProductMonotonic
    <3>3. n # lpSupply
      BY <2>2, <2>4, <3>1, <3>2
    <3> QED BY <2>2, <2>4, <3>1, <3>3
  <2> QED BY <2>6, <2>7
<1> QED BY <1>1, InductiveHolds, PTL

(* Adding liquidity and taking it out again at once costs the rounding and  *)
(* never pays, for every amount and every state of the pool.               *)
LEMMA DepositRoundTrip ==
  ASSUME NEW a \in Nat, NEW p \in Nat, NEW q \in Nat, NEW s \in Nat,
         p > 0, s > 0
  PROVE  LET need_q == Share(a, q, p)
             minted == Share(a, s, p)
         IN  /\ Share(minted, p + a, s + minted) <= a
             /\ Share(minted, q + need_q, s + minted) <= need_q
<1> DEFINE need_q == Share(a, q, p)
           minted == Share(a, s, p)
<1>1. /\ need_q \in Nat /\ minted \in Nat
      /\ minted * p <= a * s
      /\ a * q < (need_q + 1) * p
  BY ShareRange
<1> HIDE DEF need_q, minted
<1>2. minted * (p + a) < (a + 1) * (s + minted)
  <2>1. /\ minted * (p + a) = minted * p + minted * a
        /\ (a + 1) * (s + minted) = a * s + minted * a + s + minted
    BY <1>1
  <2>2. minted * p \in Nat /\ minted * a \in Nat /\ a * s \in Nat
    BY <1>1
  <2> QED BY <1>1, <2>1, <2>2
<1>3. minted * (q + need_q) < (need_q + 1) * (s + minted)
  <2>1. (minted * p) * q <= (a * s) * q
    BY <1>1, ProductNat, ProductMonotonic
  <2>2. (a * q) * s < ((need_q + 1) * p) * s
    <3>1. a * q \in Nat /\ (need_q + 1) * p \in Nat
      BY <1>1
    <3> DEFINE x == a * q
               y == (need_q + 1) * p
    <3> HIDE DEF x, y
    <3>2. x * s < y * s
      BY <1>1, <3>1 DEF x, y
    <3> QED BY <3>2 DEF x, y
  <2>3. /\ (minted * p) * q = (minted * q) * p
        /\ (a * s) * q = (a * q) * s
        /\ ((need_q + 1) * p) * s = ((need_q + 1) * s) * p
    BY <1>1
  <2>4. /\ (minted * q) * p \in Nat /\ (a * q) * s \in Nat
        /\ ((need_q + 1) * s) * p \in Nat
        /\ minted * q \in Nat /\ (need_q + 1) * s \in Nat
    BY <1>1
  <2>5. (minted * q) * p < ((need_q + 1) * s) * p
    BY <2>1, <2>2, <2>3, <2>4
  <2>6. minted * q < (need_q + 1) * s
    BY <2>4, <2>5, CancelFactor
  <2>7. /\ minted * (q + need_q) = minted * q + minted * need_q
        /\ (need_q + 1) * (s + minted) = (need_q + 1) * s + minted * need_q + minted
    BY <1>1
  <2>8. minted * need_q \in Nat
    BY <1>1
  <2> QED BY <1>1, <2>4, <2>6, <2>7, <2>8
<1>4. minted * (p + a) \in Nat /\ minted * (q + need_q) \in Nat
  BY <1>1
<1>5. Share(minted, p + a, s + minted) <= a
  BY <1>1, <1>2, <1>4, QuotientBelow DEF Share
<1>6. Share(minted, q + need_q, s + minted) <= need_q
  BY <1>1, <1>3, <1>4, QuotientBelow DEF Share
<1> QED BY <1>5, <1>6 DEF need_q, minted

(* A deposit taken out again at once never yields more of either token than *)
(* was put in, whatever the reserves, the supply and the roundings.        *)
THEOREM NoProfitFromDepositAlways == Spec => []NoProfitFromDeposit
<1>1. Inductive => NoProfitFromDeposit
  <2> SUFFICES ASSUME Inductive, lpSupply > 0, NEW a \in Amounts
               PROVE  LET need_q == Share(a, ReserveQ, ReserveP)
                          minted == Share(a, lpSupply, ReserveP)
                      IN  /\ Share(minted, ReserveP + a, lpSupply + minted) <= a
                          /\ Share(minted, ReserveQ + need_q, lpSupply + minted)
                               <= need_q
    BY DEF NoProfitFromDeposit
  <2>1. /\ a \in Nat /\ ReserveP \in Nat /\ ReserveQ \in Nat /\ lpSupply \in Nat
        /\ ReserveP > 0
    BY Owned DEF Inductive, TypeOK, LpBacked, ReserveP, ReserveQ
  <2> QED BY <2>1, DepositRoundTrip
<1> QED BY <1>1, InductiveHolds, PTL

(* A deposit of a with its share of the quote reserve, credited with at     *)
(* most its share of the supply: the reserves grow as fast as the supply,  *)
(* but for the fraction of a quote unit that need_q was rounded down by.   *)
LEMMA DepositKeepsBacking ==
  ASSUME NEW a \in Nat, NEW p \in Nat, NEW q \in Nat, NEW s \in Nat, p > 0,
         NEW credited \in Nat, credited <= Share(a, s, p)
  PROVE  LET need_q == Share(a, q, p)
         IN  /\ (p + a) * s >= p * (s + credited)
             /\ (q + need_q + 1) * s >= q * (s + credited)
<1> DEFINE need_q == Share(a, q, p)
           share == Share(a, s, p)
<1>1. /\ need_q \in Nat /\ share \in Nat /\ credited <= share
      /\ share * p <= a * s
      /\ a * q < (need_q + 1) * p
  BY ShareRange
<1> HIDE DEF need_q, share
<1>2. credited * p <= a * s
  <2>1. credited * p <= share * p
    BY <1>1, ProductMonotonic
  <2>2. credited * p \in Nat /\ share * p \in Nat /\ a * s \in Nat
    BY <1>1, ProductNat
  <2> QED BY <1>1, <2>1, <2>2
<1>3. (p + a) * s >= p * (s + credited)
  <2>1. /\ (p + a) * s = p * s + a * s
        /\ p * (s + credited) = p * s + credited * p
    OBVIOUS
  <2>2. p * s \in Nat /\ a * s \in Nat /\ credited * p \in Nat
    BY ProductNat
  <2> QED BY <1>2, <2>1, <2>2
<1>4. credited * q <= (need_q + 1) * s
  <2> DEFINE more == need_q + 1
  <2>0. more \in Nat
    BY <1>1
  <2>1. (credited * p) * q <= (a * s) * q
    BY <1>2, ProductNat, ProductMonotonic
  <2>2. (a * q) * s <= (more * p) * s
    BY <1>1, <2>0, ProductNat, ProductMonotonic
  <2> HIDE DEF more
  <2>3. /\ (credited * p) * q = (credited * q) * p
        /\ (a * s) * q = (a * q) * s
        /\ (more * p) * s = (more * s) * p
    BY <2>0
  <2>4. /\ credited * q \in Nat /\ a * q \in Nat /\ more * s \in Nat
        /\ (credited * q) * p \in Nat /\ (a * q) * s \in Nat
        /\ (more * s) * p \in Nat
    BY <2>0, ProductNat
  <2>5. (credited * q) * p <= (more * s) * p
    BY <2>1, <2>2, <2>3, <2>4
  <2>6. credited * q <= more * s
    BY <2>4, <2>5, CancelFactor
  <2> QED BY <2>6 DEF more
<1>5. (q + need_q + 1) * s >= q * (s + credited)
  <2>1. /\ (q + need_q + 1) * s = q * s + (need_q + 1) * s
        /\ q * (s + credited) = q * s + credited * q
    BY <1>1
  <2>2. q * s \in Nat /\ (need_q + 1) * s \in Nat /\ credited * q \in Nat
    BY <1>1, ProductNat
  <2> QED BY <1>4, <2>1, <2>2
<1> QED BY <1>3, <1>5 DEF need_q

(* Two inequalities about each reserve give one about their product.       *)
LEMMA ShareKept ==
  ASSUME NEW p \in Nat, NEW q \in Nat, NEW s \in Nat,
         NEW p2 \in Nat, NEW q2 \in Nat, NEW s2 \in Nat,
         p2 * s >= p * s2, q2 * s >= q * s2
  PROVE  p2 * q2 * s * s >= p * q * s2 * s2
<1> DEFINE a == p2 * s
           b == q2 * s
           c == p * s2
           d == q * s2
<1>1. p2 * q2 * s * s = a * b /\ p * q * s2 * s2 = c * d
  OBVIOUS
<1>2. a \in Nat /\ b \in Nat /\ c \in Nat /\ d \in Nat /\ c <= a /\ d <= b
  OBVIOUS
<1> HIDE DEF a, b, c, d
<1>3. c * d <= a * b
  BY <1>2, ProductMonotonic
<1>4. a * b \in Nat /\ c * d \in Nat
  BY <1>2
<1> QED BY <1>1, <1>3, <1>4

(* Reserves that do not fall keep the shares of a supply that does not grow. *)
LEMMA GrowingReserves ==
  ASSUME NEW p \in Nat, NEW q \in Nat, NEW s \in Nat,
         NEW p2 \in Nat, NEW q2 \in Nat, NEW s2 \in Nat,
         p2 >= p, q2 >= q, s2 <= s
  PROVE  p2 * q2 * s * s >= p * q * s2 * s2
<1>1. p * s2 <= p2 * s /\ q * s2 <= q2 * s
  BY ProductMonotonic
<1>2. p2 * s \in Nat /\ q2 * s \in Nat /\ p * s2 \in Nat /\ q * s2 \in Nat
  OBVIOUS
<1>3. p2 * s >= p * s2 /\ q2 * s >= q * s2
  BY <1>1, <1>2
<1> QED BY <1>3, ShareKept

(* Swaps pay their fee to the pool, withdrawals round against the one who   *)
(* leaves, gifts and burns raise the share of the others: the product of   *)
(* the reserves behind one LP token never falls, for every fee.            *)
THEOREM LpShareNeverFallsAlways == Spec => LpShareNeverFalls
<1> DEFINE Kept == 0 < lpSupply' /\ lpSupply' <= lpSupply =>
             ReserveP' * ReserveQ' * lpSupply * lpSupply
               >= ReserveP * ReserveQ * lpSupply' * lpSupply'
<1>1. Inductive /\ Inductive' /\ [Next]_vars => [Kept]_vars
  <2> SUFFICES ASSUME Inductive, Inductive', [Next]_vars,
                      0 < lpSupply', lpSupply' <= lpSupply
               PROVE  Kept
    OBVIOUS
  <2>0. /\ TypeOK /\ TypeOK'
        /\ ReserveP \in Nat /\ ReserveQ \in Nat /\ lpSupply \in Nat
        /\ ReserveP' \in Nat /\ ReserveQ' \in Nat /\ lpSupply' \in Nat
    BY Owned DEF Inductive, TypeOK, ReserveP, ReserveQ
  <2>1. ReserveP' >= ReserveP /\ ReserveQ' >= ReserveQ => Kept
    BY <2>0, GrowingReserves
  <2> HIDE DEF Kept
  <2>2. ASSUME NEW u \in Users, NEW a \in Amounts, NEW q \in Amounts,
               AddLiquidity(u, a, q)
        PROVE  Kept
    <3>1. PICK use_q \in Nat, mint_lp \in Nat : Deposit(u, a, use_q, mint_lp)
      BY <2>0, <2>2, AddLiquidityEffect
    <3>2. a \in Nat
      BY Owned
    <3>3. ReserveP' = ReserveP + a /\ ReserveQ' = ReserveQ + use_q
      BY <2>0, <3>1, <3>2, DepositEffect
    <3> QED BY <2>0, <2>1, <3>2, <3>3
  <2>3. ASSUME NEW u \in Users, NEW n \in Amounts, RemoveLiquidity(u, n)
        PROVE  Kept
    <3> DEFINE out_p == Share(n, ReserveP, lpSupply)
               out_q == Share(n, ReserveQ, lpSupply)
    <3>1. /\ n \in Nat /\ n > 0 /\ n <= lpSupply
          /\ out_p \in Nat /\ out_q \in Nat
          /\ ReserveP' = ReserveP - out_p /\ ReserveQ' = ReserveQ - out_q
          /\ lpSupply' = lpSupply - n
      BY <2>0, <2>3, RemoveLiquidityEffect
    <3>2. /\ out_p * lpSupply <= n * ReserveP
          /\ out_q * lpSupply <= n * ReserveQ
      BY <2>0, <3>1, ShareRange
    <3> HIDE DEF out_p, out_q
    <3>3. /\ ReserveP' * lpSupply = ReserveP * lpSupply - out_p * lpSupply
          /\ ReserveP * lpSupply' = ReserveP * lpSupply - n * ReserveP
          /\ ReserveQ' * lpSupply = ReserveQ * lpSupply - out_q * lpSupply
          /\ ReserveQ * lpSupply' = ReserveQ * lpSupply - n * ReserveQ
      BY <2>0, <3>1
    <3>4. /\ ReserveP * lpSupply \in Nat /\ ReserveQ * lpSupply \in Nat
          /\ out_p * lpSupply \in Nat /\ out_q * lpSupply \in Nat
          /\ n * ReserveP \in Nat /\ n * ReserveQ \in Nat
      BY <2>0, <3>1
    <3>5. /\ ReserveP' * lpSupply >= ReserveP * lpSupply'
          /\ ReserveQ' * lpSupply >= ReserveQ * lpSupply'
      BY <3>2, <3>3, <3>4
    <3> QED BY <2>0, <3>1, <3>5, ShareKept DEF Kept
  <2>4. ASSUME NEW u \in Users, NEW n \in Amounts, NEW m \in Amounts,
               NEW b \in BOOLEAN, Swap(u, n, m, b)
        PROVE  Kept
    <3> DEFINE before == ReserveP * ReserveQ
               after == ReserveP' * ReserveQ'
    <3>1. after >= before /\ lpSupply' = lpSupply
      BY <2>0, <2>4, SwapEffect
    <3>2. before \in Nat /\ after \in Nat
      BY <2>0, ProductNat
    <3> HIDE DEF before, after
    <3>3. before * lpSupply <= after * lpSupply
      BY <2>0, <3>1, <3>2, ProductMonotonic
    <3>4. before * lpSupply \in Nat /\ after * lpSupply \in Nat
      BY <2>0, <3>2
    <3>5. (before * lpSupply) * lpSupply <= (after * lpSupply) * lpSupply
      BY <2>0, <3>3, <3>4, ProductMonotonic
    <3>6. (before * lpSupply) * lpSupply \in Nat /\ (after * lpSupply) * lpSupply \in Nat
      BY <2>0, <3>4, ProductNat
    <3>7. (after * lpSupply) * lpSupply >= (before * lpSupply) * lpSupply
      BY <3>5, <3>6
    <3> QED BY <3>1, <3>7 DEF before, after, Kept
  <2>5. ASSUME NEW u \in Users, NEW o \in Owners, NEW n \in Amounts,
               TransferPToken(u, o, n) \/ TransferQuote(u, o, n)
        PROVE  Kept
    BY <2>0, <2>1, <2>5, GiftEffect
  <2>6. CASE UNCHANGED <<pToken, quote>>
    BY <2>0, <2>1, <2>6 DEF ReserveP, ReserveQ
  <2> QED BY <2>2, <2>3, <2>4, <2>5, <2>6
          DEF Next, Program, Environment, InitializePool, Verify, Revoke,
              TransferLp, BurnLp, vars
<1> QED BY <1>1, InductiveHolds, PTL DEF Spec, LpShareNeverFalls

(* No other instruction raises the supply.                                 *)
LEMMA OnlyDepositsMint ==
  ASSUME TypeOK, TypeOK', [Next]_vars, lpSupply' > lpSupply
  PROVE  \E u \in Users, a \in Amounts, q \in Amounts : AddLiquidity(u, a, q)
<1>0. ~ (lpSupply' <= lpSupply) /\ lpSupply' # lpSupply
  BY Owned DEF TypeOK
<1>1. ASSUME NEW u \in Users, NEW n \in Amounts, RemoveLiquidity(u, n)
      PROVE  lpSupply' <= lpSupply
  BY <1>1, RemoveLiquidityEffect DEF TypeOK, U64
<1>2. ASSUME NEW u \in Users, NEW n \in Amounts, BurnLp(u, n)
      PROVE  lpSupply' <= lpSupply
  BY <1>2, Owned DEF BurnLp, TypeOK
<1> QED BY <1>0, <1>1, <1>2
        DEF Next, Program, Environment, InitializePool, Swap, Verify, Revoke,
            TransferPToken, TransferQuote, TransferLp, vars

(* The first LP is credited with the integer square root of what it brings, *)
(* whichever amounts those are: the root of a product of two u64 is one.   *)
THEOREM EmptyPoolCreditsSqrtAlways == Spec => EmptyPoolCreditsSqrt
<1> DEFINE Credited == lpSupply = 0 /\ lpSupply' > 0 =>
             LET product == (ReserveP' - ReserveP) * (ReserveQ' - ReserveQ)
             IN  /\ lpSupply' * lpSupply' <= product
                 /\ product < (lpSupply' + 1) * (lpSupply' + 1)
<1>1. Inductive /\ Inductive' /\ [Next]_vars => [Credited]_vars
  <2> SUFFICES ASSUME Inductive, Inductive', [Next]_vars, lpSupply = 0, lpSupply' > 0
               PROVE  Credited
    OBVIOUS
  <2>0. TypeOK /\ TypeOK' /\ ReserveP \in Nat /\ ReserveQ \in Nat
    BY Owned DEF Inductive, TypeOK, ReserveP, ReserveQ
  <2>1. ASSUME NEW u \in Users, NEW a \in Amounts, NEW q \in Amounts,
               AddLiquidity(u, a, q)
        PROVE  Credited
    <3> DEFINE root == integer_sqrt(a * q)
    <3>1. /\ Deposit(u, a, q, root) /\ a \in U64 /\ q \in U64
          /\ a \in Nat /\ q \in Nat
      <4>1. PICK use_q \in Nat, mint_lp \in Nat :
              /\ Deposit(u, a, use_q, mint_lp) /\ a \in U64
              /\ use_q = q /\ use_q \in U64 /\ mint_lp = integer_sqrt(a * use_q)
        BY <2>0, <2>1, AddLiquidityEffect
      <4> QED BY <4>1, Owned
    <3>2. a * q \in Nat
      BY <3>1
    <3>3. root \in Nat /\ root * root <= a * q /\ a * q < (root + 1) * (root + 1)
      BY <3>2, IntegerSqrtIsRoot
    <3> HIDE DEF root
    <3>4. root <= MaxU64
      <4>1. a <= MaxU64 /\ q <= MaxU64 /\ MaxU64 \in Nat
        BY <3>1, MaxU64Assumption DEF U64
      <4>2. a * q <= MaxU64 * MaxU64
        BY <3>1, <4>1, ProductMonotonic
      <4>3. ASSUME root > MaxU64 PROVE FALSE
        <5>1. (MaxU64 + 1) * (MaxU64 + 1) <= root * root
          BY <3>3, <4>1, <4>3, ProductMonotonic
        <5>2. /\ root * root \in Nat /\ MaxU64 * MaxU64 \in Nat
              /\ (MaxU64 + 1) * (MaxU64 + 1) = MaxU64 * MaxU64 + 2 * MaxU64 + 1
          BY <3>3, <4>1
        <5> QED BY <3>2, <3>3, <4>1, <4>2, <5>1, <5>2
      <4> QED BY <3>3, <4>1, <4>3
    <3>5. AsU64(root) = root
      BY <3>3, <3>4, AsU64Range
    <3>6. /\ ReserveP' = ReserveP + a /\ ReserveQ' = ReserveQ + q
          /\ lpSupply' = lpSupply + root
      BY <2>0, <3>1, <3>3, <3>5, DepositEffect
    <3>7. ReserveP' - ReserveP = a /\ ReserveQ' - ReserveQ = q /\ lpSupply' = root
      BY <2>0, <3>1, <3>3, <3>6
    <3> QED BY <3>3, <3>7
  <2>2. lpSupply' > lpSupply
    OBVIOUS
  <2>3. \E u \in Users, a \in Amounts, q \in Amounts : AddLiquidity(u, a, q)
    BY <2>0, <2>2, OnlyDepositsMint
  <2> QED BY <2>1, <2>3
<1> QED BY <1>1, InductiveHolds, PTL DEF Spec, EmptyPoolCreditsSqrt

(* Whoever joins later joins at no one's expense: the reserves grow at      *)
(* least as fast as the supply, a quote unit of the whole pool aside,      *)
(* whatever was rounded down and even where the cast cut the credit.       *)
THEOREM DepositDilutesNobodyAlways == Spec => DepositDilutesNobody
<1> DEFINE Undiluted == lpSupply > 0 /\ lpSupply' > lpSupply =>
             /\ ReserveP' * lpSupply >= ReserveP * lpSupply'
             /\ (ReserveQ' + 1) * lpSupply >= ReserveQ * lpSupply'
<1>1. Inductive /\ Inductive' /\ [Next]_vars => [Undiluted]_vars
  <2> SUFFICES ASSUME Inductive, Inductive', [Next]_vars, lpSupply > 0, lpSupply' > lpSupply
               PROVE  Undiluted
    OBVIOUS
  <2>1. /\ TypeOK /\ TypeOK' /\ ReserveP \in Nat /\ ReserveQ \in Nat
        /\ lpSupply \in Nat /\ lpSupply # 0
    BY Owned DEF Inductive, TypeOK, ReserveP, ReserveQ
  <2>2. PICK u \in Users, a \in Amounts, q \in Amounts : AddLiquidity(u, a, q)
    BY <2>1, OnlyDepositsMint
  <2>3. PICK use_q \in Nat, mint_lp \in Nat :
          /\ Deposit(u, a, use_q, mint_lp)
          /\ ReserveP > 0
          /\ use_q = Share(a, ReserveQ, ReserveP)
          /\ mint_lp = Share(a, lpSupply, ReserveP)
    BY <2>1, <2>2, AddLiquidityEffect
  <2> DEFINE credited == AsU64(mint_lp)
  <2>4. a \in Nat /\ credited \in Nat /\ credited <= mint_lp
    BY AsU64Range, Owned
  <2>5. /\ ReserveP' = ReserveP + a /\ ReserveQ' = ReserveQ + use_q
        /\ lpSupply' = lpSupply + credited
    BY <2>1, <2>3, <2>4, DepositEffect
  <2> HIDE DEF credited
  <2>6. /\ (ReserveP + a) * lpSupply >= ReserveP * (lpSupply + credited)
        /\ (ReserveQ + use_q + 1) * lpSupply >= ReserveQ * (lpSupply + credited)
    BY <2>1, <2>3, <2>4, DepositKeepsBacking
  <2> QED BY <2>5, <2>6
<1> QED BY <1>1, InductiveHolds, PTL DEF Spec, DepositDilutesNobody

===============================================================================
