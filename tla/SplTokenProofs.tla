---------------------------- MODULE SplTokenProofs ----------------------------
(***************************************************************************)
(* What minting, burning and transferring do to the sum of a ledger's      *)
(* balances.  The sum is the number of units (SplToken), so these facts    *)
(* follow from the cardinality theorems of finite sets.                    *)
(***************************************************************************)
EXTENDS SplToken, FiniteSetTheorems, TLAPS

-------------------------------------------------------------------------------
(* The units of a ledger can be counted: U64 is finite.                    *)
LEMMA TotalType ==
  ASSUME NEW S, NEW ledger, IsFiniteSet(S), ledger \in [S -> U64]
  PROVE  IsFiniteSet(Units(ledger)) /\ Total(ledger) \in Nat
<1>1. IsFiniteSet(1 .. MaxU64)
  BY FS_Interval, MaxU64Assumption
<1>2. IsFiniteSet(S \X (1 .. MaxU64))
  BY <1>1, FS_Product
<1>3. Units(ledger) \in SUBSET (S \X (1 .. MaxU64))
  BY DEF Units
<1>4. IsFiniteSet(Units(ledger))
  BY <1>2, <1>3, FS_Subset
<1> QED
  BY <1>4, FS_CardinalityType DEF Total

(* A mint creates exactly the units it is asked for.                       *)
LEMMA TotalMinted ==
  ASSUME NEW S, NEW ledger, IsFiniteSet(S), ledger \in [S -> U64],
         NEW to \in S, NEW amount \in Nat, ledger[to] + amount <= MaxU64
  PROVE  /\ Minted(ledger, to, amount) \in [S -> U64]
         /\ Total(Minted(ledger, to, amount)) = Total(ledger) + amount
<1> DEFINE after == Minted(ledger, to, amount)
           new == {to} \X ((ledger[to] + 1) .. (ledger[to] + amount))
<1>1. ledger[to] \in U64 /\ ledger[to] \in Nat
  BY MaxU64Assumption DEF U64
<1>2. after \in [S -> U64]
  BY <1>1, MaxU64Assumption DEF Minted, U64
<1>3. Units(after) = Units(ledger) \cup new
  <2>1. ASSUME NEW u \in Units(after) PROVE u \in Units(ledger) \cup new
    <3>1. u \in S \X (1 .. MaxU64) /\ u[2] <= after[u[1]]
      BY DEF Units, Minted
    <3>2. CASE u[1] = to /\ u[2] > ledger[to]
      <4>1. u = <<to, u[2]>> /\ u[2] \in (ledger[to] + 1) .. (ledger[to] + amount)
        BY <1>1, <3>1, <3>2, MaxU64Assumption DEF Minted
      <4> QED BY <4>1
    <3>3. CASE ~(u[1] = to /\ u[2] > ledger[to])
      <4>1. u[2] <= ledger[u[1]]
        BY <1>1, <3>1, <3>3, MaxU64Assumption DEF Minted, U64
      <4> QED BY <3>1, <4>1 DEF Units
    <3> QED BY <3>2, <3>3
  <2>2. ASSUME NEW u \in Units(ledger) PROVE u \in Units(after)
    <3>1. u \in S \X (1 .. MaxU64) /\ u[2] <= ledger[u[1]] /\ ledger[u[1]] \in Nat
      BY MaxU64Assumption DEF Units, U64
    <3>2. u[2] <= after[u[1]]
      BY <1>1, <3>1 DEF Minted
    <3> QED BY <3>1, <3>2 DEF Units, Minted
  <2>3. ASSUME NEW u \in new PROVE u \in Units(after)
    <3>1. /\ u \in S \X (1 .. MaxU64) /\ u[1] = to
          /\ u[2] <= ledger[to] + amount
      BY <1>1, MaxU64Assumption
    <3> QED BY <1>1, <3>1 DEF Units, Minted
  <2> QED BY <2>1, <2>2, <2>3
<1>4. Units(ledger) \cap new = {}
  BY <1>1 DEF Units
<1>5. IsFiniteSet(new) /\ Cardinality(new) = amount
  <2> DEFINE places == (ledger[to] + 1) .. (ledger[to] + amount)
  <2>1. IsFiniteSet(places) /\ Cardinality(places) = amount
    <3>1. ledger[to] + 1 \in Int /\ ledger[to] + amount \in Int
      BY <1>1
    <3>2. /\ IsFiniteSet(places)
          /\ Cardinality(places) =
               IF ledger[to] + 1 > ledger[to] + amount
                 THEN 0 ELSE (ledger[to] + amount) - (ledger[to] + 1) + 1
      <4> HIDE DEF places
      <4> QED BY <3>1, FS_Interval DEF places
    <3> QED BY <1>1, <3>2
  <2>2. IsFiniteSet({to}) /\ Cardinality({to}) = 1
    BY FS_Singleton
  <2>3. IsFiniteSet(new) /\ Cardinality(new) = 1 * Cardinality(places)
    BY <2>1, <2>2, FS_Product
  <2> QED BY <2>1, <2>3
<1>6. IsFiniteSet(Units(ledger)) /\ Total(ledger) \in Nat
  BY TotalType
<1>7. Cardinality(Units(ledger) \cup new) = Cardinality(Units(ledger)) + amount
  <2> HIDE DEF new
  <2>1. Cardinality(Units(ledger) \cup new) =
          Cardinality(Units(ledger)) + Cardinality(new)
            - Cardinality(Units(ledger) \cap new)
    BY <1>5, <1>6, FS_Union
  <2>2. Cardinality(Units(ledger) \cap new) = 0
    BY <1>4, FS_EmptySet
  <2> QED BY <1>5, <1>6, <2>1, <2>2 DEF Total
<1> QED BY <1>2, <1>3, <1>7 DEF Total

(* A burn destroys exactly the units it is asked for.                      *)
LEMMA TotalBurned ==
  ASSUME NEW S, NEW ledger, IsFiniteSet(S), ledger \in [S -> U64],
         NEW from \in S, NEW amount \in Nat, amount <= ledger[from]
  PROVE  /\ Burned(ledger, from, amount) \in [S -> U64]
         /\ Total(Burned(ledger, from, amount)) = Total(ledger) - amount
<1> DEFINE before == Burned(ledger, from, amount)
<1>1. before \in [S -> U64] /\ before[from] + amount = ledger[from]
  BY MaxU64Assumption DEF Burned, U64
<1>2. ledger = Minted(before, from, amount)
  BY <1>1, MaxU64Assumption DEF Minted, Burned, U64
<1>3. ledger[from] <= MaxU64
  BY MaxU64Assumption DEF U64
<1>4. Total(ledger) = Total(before) + amount
  BY <1>1, <1>2, <1>3, TotalMinted
<1>5. Total(before) \in Nat
  BY <1>1, TotalType
<1> QED BY <1>1, <1>4, <1>5

(* A transfer that withholds nothing moves units and creates none.         *)
LEMMA TotalTransferred ==
  ASSUME NEW S, NEW ledger, IsFiniteSet(S), ledger \in [S -> U64],
         NEW from \in S, NEW to \in S, NEW amount \in Nat,
         CanTransfer(ledger, from, to, amount, amount)
  PROVE  LET after == Transferred(ledger, from, to, amount, amount)
         IN  after \in [S -> U64] /\ Total(after) = Total(ledger)
<1> DEFINE sent == Burned(ledger, from, amount)
<1>1. CASE from = to
  BY <1>1 DEF Transferred
<1>2. CASE from # to
  <2>1. sent \in [S -> U64] /\ Total(sent) = Total(ledger) - amount
    BY TotalBurned DEF CanTransfer
  <2>2. sent[to] + amount <= MaxU64
    BY <1>2 DEF CanTransfer, Burned
  <2>3. Transferred(ledger, from, to, amount, amount) = Minted(sent, to, amount)
    BY <1>2 DEF Transferred, Minted, Burned
  <2>4. /\ Minted(sent, to, amount) \in [S -> U64]
        /\ Total(Minted(sent, to, amount)) = Total(sent) + amount
    BY <2>1, <2>2, TotalMinted
  <2>5. Total(ledger) \in Nat
    BY TotalType
  <2> QED BY <2>1, <2>3, <2>4, <2>5
<1> QED BY <1>1, <1>2

(* No account holds more than all accounts together, and no two do.        *)
LEMMA BalancesWithinTotal ==
  ASSUME NEW S, NEW ledger, IsFiniteSet(S), ledger \in [S -> U64],
         NEW a \in S, NEW b \in S, a # b
  PROVE  ledger[a] + ledger[b] <= Total(ledger) /\ ledger[a] <= Total(ledger)
<1> DEFINE withoutA == Burned(ledger, a, ledger[a])
           withoutB == Burned(withoutA, b, ledger[b])
<1>1. ledger[a] \in Nat /\ ledger[b] \in Nat
  BY MaxU64Assumption DEF U64
<1>2. withoutA \in [S -> U64] /\ Total(withoutA) = Total(ledger) - ledger[a]
  BY <1>1, TotalBurned
<1>3. withoutA[b] = ledger[b]
  BY DEF Burned
<1>4. withoutB \in [S -> U64] /\ Total(withoutB) = Total(withoutA) - ledger[b]
  BY <1>1, <1>2, <1>3, TotalBurned
<1>5. Total(ledger) \in Nat /\ Total(withoutB) \in Nat
  BY <1>4, TotalType
<1> QED BY <1>1, <1>2, <1>4, <1>5

LEMMA BalanceWithinTotal ==
  ASSUME NEW S, NEW ledger, IsFiniteSet(S), ledger \in [S -> U64], NEW a \in S
  PROVE  ledger[a] <= Total(ledger)
<1> DEFINE without == Burned(ledger, a, ledger[a])
<1>1. ledger[a] \in Nat
  BY MaxU64Assumption DEF U64
<1>2. without \in [S -> U64] /\ Total(without) = Total(ledger) - ledger[a]
  BY <1>1, TotalBurned
<1>3. Total(ledger) \in Nat /\ Total(without) \in Nat
  BY <1>2, TotalType
<1> QED BY <1>1, <1>2, <1>3

(* Empty accounts hold nothing.                                            *)
LEMMA TotalOfNothing ==
  ASSUME NEW S
  PROVE  Total([s \in S |-> 0]) = 0
<1>1. Units([s \in S |-> 0]) = {}
  BY MaxU64Assumption DEF Units
<1> QED BY <1>1, FS_EmptySet DEF Total
===============================================================================
