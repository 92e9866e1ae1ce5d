------------------------- MODULE PassageFaucetProofs -------------------------
(***************************************************************************)
(* Proofs about the demo faucet and the registry behind it, for every set  *)
(* of wallets, drip, cap and number of lamports that fits a u64.           *)
(***************************************************************************)
EXTENDS PassageFaucet, SplTokenProofs

-------------------------------------------------------------------------------
(* Constants and counting *)

LEMMA Parties ==
  /\ IsFiniteSet(Wallets) /\ IsFiniteSet(Keys) /\ Wallets \subseteq Keys
  /\ FaucetSigner \in Keys /\ FaucetSigner \notin Wallets /\ NoKey \notin Keys
  /\ MaxU64 \in Nat /\ MAX_DRIP \in Nat /\ DripChoices \subseteq Nat
  /\ TotalLamports \in Nat /\ TotalLamports <= MaxU64
<1>1. IsFiniteSet(Wallets) /\ FaucetSigner \notin Wallets
  BY FaucetAssumption
<1>2. IsFiniteSet(Keys)
  <2>1. IsFiniteSet({FaucetSigner})
    BY FS_Singleton
  <2> QED BY <1>1, <2>1, FS_Union DEF Keys
<1>3. /\ MaxU64 \in Nat /\ MAX_DRIP \in Nat /\ DripChoices \subseteq Nat
      /\ TotalLamports \in Nat /\ TotalLamports <= MaxU64 /\ NoKey \notin Keys
  BY FaucetAssumption, MaxU64Assumption DEF U64, Keys
<1> QED BY <1>1, <1>2, <1>3 DEF Keys

LEMMA RentConservedDef ==
  RentConserved <=>
    Total(lamports) + (Cardinality(Identity!Live) + (IF config = NoKey THEN 0 ELSE 1)
      + (IF faucet = NoFaucet THEN 0 ELSE 1)) = TotalLamports
  BY DEF RentConserved

\* The same of the state after a step.
LEMMA RentConservedAfter ==
  RentConserved' <=>
    Total(lamports') + (Cardinality(Identity!Live') + (IF config' = NoKey THEN 0 ELSE 1)
      + (IF faucet' = NoFaucet THEN 0 ELSE 1)) = TotalLamports
  BY DEF RentConserved

LEMMA LiveFinite ==
  IsFiniteSet(Identity!Live) /\ Cardinality(Identity!Live) \in Nat
<1>1. Identity!Live \in SUBSET Keys
  BY DEF Identity!Live
<1> QED BY <1>1, Parties, FS_Subset, FS_CardinalityType

LEMMA LiveFiniteAfter ==
  IsFiniteSet(Identity!Live') /\ Cardinality(Identity!Live') \in Nat
<1>1. Identity!Live' \in SUBSET Keys
  BY DEF Identity!Live
<1> QED BY <1>1, Parties, FS_Subset, FS_CardinalityType

-------------------------------------------------------------------------------
(* The registry *)

(* Together these are inductive: what is in the accounts that exist is      *)
(* missing from the wallets, so no refund makes lamports overflow.         *)
RegistryInv ==
  /\ config \in Keys \cup {NoKey}
  /\ credential \in [Keys -> Keys \cup {NoKey}]
  /\ lamports \in [Keys -> U64]
  /\ RentConserved

(* The rent of a new account leaves its payer.                             *)
LEMMA PayRentEffect ==
  ASSUME lamports \in [Keys -> U64], NEW k \in Keys, Identity!PayRent(k)
  PROVE  /\ lamports' \in [Keys -> U64]
         /\ Total(lamports') = Total(lamports) - 1
<1>1. lamports[k] \in Nat /\ 1 <= lamports[k] /\ lamports' = Burned(lamports, k, 1)
  BY Parties DEF Identity!PayRent, Burned, U64
<1> QED BY <1>1, Parties, TotalBurned

(* The rent of a closed account is room for its receiver's balance.        *)
LEMMA RefundRentEffect ==
  ASSUME lamports \in [Keys -> U64], NEW k \in Keys, Identity!RefundRent(k),
         Total(lamports) < MaxU64
  PROVE  /\ lamports' \in [Keys -> U64]
         /\ Total(lamports') = Total(lamports) + 1
<1>1. lamports[k] \in Nat /\ lamports[k] <= Total(lamports) /\ Total(lamports) \in Nat
  BY Parties, BalanceWithinTotal, TotalType DEF U64
<1>2. lamports[k] + 1 <= MaxU64 /\ lamports' = Minted(lamports, k, 1)
  BY <1>1, Parties DEF Identity!RefundRent, Minted
<1> QED BY <1>2, Parties, TotalMinted

(* What a registry instruction takes from the key that signs it, it puts    *)
(* into an account, and the other way round.                               *)
LEMMA RegistryStepInv ==
  ASSUME RegistryInv, faucet' = faucet, NEW s \in Keys, NEW k \in Keys,
         \/ Identity!Initialize(s)   \/ Identity!VerifyWallet(s, k)
         \/ Identity!RevokeWallet(s, k) \/ Identity!SetAuthority(s, k)
  PROVE  RegistryInv'
<1>0. /\ config \in Keys \cup {NoKey}
      /\ credential \in [Keys -> Keys \cup {NoKey}]
      /\ lamports \in [Keys -> U64]
      /\ Total(lamports) + (Cardinality(Identity!Live)
           + (IF config = NoKey THEN 0 ELSE 1)
           + (IF faucet = NoFaucet THEN 0 ELSE 1)) = TotalLamports
  BY RentConservedDef DEF RegistryInv
<1>00. /\ Total(lamports) \in Nat
       /\ Cardinality(Identity!Live) \in Nat /\ IsFiniteSet(Identity!Live)
       /\ Cardinality(Identity!Live') \in Nat
       /\ TotalLamports \in Nat /\ TotalLamports <= MaxU64 /\ MaxU64 \in Nat
       /\ NoKey \notin Keys
  BY <1>0, Parties, TotalType, LiveFinite, LiveFiniteAfter
<1>1. CASE Identity!Initialize(s)
  <2>1. /\ config = NoKey /\ config' = s /\ credential' = credential
        /\ lamports' \in [Keys -> U64]
        /\ Total(lamports') = Total(lamports) - 1
    BY <1>0, <1>1, PayRentEffect DEF Identity!Initialize
  <2>2. Identity!Live' = Identity!Live
    BY <2>1 DEF Identity!Live
  <2>3. RentConserved'
    BY <1>0, <1>00, <2>1, <2>2, RentConservedAfter
  <2> QED BY <1>0, <2>1, <2>3 DEF RegistryInv
<1>2. CASE Identity!VerifyWallet(s, k)
  <2>1. /\ config' = config
        /\ credential[k] = NoKey /\ credential' = [credential EXCEPT ![k] = k]
        /\ lamports' \in [Keys -> U64]
        /\ Total(lamports') = Total(lamports) - 1
    BY <1>0, <1>2, PayRentEffect DEF Identity!VerifyWallet
  <2>2. k \notin Identity!Live /\ Identity!Live' = Identity!Live \cup {k}
    BY <1>0, <1>00, <2>1 DEF Identity!Live
  <2>3. Cardinality(Identity!Live') = Cardinality(Identity!Live) + 1
    BY <1>00, <2>2, FS_AddElement
  <2>4. RentConserved'
    BY <1>0, <1>00, <2>1, <2>3, RentConservedAfter
  <2> QED BY <1>0, <2>1, <2>4 DEF RegistryInv
<1>3. CASE Identity!RevokeWallet(s, k)
  <2>1. /\ config' = config
        /\ credential[k] # NoKey /\ credential' = [credential EXCEPT ![k] = NoKey]
    BY <1>3 DEF Identity!RevokeWallet
  <2>2. k \in Identity!Live /\ Identity!Live' = Identity!Live \ {k}
    BY <1>0, <1>00, <2>1 DEF Identity!Live
  <2>3. Cardinality(Identity!Live') = Cardinality(Identity!Live) - 1
    BY <1>00, <2>2, FS_RemoveElement
  <2>4. Total(lamports) < MaxU64
    BY <1>0, <1>00, <2>3
  <2>5. /\ lamports' \in [Keys -> U64]
        /\ Total(lamports') = Total(lamports) + 1
    BY <1>0, <1>3, <2>4, RefundRentEffect DEF Identity!RevokeWallet
  <2>6. RentConserved'
    BY <1>0, <1>00, <2>1, <2>3, <2>5, RentConservedAfter
  <2> QED BY <1>0, <2>1, <2>5, <2>6 DEF RegistryInv
<1>4. CASE Identity!SetAuthority(s, k)
  <2>1. /\ config = s /\ config' = k /\ credential' = credential
        /\ lamports' = lamports
    BY <1>4 DEF Identity!SetAuthority, Identity!IsAuthority
  <2>2. Identity!Live' = Identity!Live
    BY <2>1 DEF Identity!Live
  <2>3. RentConserved'
    BY <1>0, <1>00, <2>1, <2>2, RentConservedAfter
  <2> QED BY <1>0, <2>1, <2>3 DEF RegistryInv
<1> QED BY <1>1, <1>2, <1>3, <1>4

-------------------------------------------------------------------------------
(* The asset *)

AssetInv ==
  /\ asset \in [Wallets -> U64]
  /\ assetSupply \in U64
  /\ Total(asset) = assetSupply

(* Issuing as much as mint_to allows keeps the supply the sum of balances.  *)
LEMMA IssueInv ==
  ASSUME AssetInv, NEW w \in Wallets, NEW amount \in Nat,
         CanMint(asset, assetSupply, w, amount),
         asset' = Minted(asset, w, amount), assetSupply' = assetSupply + amount
  PROVE  AssetInv' /\ asset'[w] = asset[w] + amount
<1>1. /\ asset' \in [Wallets -> U64]
      /\ Total(asset') = Total(asset) + amount
  BY Parties, TotalMinted DEF AssetInv, CanMint
<1>2. assetSupply' \in U64
  BY Parties DEF AssetInv, CanMint, U64
<1> QED BY <1>1, <1>2 DEF AssetInv, Minted

-------------------------------------------------------------------------------
(* The invariant *)

LEMMA InductiveParts ==
  Inductive <=> /\ faucet \in Faucet \cup {NoFaucet} /\ mintAuthority \in Keys
                /\ AssetInv
                /\ RegistryInv
<1>1. lamports \in [Keys -> U64] => lamports \in [Keys -> Nat]
  BY Parties DEF U64
<1> QED BY <1>1 DEF Inductive, TypeOK, AssetInv, RegistryInv, Identity!TypeOK

LEMMA InductivePartsAfter ==
  Inductive' <=> /\ faucet' \in Faucet \cup {NoFaucet} /\ mintAuthority' \in Keys
                 /\ AssetInv'
                 /\ RegistryInv'
<1>1. lamports' \in [Keys -> U64] => lamports' \in [Keys -> Nat]
  BY Parties DEF U64
<1> QED BY <1>1 DEF Inductive, TypeOK, AssetInv, RegistryInv, Identity!TypeOK

LEMMA InductiveInit == Init => Inductive
<1> SUFFICES ASSUME Init PROVE Inductive
  OBVIOUS
<1>2. lamports \in [Keys -> U64]
  BY Parties DEF Init, U64
<1>4. Total(lamports) = TotalLamports
  BY DEF Init
<1>5. Identity!Live = {} /\ Cardinality(Identity!Live) = 0
  BY FS_EmptySet DEF Init, Identity!Live
<1>6. RegistryInv
  BY <1>2, <1>4, <1>5, Parties, RentConservedDef DEF Init, RegistryInv
<1>7. AssetInv
  BY TotalOfNothing, Parties DEF Init, AssetInv, U64
<1> QED BY <1>6, <1>7, Parties, InductiveParts DEF Init

LEMMA InductiveStep == Inductive /\ [Next]_vars => Inductive'
<1> SUFFICES ASSUME Inductive, [Next]_vars PROVE Inductive'
  OBVIOUS
<1>0. /\ faucet \in Faucet \cup {NoFaucet} /\ mintAuthority \in Keys
      /\ AssetInv /\ RegistryInv
  BY InductiveParts
<1> USE DEF mint, registry
<1>1. ASSUME NEW w \in Wallets, NEW d \in DripChoices, Initialize(w, d)
      PROVE  Inductive'
  <2>1. /\ faucet = NoFaucet /\ faucet' = [admin |-> w, drip_amount |-> d]
        /\ d \in 1 .. MAX_DRIP /\ Identity!PayRent(w)
        /\ UNCHANGED <<asset, assetSupply, mintAuthority, config, credential>>
    BY <1>1, Parties DEF Initialize, ValidDrip
  <2>2. faucet' \in Faucet /\ faucet' # NoFaucet
    BY <2>1, NoFaucetAssumption DEF Faucet
  <2>3. lamports' \in [Keys -> U64] /\ Total(lamports') = Total(lamports) - 1
    BY <1>0, <2>1, Parties, PayRentEffect DEF RegistryInv
  <2>4. Identity!Live' = Identity!Live
    BY <2>1 DEF Identity!Live
  <2>5. Total(lamports) \in Nat /\ Cardinality(Identity!Live) \in Nat
    BY <1>0, Parties, TotalType, LiveFinite DEF RegistryInv
  <2>6. RentConserved'
    BY <1>0, <2>1, <2>2, <2>3, <2>4, <2>5, Parties, RentConservedDef,
       RentConservedAfter DEF RegistryInv
  <2>7. RegistryInv' /\ AssetInv'
    BY <1>0, <2>1, <2>3, <2>6 DEF RegistryInv, AssetInv
  <2> QED BY <1>0, <2>1, <2>2, <2>7, InductivePartsAfter
<1>2. ASSUME NEW w \in Wallets, NEW d \in DripChoices, SetDripAmount(w, d)
      PROVE  Inductive'
  <2>1. /\ faucet \in Faucet /\ faucet' = [faucet EXCEPT !.drip_amount = d]
        /\ d \in 1 .. MAX_DRIP
        /\ UNCHANGED <<asset, assetSupply, mintAuthority, config, credential, lamports>>
    BY <1>0, <1>2, Parties DEF SetDripAmount, ValidDrip, IsAdmin
  <2>2. faucet' \in Faucet /\ faucet # NoFaucet /\ faucet' # NoFaucet
    BY <2>1, NoFaucetAssumption DEF Faucet
  <2>3. Identity!Live' = Identity!Live
    BY <2>1 DEF Identity!Live
  <2>4. RentConserved'
    BY <1>0, <2>1, <2>2, <2>3, RentConservedDef, RentConservedAfter DEF RegistryInv
  <2>5. RegistryInv' /\ AssetInv'
    BY <1>0, <2>1, <2>4 DEF RegistryInv, AssetInv
  <2> QED BY <1>0, <2>1, <2>2, <2>5, InductivePartsAfter
<1>3. ASSUME NEW w \in Wallets, NEW k \in Keys, SetIdentityAuthority(w, k)
      PROVE  Inductive'
  <2>1. /\ Identity!SetAuthority(FaucetSigner, k)
        /\ UNCHANGED <<faucet, asset, assetSupply, mintAuthority>>
    BY <1>3 DEF SetIdentityAuthority
  <2>2. RegistryInv'
    BY <1>0, <2>1, Parties, RegistryStepInv
  <2>3. AssetInv'
    BY <1>0, <2>1 DEF AssetInv
  <2> QED BY <1>0, <2>1, <2>2, <2>3, InductivePartsAfter
<1>4. ASSUME NEW w \in Wallets, NEW k \in Keys \cup {OtherAccount}, Claim(w, k)
      PROVE  Inductive'
  <2>1. /\ faucet # NoFaucet /\ CanMint(asset, assetSupply, w, faucet.drip_amount)
        /\ asset' = Minted(asset, w, faucet.drip_amount)
        /\ assetSupply' = assetSupply + faucet.drip_amount
        /\ EnsureVerified(w, k)
        /\ UNCHANGED <<faucet, mintAuthority>>
    BY <1>4 DEF Claim, CanDrip
  <2>2. faucet.drip_amount \in Nat
    BY <1>0, <2>1, Parties DEF Faucet
  <2>3. AssetInv'
    BY <1>0, <2>1, <2>2, IssueInv
  <2>4. RegistryInv'
    <3>1. CASE Identity!VerifyWallet(FaucetSigner, w)
      BY <1>0, <2>1, <3>1, Parties, RegistryStepInv
    <3>2. CASE UNCHANGED <<config, credential, lamports>>
      <4>1. Identity!Live' = Identity!Live
        BY <3>2 DEF Identity!Live
      <4>2. RentConserved'
        BY <1>0, <2>1, <3>2, <4>1, RentConservedDef, RentConservedAfter
           DEF RegistryInv
      <4> QED BY <1>0, <3>2, <4>2 DEF RegistryInv
    <3> QED BY <2>1, <3>1, <3>2 DEF EnsureVerified
  <2> QED BY <1>0, <2>1, <2>3, <2>4, InductivePartsAfter
<1>5. CASE RegistryStep
  <2>1. UNCHANGED <<faucet, asset, assetSupply, mintAuthority>>
    BY <1>5 DEF RegistryStep
  <2>2. PICK w \in Wallets, k \in Keys :
           \/ Identity!Initialize(w)   \/ Identity!VerifyWallet(w, k)
           \/ Identity!RevokeWallet(w, k) \/ Identity!SetAuthority(w, k)
    BY <1>5, Parties DEF RegistryStep
  <2>3. RegistryInv'
    BY <1>0, <2>1, <2>2, Parties, RegistryStepInv
  <2>4. AssetInv'
    BY <1>0, <2>1 DEF AssetInv
  <2> QED BY <1>0, <2>1, <2>3, <2>4, InductivePartsAfter
<1>6. ASSUME NEW v \in Wallets, NEW w \in Wallets, NEW d \in DripChoices,
             IssueAsset(v, w, d)
      PROVE  Inductive'
  <2>1. /\ d \in Nat /\ CanMint(asset, assetSupply, w, d)
        /\ asset' = Minted(asset, w, d) /\ assetSupply' = assetSupply + d
        /\ UNCHANGED <<faucet, mintAuthority, config, credential, lamports>>
    BY <1>6, Parties DEF IssueAsset
  <2>2. AssetInv'
    BY <1>0, <2>1, IssueInv
  <2>3. Identity!Live' = Identity!Live
    BY <2>1 DEF Identity!Live
  <2>4. RegistryInv'
    BY <1>0, <2>1, <2>3, RentConservedDef, RentConservedAfter DEF RegistryInv
  <2> QED BY <1>0, <2>1, <2>2, <2>4, InductivePartsAfter
<1>7. ASSUME NEW w \in Wallets, NEW k \in Keys, HandOverMint(w, k)
      PROVE  Inductive'
  <2>1. /\ mintAuthority' = k
        /\ UNCHANGED <<faucet, asset, assetSupply, config, credential, lamports>>
    BY <1>7 DEF HandOverMint
  <2>2. Identity!Live' = Identity!Live
    BY <2>1 DEF Identity!Live
  <2>3. RegistryInv' /\ AssetInv'
    BY <1>0, <2>1, <2>2, RentConservedDef, RentConservedAfter
       DEF RegistryInv, AssetInv
  <2> QED BY <1>0, <2>1, <2>3, InductivePartsAfter
<1>8. ASSUME NEW w \in Wallets, FundSigner(w)
      PROVE  Inductive'
  <2>1. /\ lamports \in [Keys -> U64] /\ lamports[w] \in Nat
        /\ UNCHANGED <<faucet, asset, assetSupply, mintAuthority, config, credential>>
    BY <1>0, <1>8, Parties DEF FundSigner, RegistryInv, U64
  <2>n. PICK n \in 1 .. lamports[w] :
          lamports' = [lamports EXCEPT ![w] = @ - n, ![FaucetSigner] = @ + n]
    BY <1>8 DEF FundSigner
  <2>2. w \in Keys /\ FaucetSigner \in Keys /\ w # FaucetSigner
    BY Parties
  <2>3. /\ lamports[w] \in Nat /\ lamports[FaucetSigner] \in Nat
        /\ lamports[w] + lamports[FaucetSigner] <= Total(lamports)
        /\ Total(lamports) \in Nat
    BY <2>1, <2>2, Parties, BalancesWithinTotal, TotalType DEF U64
  <2>4. Total(lamports) <= MaxU64
    BY <1>0, <2>3, Parties, LiveFinite, RentConservedDef DEF RegistryInv
  <2>5. CanTransfer(lamports, w, FaucetSigner, n, n) /\ n \in Nat
    BY <2>1, <2>3, <2>4, Parties DEF CanTransfer
  <2>6. lamports' = Transferred(lamports, w, FaucetSigner, n, n)
    BY <2>n, <2>2 DEF Transferred
  <2>7. lamports' \in [Keys -> U64] /\ Total(lamports') = Total(lamports)
    <3>1. lamports \in [Keys -> U64] /\ IsFiniteSet(Keys)
      BY <2>1, Parties
    <3>2. LET after == Transferred(lamports, w, FaucetSigner, n, n)
          IN  after \in [Keys -> U64] /\ Total(after) = Total(lamports)
      BY <2>2, <2>5, <3>1, TotalTransferred
    <3> QED BY <2>6, <3>2
  <2>8. Identity!Live' = Identity!Live
    BY <2>1 DEF Identity!Live
  <2>9. RegistryInv' /\ AssetInv'
    BY <1>0, <2>1, <2>7, <2>8, RentConservedDef, RentConservedAfter
       DEF RegistryInv, AssetInv
  <2> QED BY <1>0, <2>1, <2>9, InductivePartsAfter
<1>9. CASE UNCHANGED vars
  <2>1. UNCHANGED <<faucet, asset, assetSupply, mintAuthority, config, credential, lamports>>
    BY <1>9 DEF vars
  <2>2. Identity!Live' = Identity!Live
    BY <2>1 DEF Identity!Live
  <2>3. RegistryInv' /\ AssetInv'
    BY <1>0, <2>1, <2>2, RentConservedDef, RentConservedAfter
       DEF RegistryInv, AssetInv
  <2> QED BY <1>0, <2>1, <2>3, InductivePartsAfter
<1> QED BY <1>1, <1>2, <1>3, <1>4, <1>5, <1>6, <1>7, <1>8, <1>9 DEF Next

(* Whatever is claimed, issued, handed over, verified and revoked, by whom  *)
(* and in whatever order: the balances add up to the supply and the        *)
(* lamports to what there was.                                             *)
THEOREM InductiveHolds == Spec => []Inductive
  BY InductiveInit, InductiveStep, PTL DEF Spec

(* Balances, the supply and the drip stay within their bounds.              *)
THEOREM TypeCorrect == Spec => []TypeOK
<1>1. Inductive => TypeOK
  BY DEF Inductive
<1> QED BY <1>1, InductiveHolds, PTL

(* What the signer PDA spent on credentials is in them or with the          *)
(* authority that revoked them, whoever has moved the registry since.      *)
THEOREM RentConservedAlways == Spec => []RentConserved
<1>1. Inductive => RentConserved
  BY DEF Inductive
<1> QED BY <1>1, InductiveHolds, PTL

-------------------------------------------------------------------------------
(* What a step may do *)

(* While the faucet is in charge of the registry, a wallet becomes verified *)
(* only in a claim of its own, which also pays it: there is no credential  *)
(* without the drip.                                                       *)
THEOREM VerifiedWithDripOnlyAlways == Spec => VerifiedWithDripOnly
<1> DEFINE Paid == config = FaucetSigner =>
                     \A k \in Identity!Live' \ Identity!Live :
                       k \in Wallets /\ asset'[k] = asset[k] + faucet.drip_amount
<1>1. Inductive /\ [Next]_vars => [Paid]_vars
  <2> SUFFICES ASSUME Inductive, Next, config = FaucetSigner,
                      NEW k \in Identity!Live' \ Identity!Live
               PROVE  k \in Wallets /\ asset'[k] = asset[k] + faucet.drip_amount
    OBVIOUS
  <2>0. /\ k \in Keys /\ credential[k] = NoKey /\ credential'[k] # NoKey
        /\ faucet \in Faucet \cup {NoFaucet} /\ AssetInv
        /\ credential \in [Keys -> Keys \cup {NoKey}]
    BY InductiveParts DEF Identity!Live, RegistryInv
  <2>1. credential' # credential
    BY <2>0
  <2>2. CASE RegistryStep
    <3>1. PICK w \in Wallets, j \in Keys :
             \/ Identity!Initialize(w)   \/ Identity!VerifyWallet(w, j)
             \/ Identity!RevokeWallet(w, j) \/ Identity!SetAuthority(w, j)
      BY <2>2, Parties DEF RegistryStep
    <3>2. config \in {NoKey, w}
      BY <3>1 DEF Identity!Initialize, Identity!VerifyWallet, Identity!RevokeWallet,
                  Identity!SetAuthority, Identity!IsAuthority
    <3> QED BY <3>2, Parties
  <2>3. ASSUME NEW w \in Wallets, NEW j \in Keys \cup {OtherAccount}, Claim(w, j)
        PROVE  k \in Wallets /\ asset'[k] = asset[k] + faucet.drip_amount
    <3>1. Identity!VerifyWallet(FaucetSigner, w)
      BY <2>1, <2>3 DEF Claim, EnsureVerified, registry
    <3>2. credential' = [credential EXCEPT ![w] = w]
      BY <3>1 DEF Identity!VerifyWallet
    <3>3. k = w
      BY <2>0, <3>2
    <3>4. asset' = Minted(asset, w, faucet.drip_amount)
      BY <2>3 DEF Claim
    <3> QED BY <2>0, <3>3, <3>4 DEF Minted, AssetInv
  <2>4. /\ \A w \in Wallets, d \in DripChoices :
             Initialize(w, d) \/ SetDripAmount(w, d) => UNCHANGED credential
        /\ \A w \in Wallets, j \in Keys :
             SetIdentityAuthority(w, j) \/ HandOverMint(w, j) => UNCHANGED credential
        /\ \A v, w \in Wallets, d \in DripChoices :
             IssueAsset(v, w, d) => UNCHANGED credential
        /\ \A w \in Wallets : FundSigner(w) => UNCHANGED credential
    BY DEF Initialize, SetDripAmount, SetIdentityAuthority, Identity!SetAuthority,
           HandOverMint, IssueAsset, FundSigner, registry
  <2> QED BY <2>1, <2>2, <2>3, <2>4 DEF Next
<1> QED BY <1>1, InductiveHolds, PTL DEF Spec, VerifiedWithDripOnly

(* What the signer PDA owns is spent on newcomers' credentials, one rent    *)
(* each, which come with the newcomer's drip, and on nothing else.         *)
THEOREM SignerPaysForNewcomersAlways == Spec => SignerPaysForNewcomers
<1> DEFINE Paid == lamports'[FaucetSigner] < lamports[FaucetSigner] =>
             /\ lamports'[FaucetSigner] = lamports[FaucetSigner] - 1
             /\ \E w \in Wallets :
                  /\ credential[w] = NoKey /\ credential'[w] = w
                  /\ asset'[w] = asset[w] + faucet.drip_amount
<1>1. Inductive /\ [Next]_vars => [Paid]_vars
  <2> DEFINE Spent(w) == /\ credential[w] = NoKey /\ credential'[w] = w
                         /\ asset'[w] = asset[w] + faucet.drip_amount
             Own == lamports[FaucetSigner]
             Less == lamports'[FaucetSigner]
  <2> SUFFICES ASSUME Inductive, Next, Less < Own
               PROVE  Less = Own - 1 /\ \E w \in Wallets : Spent(w)
    OBVIOUS
  <2>0. /\ credential \in [Keys -> Keys \cup {NoKey}] /\ AssetInv
        /\ lamports \in [Keys -> Nat] /\ Own \in Nat
    BY InductiveParts, Parties DEF RegistryInv, U64
  <2>1. lamports' # lamports
    BY <2>0
  <2>2. ASSUME NEW w \in Wallets, NEW d \in DripChoices, Initialize(w, d)
        PROVE  FALSE
    BY <2>0, <2>2, Parties DEF Initialize, Identity!PayRent
  <2>3. ASSUME NEW w \in Wallets, NEW j \in Keys \cup {OtherAccount}, Claim(w, j)
        PROVE  Less = Own - 1 /\ Spent(w)
    <3>1. Identity!VerifyWallet(FaucetSigner, w)
      BY <2>1, <2>3 DEF Claim, EnsureVerified, registry
    <3>2. /\ credential[w] = NoKey /\ credential' = [credential EXCEPT ![w] = w]
          /\ lamports' = [lamports EXCEPT ![FaucetSigner] = @ - 1]
      BY <3>1 DEF Identity!VerifyWallet, Identity!PayRent
    <3>3. asset' = Minted(asset, w, faucet.drip_amount)
      BY <2>3 DEF Claim
    <3>4. Less = Own - 1 /\ credential'[w] = w
      BY <2>0, <3>2, Parties
    <3> QED BY <2>0, <3>2, <3>3, <3>4 DEF Minted, AssetInv
  <2>4. ASSUME RegistryStep PROVE FALSE
    <3>1. PICK w \in Wallets, j \in Keys :
             \/ Identity!Initialize(w)   \/ Identity!VerifyWallet(w, j)
             \/ Identity!RevokeWallet(w, j) \/ Identity!SetAuthority(w, j)
      BY <2>4, Parties DEF RegistryStep
    <3>2. Less = Own
      BY <2>0, <3>1, Parties
         DEF Identity!Initialize, Identity!VerifyWallet, Identity!RevokeWallet,
             Identity!SetAuthority, Identity!PayRent, Identity!RefundRent
    <3> QED BY <2>0, <3>2
  <2>5. ASSUME NEW w \in Wallets, FundSigner(w)
        PROVE  FALSE
    <3>1. PICK n \in 1 .. lamports[w] :
            lamports' = [lamports EXCEPT ![w] = @ - n, ![FaucetSigner] = @ + n]
      BY <2>5 DEF FundSigner
    <3>2. n \in Nat /\ w \in Keys /\ FaucetSigner \in Keys /\ w # FaucetSigner
      BY <2>0, Parties
    <3>3. Less = Own + n
      BY <2>0, <3>1, <3>2
    <3> QED BY <2>0, <3>2, <3>3
  <2>6. /\ \A w \in Wallets, d \in DripChoices :
             SetDripAmount(w, d) => UNCHANGED lamports
        /\ \A w \in Wallets, j \in Keys :
             SetIdentityAuthority(w, j) \/ HandOverMint(w, j) => UNCHANGED lamports
        /\ \A v, w \in Wallets, d \in DripChoices :
             IssueAsset(v, w, d) => UNCHANGED lamports
    BY DEF SetDripAmount, SetIdentityAuthority, Identity!SetAuthority,
           HandOverMint, IssueAsset, registry
  <2>7. \E w \in Wallets, j \in Keys \cup {OtherAccount} : Claim(w, j)
    BY <2>1, <2>2, <2>4, <2>5, <2>6 DEF Next
  <2> QED BY <2>3, <2>7
<1> QED BY <1>1, InductiveHolds, PTL DEF Spec, SignerPaysForNewcomers

(* While the mint is the faucet's, a step issues at most MAX_DRIP, however  *)
(* the admin set the drip before.                                          *)
THEOREM DripsCappedAlways == Spec => DripsCapped
<1> DEFINE Capped == mintAuthority = FaucetSigner =>
                       assetSupply' - assetSupply <= MAX_DRIP
<1>1. Inductive /\ [Next]_vars => [Capped]_vars
  <2> SUFFICES ASSUME Inductive, Next, mintAuthority = FaucetSigner
               PROVE  assetSupply' - assetSupply <= MAX_DRIP
    OBVIOUS
  <2>0. /\ faucet \in Faucet \cup {NoFaucet} /\ assetSupply \in Nat
        /\ MAX_DRIP \in Nat
    BY Parties DEF Inductive, TypeOK, U64
  <2>1. ASSUME assetSupply' = assetSupply
        PROVE  assetSupply' - assetSupply <= MAX_DRIP
    BY <2>0, <2>1
  <2>2. ASSUME NEW w \in Wallets, NEW j \in Keys \cup {OtherAccount}, Claim(w, j)
        PROVE  assetSupply' - assetSupply <= MAX_DRIP
    <3>1. faucet # NoFaucet /\ assetSupply' = assetSupply + faucet.drip_amount
      BY <2>2 DEF Claim, CanDrip
    <3>2. faucet.drip_amount \in 1 .. MAX_DRIP
      BY <2>0, <3>1 DEF Faucet
    <3> QED BY <2>0, <3>1, <3>2
  <2>3. \A v, w \in Wallets, d \in DripChoices : ~IssueAsset(v, w, d)
    BY Parties DEF IssueAsset
  <2>4. /\ \A w \in Wallets, d \in DripChoices :
             Initialize(w, d) \/ SetDripAmount(w, d) => UNCHANGED assetSupply
        /\ \A w \in Wallets, j \in Keys :
             SetIdentityAuthority(w, j) \/ HandOverMint(w, j) => UNCHANGED assetSupply
        /\ RegistryStep => UNCHANGED assetSupply
        /\ \A w \in Wallets : FundSigner(w) => UNCHANGED assetSupply
    BY DEF Initialize, SetDripAmount, SetIdentityAuthority, RegistryStep,
           HandOverMint, FundSigner, mint
  <2> QED BY <2>1, <2>2, <2>3, <2>4 DEF Next
<1> QED BY <1>1, InductiveHolds, PTL DEF Spec, DripsCapped

===============================================================================
