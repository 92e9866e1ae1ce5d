------------------------- MODULE PassageWrapperProofs -------------------------
(***************************************************************************)
(* Proofs about the vault program, for every set of wallets, fee, amount   *)
(* and width of u64.                                                       *)
(***************************************************************************)
EXTENDS PassageWrapper, SplTokenProofs

-------------------------------------------------------------------------------
(* Arithmetic *)

(* A share of at most BPS basis points is a part of the whole.             *)
LEMMA ShareRange ==
  ASSUME NEW amount \in Nat, NEW bps \in 0 .. BPS
  PROVE  (amount * bps) \div BPS \in 0 .. amount
<1> DEFINE share == (amount * bps) \div BPS
<1>1. BPS \in Nat /\ BPS > 0
  BY WrapperAssumption
<1>2. amount * bps \in Nat /\ amount * bps <= amount * BPS
  BY <1>1
<1>3. share \in Nat /\ share * BPS <= amount * bps
  BY <1>1, <1>2
<1>4. share * BPS <= amount * BPS
  BY <1>1, <1>2, <1>3
<1>5. share <= amount
  BY <1>1, <1>3, <1>4
<1> QED BY <1>3, <1>5

LEMMA FeeForRange ==
  ASSUME NEW amount \in Nat, NEW fee_bps \in 0 .. MAX_FEE_BPS
  PROVE  FeeFor(amount, fee_bps) \in 0 .. amount
<1>1. fee_bps \in 0 .. BPS
  BY WrapperAssumption
<1> QED BY <1>1, ShareRange DEF FeeFor

(* Rounded up, the share is still a part of the whole.                     *)
LEMMA AssetReceivedRange ==
  ASSUME NEW amount \in Nat
  PROVE  AssetReceived(amount) \in 0 .. amount
<1> DEFINE fee == (amount * AssetFeeBps + BPS - 1) \div BPS
<1>1. BPS \in Nat /\ BPS > 0 /\ AssetFeeBps \in 0 .. BPS
  BY WrapperAssumption
<1>2. amount * AssetFeeBps \in Nat /\ amount * AssetFeeBps <= amount * BPS
  BY <1>1
<1>3. fee \in Nat /\ fee * BPS <= amount * AssetFeeBps + BPS - 1
  BY <1>1, <1>2
<1>4. fee * BPS < (amount + 1) * BPS
  BY <1>1, <1>2, <1>3
<1>5. fee < amount + 1
  BY <1>1, <1>3, <1>4
<1> QED BY <1>3, <1>5 DEF AssetReceived

(* An asset without a transfer fee arrives whole.                          *)
LEMMA NothingWithheld ==
  ASSUME AssetFeeBps = 0, NEW amount \in Nat
  PROVE  AssetReceived(amount) = amount
<1>1. BPS \in Nat /\ BPS > 0
  BY WrapperAssumption
<1>2. (BPS - 1) \div BPS = 0
  BY <1>1
<1> QED BY <1>1, <1>2 DEF AssetReceived

-------------------------------------------------------------------------------
(* Types *)

\* What the provers need to know of the numbers in a well-typed state.
LEMMA Numbers ==
  /\ \A n \in U64 : n \in Nat
  /\ \A n \in Nat : n <= MaxU64 => n \in U64
  /\ \A n \in Amounts : n \in U64 /\ n \in Nat
  /\ \A n \in U64 : \A k \in 0 .. n : k \in U64 /\ n - k \in U64
  BY MaxU64Assumption, WrapperAssumption DEF U64

LEMMA Owners ==
  /\ IsFiniteSet(AssetOwners) /\ IsFiniteSet(Wallets)
  /\ Wallets \subseteq AssetOwners /\ VaultPda \in AssetOwners
  /\ \A w \in Wallets : w # VaultPda
<1>1. IsFiniteSet({VaultPda})
  BY FS_Singleton
<1>2. IsFiniteSet(AssetOwners)
  BY <1>1, WrapperAssumption, FS_Union DEF AssetOwners
<1> QED BY <1>2, WrapperAssumption DEF AssetOwners

LEMMA MoveAssetType ==
  ASSUME asset \in [AssetOwners -> U64], NEW from \in AssetOwners,
         NEW to \in AssetOwners, NEW amount \in U64,
         CanMoveAsset(from, to, amount), MoveAsset(from, to, amount)
  PROVE  asset' \in [AssetOwners -> U64]
<1> DEFINE received == AssetReceived(amount)
<1>1. amount \in Nat /\ received \in 0 .. amount
  BY Numbers, AssetReceivedRange
<1>2. asset[from] \in U64 /\ asset[to] \in U64
  OBVIOUS
<1>3. amount <= asset[from] /\ (from # to => asset[to] + received <= MaxU64)
  BY DEF CanMoveAsset, CanTransfer
<1> HIDE DEF received
<1>4. asset[from] - amount \in U64
  BY <1>1, <1>2, <1>3, MaxU64Assumption DEF U64
<1>5. from # to => asset[to] + received \in U64
  BY <1>1, <1>2, <1>3, MaxU64Assumption DEF U64
<1>6. asset' = Transferred(asset, from, to, amount, received)
  BY DEF MoveAsset, received
<1> QED BY <1>4, <1>5, <1>6 DEF Transferred

LEMMA MintPType ==
  ASSUME pToken \in [Wallets -> U64], pMint \in PMint, NEW authority,
         NEW to \in Wallets, NEW amount \in Nat, MintP(authority, to, amount)
  PROVE  /\ pToken' \in [Wallets -> U64] /\ pMint' \in PMint
         /\ pMint'.supply = pMint.supply + amount
         /\ pMint'.authority = pMint.authority
<1>1. pToken[to] \in U64 /\ pMint.supply \in U64
  BY DEF PMint
<1>2. pToken[to] + amount \in U64 /\ pMint.supply + amount \in U64
  BY <1>1, MaxU64Assumption DEF U64, MintP, CanMint
<1> QED BY <1>2 DEF MintP, Minted, PMint

LEMMA BurnPType ==
  ASSUME pToken \in [Wallets -> U64], pMint \in PMint,
         NEW from \in Wallets, NEW amount \in Nat, BurnP(from, amount)
  PROVE  /\ pToken' \in [Wallets -> U64] /\ pMint' \in PMint
         /\ pMint'.supply = pMint.supply - amount
         /\ pMint'.authority = pMint.authority
<1>1. pToken[from] \in U64 /\ pMint.supply \in U64
  BY DEF PMint
<1>2. pToken[from] - amount \in U64 /\ pMint.supply - amount \in U64
  BY <1>1, MaxU64Assumption DEF U64, BurnP, CanBurn
<1> QED BY <1>2 DEF BurnP, Burned, PMint

(* Each balance, supply and counter stays within u64, and the fee within    *)
(* its cap, whatever instructions are sent (lib.rs:28, 91-92, 141-142, and *)
(* the token programs' own checks).                                        *)
THEOREM TypeCorrect == Spec => []TypeOK
<1>1. Init => TypeOK
  <2> SUFFICES ASSUME Init PROVE TypeOK
    OBVIOUS
  <2>1. 0 \in U64
    BY MaxU64Assumption DEF U64
  <2>2. pMint \in PMint
    BY <2>1 DEF Init, PMint, AssetOwners
  <2> QED BY <2>1, <2>2 DEF Init, TypeOK
<1>2. TypeOK /\ [Next]_vars => TypeOK'
  <2> SUFFICES ASSUME TypeOK, [Next]_vars PROVE TypeOK'
    OBVIOUS
  <2>0. vault # NoVault =>
          /\ vault \in Vault /\ vault.fee_bps \in 0 .. MAX_FEE_BPS
          /\ vault.total_wrapped \in U64 /\ vault.accrued_fees \in U64
          /\ vault.authority \in Wallets
    BY DEF TypeOK, Vault
  <2>1. ASSUME NEW w \in Wallets, NEW bps \in FeeChoices, InitializeVault(w, bps)
        PROVE  TypeOK'
    <3>1. bps \in 0 .. MAX_FEE_BPS /\ 0 \in U64
      BY <2>1, WrapperAssumption, MaxU64Assumption DEF InitializeVault, InitializeVaultAccounts, U64
    <3> QED BY <2>1, <3>1 DEF InitializeVault, InitializeVaultAccounts, TypeOK, Vault
  <2>2. ASSUME NEW w \in Wallets, NEW n \in Amounts, Wrap(w, n) PROVE TypeOK'
    <3> DEFINE fee == FeeFor(n, vault.fee_bps)
               net == n - fee
    <3>1. vault # NoVault /\ fee \in 0 .. n
      BY <2>0, <2>2, Numbers, FeeForRange DEF Wrap, WrapAccounts
    <3>2. fee \in Nat /\ net \in Nat
      BY <3>1, Numbers
    <3>3. /\ CanMoveAsset(w, VaultPda, n) /\ MoveAsset(w, VaultPda, n)
          /\ MintP(VaultPda, w, net)
          /\ vault.total_wrapped + net <= MaxU64
          /\ vault.accrued_fees + fee <= MaxU64
          /\ vault' = WrapBooked(net, fee)
          /\ assetSupply' = assetSupply
      BY <2>2 DEF Wrap, WrapAccounts
    <3> HIDE DEF fee, net
    <3>4. asset' \in [AssetOwners -> U64]
      BY <3>3, Numbers, Owners, MoveAssetType DEF TypeOK
    <3>5. pToken' \in [Wallets -> U64] /\ pMint' \in PMint
      BY <3>2, <3>3, MintPType DEF TypeOK
    <3>6. vault.total_wrapped + net \in U64 /\ vault.accrued_fees + fee \in U64
      BY <2>0, <3>1, <3>2, <3>3, MaxU64Assumption DEF U64
    <3>7. vault' \in Vault
      BY <2>0, <3>1, <3>3, <3>6 DEF WrapBooked, Vault
    <3> QED BY <3>3, <3>4, <3>5, <3>7 DEF TypeOK
  <2>3. ASSUME NEW w \in Wallets, NEW n \in Amounts, Unwrap(w, n) PROVE TypeOK'
    <3> DEFINE fee == FeeFor(n, vault.fee_bps)
    <3>1. vault # NoVault /\ fee \in 0 .. n
      BY <2>0, <2>3, Numbers, FeeForRange DEF Unwrap, CanUnwrap, UnwrapAccounts
    <3>2. fee \in Nat /\ n - fee \in U64
      BY <3>1, Numbers
    <3>3. /\ CanMoveAsset(VaultPda, w, n - fee) /\ MoveAsset(VaultPda, w, n - fee)
          /\ BurnP(w, n)
          /\ n <= vault.total_wrapped
          /\ vault.accrued_fees + fee <= MaxU64
          /\ vault' = UnwrapBooked(n, fee)
          /\ assetSupply' = assetSupply
      BY <2>3 DEF Unwrap, CanUnwrap, UnwrapAccounts
    <3> HIDE DEF fee
    <3>4. asset' \in [AssetOwners -> U64]
      BY <3>2, <3>3, Owners, MoveAssetType DEF TypeOK
    <3>5. pToken' \in [Wallets -> U64] /\ pMint' \in PMint
      BY <3>3, Numbers, BurnPType DEF TypeOK
    <3>6. vault.total_wrapped - n \in U64 /\ vault.accrued_fees + fee \in U64
      BY <2>0, <3>1, <3>2, <3>3, Numbers, MaxU64Assumption DEF U64
    <3>7. vault' \in Vault
      BY <2>0, <3>1, <3>3, <3>6 DEF UnwrapBooked, Vault
    <3> QED BY <3>3, <3>4, <3>5, <3>7 DEF TypeOK
  <2>4. ASSUME NEW w \in Wallets, NEW t \in AssetOwners, CollectFees(w, t)
        PROVE  TypeOK'
    <3>1. asset' \in [AssetOwners -> U64]
      BY <2>0, <2>4, Owners, MoveAssetType DEF CollectFees, CollectFeesAccounts, TypeOK
    <3>2. vault' \in Vault
      <4>1. 0 \in U64
        BY MaxU64Assumption DEF U64
      <4> QED BY <2>0, <2>4, <4>1 DEF CollectFees, CollectFeesAccounts, FeesCollectedBooked, Vault
    <3> QED BY <2>4, <3>1, <3>2 DEF CollectFees, CollectFeesAccounts, TypeOK
  <2>5. ASSUME NEW w \in Wallets, NEW n \in Amounts, IssueAsset(w, n)
        PROVE  TypeOK'
    <3>1. w \in AssetOwners /\ asset[w] \in U64 /\ n \in Nat
      BY Owners, Numbers DEF TypeOK
    <3>2. asset[w] + n \in U64 /\ assetSupply + n \in U64
      BY <2>5, <3>1, MaxU64Assumption DEF IssueAsset, CanMint, TypeOK, U64
    <3> QED BY <2>5, <3>2 DEF IssueAsset, Minted, TypeOK
  <2>6. ASSUME NEW w \in Wallets, NEW o \in AssetOwners, NEW n \in Amounts,
               TransferAsset(w, o, n)
        PROVE  TypeOK'
    <3>1. asset' \in [AssetOwners -> U64]
      BY <2>6, Owners, Numbers, MoveAssetType DEF TransferAsset, TypeOK
    <3> QED BY <2>6, <3>1 DEF TransferAsset, TypeOK
  <2>7. ASSUME NEW v \in Wallets, NEW w \in Wallets, NEW n \in Amounts,
               TransferPToken(v, w, n)
        PROVE  TypeOK'
    <3>1. pToken' \in [Wallets -> U64]
      BY <2>7, Owners, Numbers, TotalTransferred DEF TransferPToken, TypeOK
    <3> QED BY <2>7, <3>1 DEF TransferPToken, TypeOK
  <2>8. ASSUME NEW w \in Wallets, NEW n \in Amounts, BurnPToken(w, n)
        PROVE  TypeOK'
    BY <2>8, Numbers, BurnPType DEF BurnPToken, TypeOK
  <2>9. ASSUME NEW v \in Wallets, NEW w \in Wallets, NEW n \in Amounts,
               CreatorMints(v, w, n)
        PROVE  TypeOK'
    BY <2>9, Numbers, MintPType DEF CreatorMints, TypeOK
  <2>10. ASSUME NEW w \in Wallets, CreatorHandsOver(w) PROVE TypeOK'
    BY <2>10, Owners DEF CreatorHandsOver, TypeOK, PMint
  <2>11. CASE UNCHANGED vars
    BY <2>11 DEF vars, TypeOK
  <2> QED BY <2>1, <2>2, <2>3, <2>4, <2>5, <2>6, <2>7, <2>8, <2>9, <2>10, <2>11
          DEF Next, Program, Environment
<1> QED BY <1>1, <1>2, PTL DEF Spec

-------------------------------------------------------------------------------
(* The inductive invariant, for an asset without a transfer fee *)

LEMMA MoveAssetEffect ==
  ASSUME AssetFeeBps = 0, asset \in [AssetOwners -> U64],
         NEW from \in AssetOwners, NEW to \in AssetOwners, NEW amount \in U64,
         CanMoveAsset(from, to, amount), MoveAsset(from, to, amount)
  PROVE  /\ Total(asset') = Total(asset)
         /\ amount <= asset[from]
         /\ asset'[VaultPda] =
              IF from = to \/ VaultPda \notin {from, to} THEN asset[VaultPda]
              ELSE IF from = VaultPda THEN asset[VaultPda] - amount
              ELSE asset[VaultPda] + amount
<1>1. amount \in Nat /\ AssetReceived(amount) = amount
  BY Numbers, NothingWithheld
<1>2. /\ CanTransfer(asset, from, to, amount, amount)
      /\ asset' = Transferred(asset, from, to, amount, amount)
  BY <1>1 DEF CanMoveAsset, MoveAsset
<1>3. Total(asset') = Total(asset)
  BY <1>1, <1>2, Owners, TotalTransferred
<1> QED BY <1>2, <1>3, Owners DEF CanTransfer, Transferred

LEMMA MintPTotal ==
  ASSUME pToken \in [Wallets -> U64], NEW authority, NEW to \in Wallets,
         NEW amount \in Nat, MintP(authority, to, amount)
  PROVE  Total(pToken') = Total(pToken) + amount
  BY Owners, TotalMinted DEF MintP, CanMint

LEMMA BurnPTotal ==
  ASSUME pToken \in [Wallets -> U64], NEW from \in Wallets,
         NEW amount \in Nat, BurnP(from, amount)
  PROVE  Total(pToken') = Total(pToken) - amount
  BY Owners, TotalBurned DEF BurnP, CanBurn

(* What each instruction does to the vault's account, the pTokens and the   *)
(* counters: the fee is the part of the amount that changes counters only. *)
LEMMA WrapEffect ==
  ASSUME AssetFeeBps = 0, TypeOK, NEW w \in Wallets, NEW n \in Amounts,
         Wrap(w, n)
  PROVE  LET fee == FeeFor(n, vault.fee_bps)
         IN  /\ vault # NoVault /\ n \in U64 /\ n \in Nat /\ fee \in 0 .. n
             /\ vault' \in Vault /\ vault' # NoVault
             /\ vault'.total_wrapped = vault.total_wrapped + (n - fee)
             /\ vault'.accrued_fees = vault.accrued_fees + fee
             /\ asset'[VaultPda] = asset[VaultPda] + n
             /\ Total(asset') = Total(asset) /\ assetSupply' = assetSupply
             /\ pMint'.supply = pMint.supply + (n - fee)
             /\ pMint'.authority = pMint.authority
             /\ Total(pToken') = Total(pToken) + (n - fee)
<1> DEFINE fee == FeeFor(n, vault.fee_bps)
           net == n - fee
<1>1. /\ vault # NoVault /\ n \in U64 /\ n \in Nat
      /\ vault \in Vault /\ vault.fee_bps \in 0 .. MAX_FEE_BPS
      /\ vault.total_wrapped \in Nat /\ vault.accrued_fees \in Nat
  BY Numbers DEF Wrap, WrapAccounts, TypeOK, Vault
<1>2. fee \in 0 .. n
  BY <1>1, FeeForRange
<1>3. fee \in Nat /\ net \in Nat
  BY <1>1, <1>2
<1>4. /\ CanMoveAsset(w, VaultPda, n) /\ MoveAsset(w, VaultPda, n)
      /\ MintP(VaultPda, w, net) /\ vault' = WrapBooked(net, fee)
      /\ vault.total_wrapped + net <= MaxU64
      /\ vault.accrued_fees + fee <= MaxU64
      /\ assetSupply' = assetSupply
  BY DEF Wrap, WrapAccounts
<1> HIDE DEF fee, net
<1>5. Total(asset') = Total(asset) /\ asset'[VaultPda] = asset[VaultPda] + n
  BY <1>1, <1>4, Owners, MoveAssetEffect DEF TypeOK
<1>6. /\ pMint'.supply = pMint.supply + net
      /\ pMint'.authority = pMint.authority
      /\ Total(pToken') = Total(pToken) + net
  BY <1>3, <1>4, MintPType, MintPTotal DEF TypeOK
<1>7. /\ vault.total_wrapped + net \in U64
      /\ vault.accrued_fees + fee \in U64
  BY <1>1, <1>3, <1>4, Numbers
<1>8. /\ vault' \in Vault
      /\ vault'.total_wrapped = vault.total_wrapped + net
      /\ vault'.accrued_fees = vault.accrued_fees + fee
  BY <1>1, <1>4, <1>7 DEF WrapBooked, Vault
<1>9. vault' # NoVault
  BY <1>8, NoVaultAssumption
<1> QED BY <1>1, <1>2, <1>4, <1>5, <1>6, <1>8, <1>9 DEF fee, net

LEMMA UnwrapEffect ==
  ASSUME AssetFeeBps = 0, TypeOK, NEW w \in Wallets, NEW n \in Amounts,
         Unwrap(w, n)
  PROVE  LET fee == FeeFor(n, vault.fee_bps)
         IN  /\ vault # NoVault /\ n \in U64 /\ n \in Nat /\ fee \in 0 .. n
             /\ vault' \in Vault /\ vault' # NoVault
             /\ vault'.total_wrapped = vault.total_wrapped - n
             /\ vault'.accrued_fees = vault.accrued_fees + fee
             /\ asset'[VaultPda] = asset[VaultPda] - (n - fee)
             /\ Total(asset') = Total(asset) /\ assetSupply' = assetSupply
             /\ n <= pMint.supply /\ pMint'.supply = pMint.supply - n
             /\ pMint'.authority = pMint.authority
             /\ Total(pToken') = Total(pToken) - n
<1> DEFINE fee == FeeFor(n, vault.fee_bps)
           net == n - fee
<1>1. /\ vault # NoVault /\ n \in U64 /\ n \in Nat
      /\ vault \in Vault /\ vault.fee_bps \in 0 .. MAX_FEE_BPS
      /\ vault.total_wrapped \in U64 /\ vault.accrued_fees \in Nat
  BY Numbers DEF Unwrap, CanUnwrap, UnwrapAccounts, TypeOK, Vault
<1>2. fee \in 0 .. n
  BY <1>1, FeeForRange
<1>3. fee \in Nat /\ net \in U64
  BY <1>1, <1>2, Numbers
<1>4. /\ CanMoveAsset(VaultPda, w, net) /\ MoveAsset(VaultPda, w, net)
      /\ BurnP(w, n) /\ n <= vault.total_wrapped
      /\ vault.accrued_fees + fee <= MaxU64
      /\ vault' = UnwrapBooked(n, fee)
      /\ assetSupply' = assetSupply
  BY DEF Unwrap, CanUnwrap, UnwrapAccounts
<1> HIDE DEF fee, net
<1>5. Total(asset') = Total(asset) /\ asset'[VaultPda] = asset[VaultPda] - net
  BY <1>3, <1>4, Owners, MoveAssetEffect DEF TypeOK
<1>6. /\ n <= pMint.supply /\ pMint'.supply = pMint.supply - n
      /\ pMint'.authority = pMint.authority
      /\ Total(pToken') = Total(pToken) - n
  BY <1>1, <1>4, BurnPType, BurnPTotal DEF TypeOK, BurnP, CanBurn
<1>7. vault.total_wrapped - n \in U64 /\ vault.accrued_fees + fee \in U64
  BY <1>1, <1>3, <1>4, MaxU64Assumption DEF U64
<1>8. /\ vault' \in Vault
      /\ vault'.total_wrapped = vault.total_wrapped - n
      /\ vault'.accrued_fees = vault.accrued_fees + fee
  BY <1>1, <1>4, <1>7 DEF UnwrapBooked, Vault
<1>9. vault' # NoVault
  BY <1>8, NoVaultAssumption
<1> QED BY <1>1, <1>2, <1>4, <1>5, <1>6, <1>8, <1>9 DEF fee, net

LEMMA CollectFeesEffect ==
  ASSUME AssetFeeBps = 0, TypeOK, NEW w \in Wallets, NEW t \in AssetOwners,
         CollectFees(w, t)
  PROVE  /\ vault # NoVault /\ vault' \in Vault /\ vault' # NoVault
         /\ vault'.total_wrapped = vault.total_wrapped
         /\ vault'.accrued_fees = 0
         /\ asset'[VaultPda] = IF t = VaultPda THEN asset[VaultPda]
                               ELSE asset[VaultPda] - vault.accrued_fees
         /\ Total(asset') = Total(asset) /\ assetSupply' = assetSupply
         /\ pToken' = pToken /\ pMint' = pMint
<1>1. /\ vault # NoVault /\ vault \in Vault /\ vault.accrued_fees \in U64
      /\ CanMoveAsset(VaultPda, t, vault.accrued_fees)
      /\ MoveAsset(VaultPda, t, vault.accrued_fees)
      /\ vault' = FeesCollectedBooked
      /\ assetSupply' = assetSupply /\ pToken' = pToken /\ pMint' = pMint
  BY DEF CollectFees, CollectFeesAccounts, TypeOK, Vault
<1>2. /\ Total(asset') = Total(asset)
      /\ asset'[VaultPda] = IF t = VaultPda THEN asset[VaultPda]
                            ELSE asset[VaultPda] - vault.accrued_fees
  BY <1>1, Owners, MoveAssetEffect DEF TypeOK
<1>3. 0 \in U64
  BY MaxU64Assumption DEF U64
<1>4. /\ vault' \in Vault /\ vault'.total_wrapped = vault.total_wrapped
      /\ vault'.accrued_fees = 0
  BY <1>1, <1>3 DEF FeesCollectedBooked, Vault
<1> QED BY <1>1, <1>2, <1>4, NoVaultAssumption

(* The vault's account covers total_wrapped and accrued_fees; if the mint   *)
(* was created with the vault as its authority, every pToken is recorded;  *)
(* and both ledgers add up to their supplies.                              *)
THEOREM InductiveHolds ==
  ASSUME AssetFeeBps = 0
  PROVE  Spec => []Inductive
<1>1. Init => Inductive
  <2> SUFFICES ASSUME Init PROVE Inductive
    OBVIOUS
  <2>1. 0 \in U64
    BY MaxU64Assumption DEF U64
  <2>2. TypeOK
    BY <2>1 DEF Init, TypeOK, PMint, AssetOwners
  <2>3. Circulation
    BY TotalOfNothing DEF Init, Circulation
  <2> QED BY <2>2, <2>3 DEF Init, Inductive, Solvent, Backed
<1>2. TypeOK /\ TypeOK' /\ Inductive /\ [Next]_vars => Inductive'
  <2> SUFFICES ASSUME TypeOK, TypeOK', Inductive, [Next]_vars PROVE Inductive'
    OBVIOUS
  <2> USE DEF Inductive
  <2>0. /\ pMint.supply \in Nat /\ pMint'.supply \in Nat
        /\ asset[VaultPda] \in Nat /\ asset'[VaultPda] \in Nat
        /\ Total(asset) \in Nat /\ Total(pToken) \in Nat
        /\ vault # NoVault =>
             /\ vault.total_wrapped \in Nat /\ vault.accrued_fees \in Nat
             /\ vault.fee_bps \in 0 .. MAX_FEE_BPS /\ vault \in Vault
    BY Owners, Numbers, TotalType DEF TypeOK, PMint, Vault
  <2>1. ASSUME NEW w \in Wallets, NEW bps \in FeeChoices, InitializeVault(w, bps)
        PROVE  Inductive'
    <3>1. Solvent' /\ (FreshPMint => Backed')
      BY <2>0, <2>1, NoVaultAssumption DEF InitializeVault, InitializeVaultAccounts, Solvent, Backed
    <3> QED BY <2>1, <3>1 DEF InitializeVault, InitializeVaultAccounts, Circulation
  <2>2. ASSUME NEW w \in Wallets, NEW n \in Amounts, Wrap(w, n) PROVE Inductive'
    <3>1. Solvent'
      BY <2>0, <2>2, WrapEffect DEF Solvent
    <3>2. FreshPMint => Backed'
      BY <2>0, <2>2, WrapEffect DEF Backed
    <3>3. Circulation'
      BY <2>2, WrapEffect DEF Circulation
    <3> QED BY <2>2, <3>1, <3>2, <3>3, WrapEffect
  <2>3. ASSUME NEW w \in Wallets, NEW n \in Amounts, Unwrap(w, n)
        PROVE  Inductive'
    <3>1. Solvent'
      BY <2>0, <2>3, UnwrapEffect DEF Solvent
    <3>2. FreshPMint => Backed'
      BY <2>0, <2>3, UnwrapEffect DEF Backed
    <3>3. Circulation'
      BY <2>3, UnwrapEffect DEF Circulation
    <3> QED BY <2>3, <3>1, <3>2, <3>3, UnwrapEffect
  <2>4. ASSUME NEW w \in Wallets, NEW t \in AssetOwners, CollectFees(w, t)
        PROVE  Inductive'
    <3>1. Solvent'
      BY <2>0, <2>4, CollectFeesEffect DEF Solvent
    <3> QED BY <2>4, <3>1, CollectFeesEffect DEF Backed, Circulation
  <2>5. ASSUME NEW w \in Wallets, NEW n \in Amounts, IssueAsset(w, n)
        PROVE  Inductive'
    <3>1. /\ Total(asset') = Total(asset) + n
          /\ asset'[VaultPda] = asset[VaultPda]
          /\ assetSupply' = assetSupply + n
          /\ vault' = vault /\ pToken' = pToken /\ pMint' = pMint
      <4>1. Total(Minted(asset, w, n)) = Total(asset) + n
        <5>1. w \in AssetOwners /\ n \in Nat /\ asset[w] + n <= MaxU64
          BY <2>5, Owners, Numbers DEF IssueAsset, CanMint
        <5> QED BY <5>1, Owners, TotalMinted DEF TypeOK
      <4> QED BY <2>5, <4>1, Owners DEF IssueAsset, Minted
    <3> QED BY <3>1 DEF Solvent, Backed, Circulation
  <2>6. ASSUME NEW w \in Wallets, NEW o \in AssetOwners, NEW n \in Amounts,
               TransferAsset(w, o, n)
        PROVE  Inductive'
    <3>1. /\ Total(asset') = Total(asset)
          /\ asset'[VaultPda] >= asset[VaultPda]
          /\ assetSupply' = assetSupply
          /\ vault' = vault /\ pToken' = pToken /\ pMint' = pMint
      BY <2>0, <2>6, Owners, Numbers, MoveAssetEffect DEF TransferAsset, TypeOK
    <3>2. Solvent'
      BY <2>0, <3>1 DEF Solvent
    <3> QED BY <3>1, <3>2 DEF Backed, Circulation
  <2>7. ASSUME NEW v \in Wallets, NEW w \in Wallets, NEW n \in Amounts,
               TransferPToken(v, w, n)
        PROVE  Inductive'
    <3>1. Total(pToken') = Total(pToken)
      <4>1. /\ n \in Nat /\ CanTransfer(pToken, v, w, n, n)
            /\ pToken' = Transferred(pToken, v, w, n, n)
        BY <2>7, Numbers DEF TransferPToken
      <4>2. pToken \in [Wallets -> U64]
        BY DEF TypeOK
      <4> QED BY <4>1, <4>2, Owners, TotalTransferred
    <3> QED BY <2>7, <3>1 DEF TransferPToken, Solvent, Backed, Circulation
  <2>8. ASSUME NEW w \in Wallets, NEW n \in Amounts, BurnPToken(w, n)
        PROVE  Inductive'
    <3>1. /\ BurnP(w, n) /\ n \in Nat
          /\ vault' = vault /\ asset' = asset /\ assetSupply' = assetSupply
      BY <2>8, Numbers DEF BurnPToken
    <3>2. /\ pMint'.supply = pMint.supply - n
          /\ pMint'.authority = pMint.authority
          /\ Total(pToken') = Total(pToken) - n
      BY <3>1, BurnPType, BurnPTotal DEF TypeOK
    <3>3. FreshPMint => Backed'
      BY <2>0, <3>1, <3>2 DEF Backed
    <3> QED BY <2>0, <3>1, <3>2, <3>3 DEF Solvent, Circulation
  <2>9. ASSUME NEW v \in Wallets, NEW w \in Wallets, NEW n \in Amounts,
               CreatorMints(v, w, n)
        PROVE  Inductive'
    <3>1. /\ MintP(v, w, n) /\ n \in Nat
          /\ vault' = vault /\ asset' = asset /\ assetSupply' = assetSupply
      BY <2>9, Numbers DEF CreatorMints
    <3>2. pMint.authority # VaultPda
      BY <3>1, Owners DEF MintP
    <3>3. /\ pMint'.supply = pMint.supply + n
          /\ Total(pToken') = Total(pToken) + n
      BY <3>1, MintPType, MintPTotal DEF TypeOK
    <3> QED BY <2>0, <3>1, <3>2, <3>3 DEF Solvent, Circulation
  <2>10. ASSUME NEW w \in Wallets, CreatorHandsOver(w) PROVE Inductive'
    BY <2>10, Owners DEF CreatorHandsOver, Solvent, Backed, Circulation, TypeOK, PMint
  <2>11. CASE UNCHANGED vars
    BY <2>11 DEF vars, Solvent, Backed, Circulation
  <2> QED BY <2>1, <2>2, <2>3, <2>4, <2>5, <2>6, <2>7, <2>8, <2>9, <2>10, <2>11
          DEF Next, Program, Environment
<1> QED BY <1>1, <1>2, TypeCorrect, PTL DEF Spec

-------------------------------------------------------------------------------
(* What follows from it *)

(* The vault can always pay what it has recorded: claims and fees.         *)
THEOREM SolventAlways ==
  ASSUME AssetFeeBps = 0
  PROVE  Spec => []Solvent
<1>1. Inductive => Solvent
  BY DEF Inductive
<1> QED BY <1>1, InductiveHolds, PTL

(* Every pToken is recorded, so the checked_sub of an unwrap never fails.   *)
THEOREM BackedAlways ==
  ASSUME AssetFeeBps = 0, FreshPMint
  PROVE  Spec => []Backed
<1>1. Inductive => Backed
  BY DEF Inductive
<1> QED BY <1>1, InductiveHolds, PTL

(* No holder is ever refused: burn, payout and bookkeeping all succeed for  *)
(* any part of any balance, at any time.                                   *)
THEOREM RedeemableAlways ==
  ASSUME AssetFeeBps = 0, FreshPMint
  PROVE  Spec => []Redeemable
<1>1. Inductive => Redeemable
  <2> SUFFICES ASSUME Inductive, vault # NoVault,
                      NEW w \in Wallets, NEW n \in 1 .. pToken[w]
               PROVE  CanUnwrap(w, n)
    BY DEF Redeemable
  <2> DEFINE fee == FeeFor(n, vault.fee_bps)
             net == n - fee
  <2>1. /\ pToken[w] \in Nat /\ pMint.supply \in U64 /\ pMint.supply \in Nat
        /\ vault.total_wrapped \in Nat /\ vault.accrued_fees \in Nat
        /\ vault.fee_bps \in 0 .. MAX_FEE_BPS
        /\ asset[w] \in Nat /\ asset[VaultPda] \in Nat
        /\ assetSupply \in Nat /\ assetSupply <= MaxU64
    BY Owners, Numbers, MaxU64Assumption DEF Inductive, TypeOK, PMint, Vault, U64
  <2>2. n \in Nat /\ n > 0 /\ n <= pToken[w]
    BY <2>1
  <2>3. fee \in Nat /\ net \in Nat /\ n = net + fee
    <3>1. fee \in 0 .. n
      BY <2>1, <2>2, FeeForRange
    <3> QED BY <2>2, <3>1
  <2> HIDE DEF fee, net
  <2>4. n <= pMint.supply
    <3>1. pToken[w] <= Total(pToken)
      BY Owners, BalanceWithinTotal DEF Inductive, TypeOK
    <3> QED BY <2>1, <2>2, <3>1 DEF Inductive, Circulation
  <2>5. /\ n <= vault.total_wrapped
        /\ vault.total_wrapped + vault.accrued_fees <= asset[VaultPda]
    BY <2>1, <2>2, <2>4 DEF Inductive, Backed, Solvent
  <2>6. asset[w] + asset[VaultPda] <= MaxU64
    <3>1. asset[w] + asset[VaultPda] <= Total(asset)
      BY Owners, BalancesWithinTotal DEF Inductive, TypeOK
    <3>2. Total(asset) = assetSupply
      BY DEF Inductive, Circulation
    <3> QED BY <2>1, <3>1, <3>2, MaxU64Assumption
  <2>7. CanBurn(pToken, pMint.supply, w, n)
    BY <2>2, <2>4 DEF CanBurn
  <2>8. CanMoveAsset(VaultPda, w, net)
    <3>1. net <= asset[VaultPda] /\ asset[w] + net <= MaxU64
      BY <2>1, <2>2, <2>3, <2>5, <2>6, MaxU64Assumption
    <3> QED BY <2>3, <3>1, NothingWithheld DEF CanMoveAsset, CanTransfer
  <2>9. vault.accrued_fees + fee <= MaxU64
    BY <2>1, <2>2, <2>3, <2>5, <2>6, MaxU64Assumption
  <2> QED BY <2>2, <2>5, <2>7, <2>8, <2>9 DEF CanUnwrap, UnwrapAccounts, fee, net
<1> QED BY <1>1, InductiveHolds, PTL

-------------------------------------------------------------------------------
(* The vault program implements FullReserve *)

LEMMA StepRefines ==
  ASSUME AssetFeeBps = 0,
         vault # NoVault \/ FreshPMint,
         Inductive, [Next]_vars
  PROVE  [Reserve!Next]_(Reserve!vars)
<1>0. /\ TypeOK /\ pMint.authority = VaultPda
      /\ \A n \in U64 : n \in 0 .. MaxU64
      /\ vault # NoVault => vault.accrued_fees \in Nat
  BY Numbers DEF Inductive, TypeOK, Vault, U64
<1>1. ASSUME NEW w \in Wallets, NEW bps \in FeeChoices, InitializeVault(w, bps)
      PROVE  UNCHANGED Reserve!vars
  BY <1>1 DEF InitializeVault, InitializeVaultAccounts, Reserve!vars
<1>2. ASSUME NEW w \in Wallets, NEW n \in Amounts, Wrap(w, n)
      PROVE  Reserve!Next
  <2> DEFINE fee == FeeFor(n, vault.fee_bps)
  <2>1. n \in 0 .. MaxU64 /\ fee \in 0 .. n
    BY <1>0, <1>2, WrapEffect
  <2>2. Reserve!Deposit(n, fee)
    BY <1>0, <1>2, WrapEffect DEF Reserve!Deposit
  <2> QED BY <2>1, <2>2 DEF Reserve!Next
<1>3. ASSUME NEW w \in Wallets, NEW n \in Amounts, Unwrap(w, n)
      PROVE  Reserve!Next
  <2> DEFINE fee == FeeFor(n, vault.fee_bps)
  <2>1. n \in 0 .. MaxU64 /\ fee \in 0 .. n
    BY <1>0, <1>3, UnwrapEffect
  <2>2. Reserve!Redeem(n, fee)
    BY <1>0, <1>3, UnwrapEffect DEF Reserve!Redeem
  <2> QED BY <2>1, <2>2 DEF Reserve!Next
<1>4. ASSUME NEW w \in Wallets, NEW t \in AssetOwners, CollectFees(w, t)
      PROVE  Reserve!Next
  <2>1. CASE t = VaultPda
    <3>1. Reserve!ForgoRevenue
      BY <1>0, <1>4, <2>1, CollectFeesEffect DEF Reserve!ForgoRevenue
    <3> QED BY <3>1 DEF Reserve!Next
  <2>2. CASE t # VaultPda
    <3>1. Reserve!TakeRevenue
      BY <1>0, <1>4, <2>2, CollectFeesEffect DEF Reserve!TakeRevenue
    <3> QED BY <3>1 DEF Reserve!Next
  <2> QED BY <2>1, <2>2
<1>5. ASSUME NEW w \in Wallets, NEW n \in Amounts, IssueAsset(w, n)
      PROVE  UNCHANGED Reserve!vars
  BY <1>5, Owners DEF IssueAsset, Minted, Reserve!vars, Inductive, TypeOK
<1>6. ASSUME NEW w \in Wallets, NEW o \in AssetOwners, NEW n \in Amounts,
             TransferAsset(w, o, n)
      PROVE  [Reserve!Next]_(Reserve!vars)
  <2>1. /\ asset'[VaultPda] = IF o = VaultPda THEN asset[VaultPda] + n
                              ELSE asset[VaultPda]
        /\ vault' = vault /\ pMint' = pMint
    BY <1>0, <1>6, Owners, Numbers, MoveAssetEffect DEF TransferAsset, TypeOK
  <2>2. CASE o = VaultPda
    <3>1. Reserve!Gift(n) /\ n \in 0 .. MaxU64
      BY <1>0, <2>1, <2>2, Numbers DEF Reserve!Gift
    <3> QED BY <3>1 DEF Reserve!Next
  <2>3. CASE o # VaultPda
    BY <2>1, <2>3 DEF Reserve!vars
  <2> QED BY <2>2, <2>3
<1>7. ASSUME NEW v \in Wallets, NEW w \in Wallets, NEW n \in Amounts,
             TransferPToken(v, w, n)
      PROVE  UNCHANGED Reserve!vars
  BY <1>7 DEF TransferPToken, Reserve!vars
<1>8. ASSUME NEW w \in Wallets, NEW n \in Amounts, BurnPToken(w, n)
      PROVE  Reserve!Next
  <2>1. n \in 0 .. MaxU64 /\ n \in Nat
    BY <1>0, Numbers
  <2>2. n <= pMint.supply /\ pMint'.supply = pMint.supply - n
    BY <1>0, <1>8, <2>1, BurnPType DEF BurnPToken, BurnP, CanBurn, TypeOK
  <2>3. Reserve!Forfeit(n)
    BY <1>8, <2>2 DEF BurnPToken, Reserve!Forfeit
  <2> QED BY <2>1, <2>3 DEF Reserve!Next
<1>9. ASSUME NEW v \in Wallets, NEW w \in Wallets, NEW n \in Amounts,
             CreatorMints(v, w, n)
      PROVE  FALSE
  BY <1>0, <1>9, Owners DEF CreatorMints, MintP
<1>10. ASSUME NEW w \in Wallets, CreatorHandsOver(w) PROVE FALSE
  BY <1>0, <1>10, Owners DEF CreatorHandsOver
<1>11. CASE UNCHANGED vars
  BY <1>11 DEF vars, Reserve!vars
<1> QED BY <1>1, <1>2, <1>3, <1>4, <1>5, <1>6, <1>7, <1>8, <1>9, <1>10, <1>11
        DEF Next, Program, Environment

(* With a pToken mint that was the vault's from the start and an asset      *)
(* without transfer fees the vault is a full-reserve institution: claims   *)
(* only against deposits, payouts only against claims or as earned revenue.*)
THEOREM RefinesReserve ==
  ASSUME AssetFeeBps = 0, FreshPMint
  PROVE  Spec => ReserveSpec
<1>1. Init => Reserve!Init
  BY FreshPMint, Owners DEF Init, Reserve!Init
<1>2. Inductive /\ [Next]_vars => [Reserve!Next]_(Reserve!vars)
  BY StepRefines
<1> QED BY <1>1, <1>2, InductiveHolds, PTL DEF Spec, ReserveSpec, Reserve!Spec

(* The vault's account never loses more than the claims handed back and the *)
(* fees taken out, pTokens from before the vault existed included: a       *)
(* consequence of the refinement, which each step from then on keeps to.   *)
THEOREM CustodyProtected ==
  ASSUME AssetFeeBps = 0
  PROVE  Spec => CustodyOnlyPaysClaims
<1> DEFINE Paid == vault # NoVault =>
             asset[VaultPda] - asset'[VaultPda] <=
               (pMint.supply - pMint'.supply)
                 + (vault.accrued_fees - vault'.accrued_fees)
<1>1. Inductive /\ Inductive' /\ [Next]_vars => [Paid]_vars
  <2> SUFFICES ASSUME Inductive, Inductive', [Next]_vars, vault # NoVault
               PROVE  Paid
    OBVIOUS
  <2>1. /\ asset[VaultPda] \in Nat /\ asset'[VaultPda] \in Nat
        /\ pMint.supply \in Nat /\ pMint'.supply \in Nat
        /\ vault.accrued_fees \in Nat
    BY Owners, Numbers DEF Inductive, TypeOK, PMint, Vault
  <2>2. vault' # NoVault /\ vault'.accrued_fees \in Nat
    <3>1. TypeOK /\ TypeOK'
      BY DEF Inductive
    <3>2. vault' # NoVault
      BY <3>1, WrapEffect, UnwrapEffect, CollectFeesEffect
         DEF Next, Program, Environment, InitializeVault, InitializeVaultAccounts, IssueAsset,
             TransferAsset, TransferPToken, BurnPToken, CreatorMints,
             CreatorHandsOver, vars
    <3> QED BY <3>1, <3>2, Numbers DEF TypeOK, Vault
  <2>3. [Reserve!Next]_(Reserve!vars)
    BY StepRefines
  <2>4. CASE Reserve!TakeRevenue \/ Reserve!ForgoRevenue
    BY <2>1, <2>2, <2>4 DEF Reserve!TakeRevenue, Reserve!ForgoRevenue
  <2>5. CASE \E amount \in 0 .. MaxU64 : Reserve!Gift(amount)
    BY <2>1, <2>2, <2>5 DEF Reserve!Gift
  <2>6. CASE \E amount \in 0 .. MaxU64 : Reserve!Forfeit(amount)
    BY <2>1, <2>2, <2>6, MaxU64Assumption DEF Reserve!Forfeit
  <2>7. ASSUME NEW amount \in 0 .. MaxU64, NEW fee \in 0 .. amount,
               Reserve!Deposit(amount, fee)
        PROVE  Paid
    BY <2>1, <2>2, <2>7, MaxU64Assumption DEF Reserve!Deposit
  <2>8. ASSUME NEW amount \in 0 .. MaxU64, NEW fee \in 0 .. amount,
               Reserve!Redeem(amount, fee)
        PROVE  Paid
    BY <2>1, <2>2, <2>8, MaxU64Assumption DEF Reserve!Redeem
  <2>9. CASE UNCHANGED Reserve!vars
    BY <2>1, <2>2, <2>9 DEF Reserve!vars
  <2> QED BY <2>3, <2>4, <2>5, <2>6, <2>7, <2>8, <2>9 DEF Reserve!Next
<1> QED BY <1>1, InductiveHolds, PTL DEF Spec, CustodyOnlyPaysClaims

(* accrued_fees falls only by a collection of all of it, and whoever the    *)
(* treasury is, what leaves the counter leaves the account whole or, into  *)
(* the vault's own account, not at all.                                    *)
THEOREM FeesAlwaysCollectedWhole ==
  ASSUME AssetFeeBps = 0
  PROVE  Spec => FeesCollectedWhole
<1> DEFINE Whole == vault # NoVault /\ vault'.accrued_fees < vault.accrued_fees =>
             /\ vault'.accrued_fees = 0
             /\ \/ asset[VaultPda] - asset'[VaultPda] = vault.accrued_fees
                \/ asset' = asset
<1>1. TypeOK /\ [Next]_vars => [Whole]_vars
  <2> SUFFICES ASSUME TypeOK, [Next]_vars, vault # NoVault
               PROVE  Whole
    OBVIOUS
  <2>1. /\ vault \in Vault /\ vault.accrued_fees \in Nat
        /\ vault.fee_bps \in 0 .. MAX_FEE_BPS /\ asset[VaultPda] \in Nat
    BY Owners, Numbers DEF TypeOK, Vault
  <2>2. ASSUME NEW w \in Wallets, NEW n \in Amounts, Wrap(w, n)
        PROVE  Whole
    BY <2>1, <2>2, Numbers, FeeForRange DEF Wrap, WrapBooked, Vault
  <2>3. ASSUME NEW w \in Wallets, NEW n \in Amounts, Unwrap(w, n)
        PROVE  Whole
    BY <2>1, <2>3, Numbers, FeeForRange DEF Unwrap, UnwrapBooked, Vault
  <2>4. ASSUME NEW w \in Wallets, NEW t \in AssetOwners, CollectFees(w, t)
        PROVE  Whole
    <3>1. CASE t = VaultPda
      BY <2>4, <3>1, CollectFeesEffect DEF CollectFees, MoveAsset, Transferred
    <3>2. CASE t # VaultPda
      BY <2>1, <2>4, <3>2, CollectFeesEffect
    <3> QED BY <3>1, <3>2
  <2>5. CASE vault' = vault
    BY <2>1, <2>5
  <2> QED BY <2>2, <2>3, <2>4, <2>5
          DEF Next, Program, Environment, InitializeVault, InitializeVaultAccounts,
              IssueAsset, TransferAsset, TransferPToken, BurnPToken, CreatorMints,
              CreatorHandsOver, vars
<1> QED BY <1>1, TypeCorrect, PTL DEF Spec, FeesCollectedWhole
===============================================================================
