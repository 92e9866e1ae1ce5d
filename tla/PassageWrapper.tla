---------------------------- MODULE PassageWrapper ----------------------------
(***************************************************************************)
(* The vault program (programs/passage_wrapper): wallets deposit an asset  *)
(* and receive pTokens, hand pTokens back for the asset, and the vault     *)
(* authority collects the fees.                                            *)
(*                                                                         *)
(* One instruction is one transaction: it commits as a whole or leaves     *)
(* nothing behind, so each instruction is one action and every require!,   *)
(* failed CPI or panic is a conjunct of its guard.  One asset is modelled: *)
(* the vault PDA, the token accounts and the pToken mint of two assets     *)
(* have no account in common.  Around the program, the asset's issuer, the *)
(* creator of the pToken mint and the wallets act on the token programs    *)
(* directly.  A pToken transfer may happen between any two wallets here;   *)
(* which ones the transfer hook lets through is PassageGate's business.    *)
(***************************************************************************)
EXTENDS SplToken, Integers

CONSTANTS
  Wallets,        \* the owners that sign for themselves
  VaultPda,       \* the vault PDA, owner of the vault's asset account
  NoVault,        \* the vault account before initialize_vault
  BPS,            \* the basis-point denominator, 10_000 in the code
  MAX_FEE_BPS,    \* cap on the fee, 500 in the code
  FeeChoices,     \* bound: the fees initialize_vault is called with
  Amounts,        \* bound: the amounts instructions are called with
  Decimals,       \* decimals the creator of the pToken mint may give it
  AssetDecimals,  \* decimals of the asset mint
  AssetFeeBps,    \* transfer fee of a Token-2022 asset mint, 0 for most
  FreshPMint      \* the pToken mint is created with the vault as authority

ASSUME WrapperAssumption ==
  /\ IsFiniteSet(Wallets)
  /\ VaultPda \notin Wallets
  /\ BPS \in Nat \ {0}
  /\ MAX_FEE_BPS \in 0 .. BPS
  /\ FeeChoices \subseteq Nat
  /\ Amounts \subseteq U64
  /\ AssetFeeBps \in 0 .. BPS
  /\ FreshPMint \in BOOLEAN

VARIABLES
  vault,        \* the Vault account
  asset,        \* asset balance of each owner
  assetSupply,  \* supply of the asset mint
  pToken,       \* pToken balance of each wallet
  pMint         \* the pToken mint: authority, decimals, supply

vars == <<vault, asset, assetSupply, pToken, pMint>>

AssetOwners == Wallets \cup {VaultPda}

\* asset_mint, p_mint and bump never change and are left out.
Vault == [authority : Wallets, fee_bps : 0 .. MAX_FEE_BPS,
          total_wrapped : U64, accrued_fees : U64]

ASSUME NoVaultAssumption == NoVault \notin Vault

PMint == [authority : AssetOwners, decimals : Decimals, supply : U64]

Init ==
  /\ vault = NoVault
  /\ asset = [o \in AssetOwners |-> 0]
  /\ assetSupply = 0
  /\ pToken = [w \in Wallets |-> 0]
  /\ pMint \in [authority : IF FreshPMint THEN {VaultPda} ELSE AssetOwners,
                decimals : Decimals, supply : {0}]

-------------------------------------------------------------------------------
(* Fees and bookkeeping *)

FeeFor(amount, fee_bps) == (amount * fee_bps) \div BPS

\* Token-2022 rounds the fee of a transfer-fee mint up.
AssetReceived(amount) ==
  amount - (amount * AssetFeeBps + BPS - 1) \div BPS

\* Mutants: the gross amount is recorded; the fee replaces the fees so far.
WrapBookedGross(net, fee) ==
  [vault EXCEPT !.total_wrapped = @ + net + fee, !.accrued_fees = @ + fee]

WrapBookedLastFee(net, fee) ==
  [vault EXCEPT !.total_wrapped = @ + net, !.accrued_fees = fee]

WrapBooked(net, fee) ==
  [vault EXCEPT !.total_wrapped = @ + net, !.accrued_fees = @ + fee]

\* Mutants: the fee is deducted from both counters; the fee is not recorded.
UnwrapBookedTwice(amount, fee) ==
  [vault EXCEPT !.total_wrapped = @ - amount - fee, !.accrued_fees = @ + fee]

UnwrapBookedFree(amount, fee) == [vault EXCEPT !.total_wrapped = @ - amount]

UnwrapBooked(amount, fee) ==
  [vault EXCEPT !.total_wrapped = @ - amount, !.accrued_fees = @ + fee]

\* Mutant: the counter is not reset after a collection.
FeesCollectedKept == vault

FeesCollectedBooked == [vault EXCEPT !.accrued_fees = 0]

-------------------------------------------------------------------------------
(* The asset moves, and pTokens are minted and burned, by CPI *)

CanMoveAsset(from, to, amount) ==
  CanTransfer(asset, from, to, amount, AssetReceived(amount))

MoveAsset(from, to, amount) ==
  asset' = Transferred(asset, from, to, amount, AssetReceived(amount))

MintP(authority, to, amount) ==
  /\ pMint.authority = authority
  /\ CanMint(pToken, pMint.supply, to, amount)
  /\ pToken' = Minted(pToken, to, amount)
  /\ pMint' = [pMint EXCEPT !.supply = @ + amount]

BurnP(from, amount) ==
  /\ CanBurn(pToken, pMint.supply, from, amount)
  /\ pToken' = Burned(pToken, from, amount)
  /\ pMint' = [pMint EXCEPT !.supply = @ - amount]

-------------------------------------------------------------------------------
(* What the account constraints of each instruction ask of the state.  The  *)
(* mints and token accounts they tie together are one of each here.        *)

InitializeVaultAccounts == vault = NoVault    \* init of the vault PDA
WrapAccounts == vault # NoVault
UnwrapAccounts == vault # NoVault
CollectFeesAccounts(authority) ==
  /\ vault # NoVault
  /\ vault.authority = authority              \* has_one = authority

-------------------------------------------------------------------------------
(* Instructions *)

\* Mutant: the fee is not capped.
InitializeVaultUncapped(authority, fee_bps) ==
  /\ InitializeVaultAccounts
  /\ pMint.authority = VaultPda
  /\ pMint.decimals = AssetDecimals
  /\ vault' = [authority |-> authority, fee_bps |-> fee_bps,
               total_wrapped |-> 0, accrued_fees |-> 0]
  /\ UNCHANGED <<asset, assetSupply, pToken, pMint>>

InitializeVault(authority, fee_bps) ==
  /\ InitializeVaultAccounts
  /\ fee_bps <= MAX_FEE_BPS
  /\ pMint.authority = VaultPda
  /\ pMint.decimals = AssetDecimals
  /\ vault' = [authority |-> authority, fee_bps |-> fee_bps,
               total_wrapped |-> 0, accrued_fees |-> 0]
  /\ UNCHANGED <<asset, assetSupply, pToken, pMint>>

Wrap(user, amount) ==
  /\ WrapAccounts
  /\ amount > 0
  /\ LET fee == FeeFor(amount, vault.fee_bps)
         net == amount - fee
     IN  /\ CanMoveAsset(user, VaultPda, amount)
         /\ MoveAsset(user, VaultPda, amount)
         /\ MintP(VaultPda, user, net)
         /\ vault.total_wrapped + net <= MaxU64
         /\ vault.accrued_fees + fee <= MaxU64
         /\ vault' = WrapBooked(net, fee)
  /\ UNCHANGED assetSupply

\* Every check an unwrap passes, its CPIs' and its checked arithmetic's included.
CanUnwrap(user, amount) ==
  /\ UnwrapAccounts
  /\ amount > 0
  /\ LET fee == FeeFor(amount, vault.fee_bps)
     IN  /\ CanBurn(pToken, pMint.supply, user, amount)
         /\ CanMoveAsset(VaultPda, user, amount - fee)
         /\ amount <= vault.total_wrapped
         /\ vault.accrued_fees + fee <= MaxU64

Unwrap(user, amount) ==
  /\ CanUnwrap(user, amount)
  /\ LET fee == FeeFor(amount, vault.fee_bps)
     IN  /\ BurnP(user, amount)
         /\ MoveAsset(VaultPda, user, amount - fee)
         /\ vault' = UnwrapBooked(amount, fee)
  /\ UNCHANGED assetSupply

\* The treasury is any account of the asset, the vault's own not excepted.
CollectFees(authority, treasury) ==
  /\ CollectFeesAccounts(authority)
  /\ vault.accrued_fees > 0
  /\ CanMoveAsset(VaultPda, treasury, vault.accrued_fees)
  /\ MoveAsset(VaultPda, treasury, vault.accrued_fees)
  /\ vault' = FeesCollectedBooked
  /\ UNCHANGED <<assetSupply, pToken, pMint>>

-------------------------------------------------------------------------------
(* What others do with the same mints and accounts, without this program *)

\* The issuer puts more of the asset into circulation.
IssueAsset(to, amount) ==
  /\ CanMint(asset, assetSupply, to, amount)
  /\ asset' = Minted(asset, to, amount)
  /\ assetSupply' = assetSupply + amount
  /\ UNCHANGED <<vault, pToken, pMint>>

\* A wallet sends the asset to a wallet, or to the vault's account.
TransferAsset(from, to, amount) ==
  /\ to = VaultPda => vault # NoVault       \* the account exists since then
  /\ CanMoveAsset(from, to, amount)
  /\ MoveAsset(from, to, amount)
  /\ UNCHANGED <<vault, assetSupply, pToken, pMint>>

TransferPToken(from, to, amount) ==
  /\ CanTransfer(pToken, from, to, amount, amount)
  /\ pToken' = Transferred(pToken, from, to, amount, amount)
  /\ UNCHANGED <<vault, asset, assetSupply, pMint>>

\* A holder burns its own pTokens: the assets behind them stay.
BurnPToken(holder, amount) ==
  /\ BurnP(holder, amount)
  /\ UNCHANGED <<vault, asset, assetSupply>>

\* Until the mint is handed to the vault, its creator mints as it likes.
CreatorMints(creator, to, amount) ==
  /\ MintP(creator, to, amount)
  /\ UNCHANGED <<vault, asset, assetSupply>>

CreatorHandsOver(creator) ==
  /\ pMint.authority = creator
  /\ pMint' = [pMint EXCEPT !.authority = VaultPda]
  /\ UNCHANGED <<vault, asset, assetSupply, pToken>>

-------------------------------------------------------------------------------
Program ==
  \/ \E w \in Wallets, bps \in FeeChoices : InitializeVault(w, bps)
  \/ \E w \in Wallets, n \in Amounts : Wrap(w, n)
  \/ \E w \in Wallets, n \in Amounts : Unwrap(w, n)
  \/ \E w \in Wallets, o \in AssetOwners : CollectFees(w, o)

Environment ==
  \/ \E w \in Wallets, n \in Amounts : IssueAsset(w, n)
  \/ \E w \in Wallets, o \in AssetOwners, n \in Amounts : TransferAsset(w, o, n)
  \/ \E v, w \in Wallets, n \in Amounts : TransferPToken(v, w, n)
  \/ \E w \in Wallets, n \in Amounts : BurnPToken(w, n)
  \/ \E v, w \in Wallets, n \in Amounts : CreatorMints(v, w, n)
  \/ \E w \in Wallets : CreatorHandsOver(w)

Next == Program \/ Environment

Spec == Init /\ [][Next]_vars

-------------------------------------------------------------------------------
(* Properties *)

\* Every amount fits the field it is kept in.
TypeOK ==
  /\ vault \in Vault \cup {NoVault}
  /\ asset \in [AssetOwners -> U64]
  /\ assetSupply \in U64
  /\ pToken \in [Wallets -> U64]
  /\ pMint \in PMint

(* The vault's asset account always covers both what the vault records as   *)
(* wrapped and the fees it records as collectable, whatever sequence of     *)
(* wraps, unwraps and collections led here (lib.rs: total_wrapped and       *)
(* accrued_fees are counted apart from the account they are paid from).    *)
Solvent ==
  vault # NoVault =>
    asset[VaultPda] >= vault.total_wrapped + vault.accrued_fees

(* No pToken exists that the vault has not recorded as wrapped, so the      *)
(* checked_sub of an unwrap never refuses a holder (lib.rs:141).           *)
Backed ==
  pMint.supply <= IF vault = NoVault THEN 0 ELSE vault.total_wrapped

(* Any holder can unwrap any part of its balance right now: neither the     *)
(* burn, the payout nor the checked arithmetic after them fails, whoever    *)
(* unwrapped or collected before.                                          *)
Redeemable ==
  vault # NoVault =>
    \A w \in Wallets : \A n \in 1 .. pToken[w] : CanUnwrap(w, n)

(* Every unit of both mints is in some account: nothing is minted or burned *)
(* beside the supplies (the ledgers are the token programs', the supplies  *)
(* bound the balances of any two accounts together).                       *)
Circulation == Total(asset) = assetSupply /\ Total(pToken) = pMint.supply

(* What makes Solvent, Backed and Redeemable inductive: the vault is the    *)
(* pToken mint's authority from the first moment a pToken can exist.       *)
Inductive ==
  /\ TypeOK
  /\ vault # NoVault \/ FreshPMint => pMint.authority = VaultPda
  /\ Solvent
  /\ FreshPMint => Backed
  /\ Circulation

(* The vault's account loses no more in a step than the claims burned plus  *)
(* the recorded fees taken out in that step.                               *)
CustodyOnlyPaysClaims ==
  [][vault # NoVault =>
       asset[VaultPda] - asset'[VaultPda] <=
         (pMint.supply - pMint'.supply)
           + (vault.accrued_fees - vault'.accrued_fees)]_vars

(* Recorded revenue never just disappears: accrued_fees falls only to zero, *)
(* and either all of it leaves the vault's account for somebody's account, *)
(* or, the treasury being the vault's own account, which lib.rs:290-291    *)
(* accept, not a unit moves and the fees stay with the vault, in no        *)
(* counter (lib.rs:152-178).                                               *)
FeesCollectedWhole ==
  [][vault # NoVault /\ vault'.accrued_fees < vault.accrued_fees =>
       /\ vault'.accrued_fees = 0
       /\ \/ asset[VaultPda] - asset'[VaultPda] = vault.accrued_fees
          \/ asset' = asset]_vars

(* The vault is a full-reserve institution: custody is its asset account,   *)
(* the claims are the pTokens in existence, the revenue is accrued_fees.   *)
Reserve == INSTANCE FullReserve WITH
  MaxAmount <- MaxU64,
  custody <- asset[VaultPda],
  issued <- pMint.supply,
  revenue <- IF vault = NoVault THEN 0 ELSE vault.accrued_fees

ReserveSpec == Reserve!Spec
===============================================================================
