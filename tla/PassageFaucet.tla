---------------------------- MODULE PassageFaucet ----------------------------
(***************************************************************************)
(* The demo faucet (programs/passage_demo_faucet) in front of the identity *)
(* registry: a claim issues the caller a credential, through the registry  *)
(* program and at the expense of the faucet's signer PDA, and mints it     *)
(* some of the asset.  The faucet can do either only while that PDA is the *)
(* registry's authority and the asset mint's, and others move both.        *)
(***************************************************************************)
EXTENDS SplToken, Integers

CONSTANTS
  Wallets,          \* the keys that sign for themselves
  FaucetSigner,     \* the signer PDA: only the faucet program signs for it
  NoKey,            \* an absent config or credential account
  NoFaucet,         \* the Faucet account before initialize
  OtherAccount,     \* any account with data that is no credential
  MAX_DRIP,         \* cap on the drip, 10_000_000_000 in the code
  DripChoices,      \* bound: the drips the faucet is set to
  TotalLamports     \* what there is of them, in rents of one account

ASSUME FaucetAssumption ==
  /\ FaucetSigner \notin Wallets
  /\ {NoKey, OtherAccount} \cap (Wallets \cup {FaucetSigner}) = {}
  /\ IsFiniteSet(Wallets)
  /\ MAX_DRIP \in U64
  /\ DripChoices \subseteq Nat
  \* The lamports in existence are a u64.
  /\ TotalLamports \in U64

VARIABLES
  faucet,          \* the Faucet account
  asset,           \* asset balance of each wallet
  assetSupply,     \* supply of the asset mint
  mintAuthority,   \* its mint authority
  config, credential, lamports   \* the identity registry

registry == <<config, credential, lamports>>
mint == <<asset, assetSupply, mintAuthority>>
vars == <<faucet, mint, registry>>

Keys == Wallets \cup {FaucetSigner}

Identity == INSTANCE PassageIdentity WITH
  Accounts <- Keys, Signers <- Keys, InitialLamports <- TotalLamports

ASSUME RegistryAssumption == Identity!IdentityAssumption

\* asset_mint and the bumps never change and are left out.
Faucet == [admin : Wallets, drip_amount : 1 .. MAX_DRIP]

ASSUME NoFaucetAssumption == NoFaucet \notin Faucet

Init ==
  /\ faucet = NoFaucet
  /\ asset = [w \in Wallets |-> 0]
  /\ assetSupply = 0
  /\ mintAuthority \in Wallets
  /\ config = NoKey
  /\ credential = [k \in Keys |-> NoKey]
  /\ lamports \in [Keys -> 0 .. TotalLamports]
  /\ lamports[FaucetSigner] = 0 /\ Total(lamports) = TotalLamports

-------------------------------------------------------------------------------
(* Instructions *)

ValidDrip(drip_amount) == 0 < drip_amount /\ drip_amount <= MAX_DRIP

\* has_one = admin on the Faucet account.
IsAdmin(admin) == faucet # NoFaucet /\ faucet.admin = admin

\* Mutant: the signer PDA pays for the account.
InitializePaidBySigner(admin, drip_amount) ==
  /\ faucet = NoFaucet
  /\ ValidDrip(drip_amount)
  /\ Identity!PayRent(FaucetSigner)
  /\ faucet' = [admin |-> admin, drip_amount |-> drip_amount]
  /\ UNCHANGED <<mint, config, credential>>

\* Whoever is first becomes the admin, and pays for the account.
Initialize(admin, drip_amount) ==
  /\ faucet = NoFaucet
  /\ ValidDrip(drip_amount)
  /\ Identity!PayRent(admin)
  /\ faucet' = [admin |-> admin, drip_amount |-> drip_amount]
  /\ UNCHANGED <<mint, config, credential>>

\* Mutant: the new drip is not capped.
SetDripAmountUncapped(admin, drip_amount) ==
  /\ IsAdmin(admin)
  /\ drip_amount > 0
  /\ faucet' = [faucet EXCEPT !.drip_amount = drip_amount]
  /\ UNCHANGED <<mint, registry>>

SetDripAmount(admin, drip_amount) ==
  /\ IsAdmin(admin)
  /\ ValidDrip(drip_amount)
  /\ faucet' = [faucet EXCEPT !.drip_amount = drip_amount]
  /\ UNCHANGED <<mint, registry>>

\* The registry's set_authority, signed for by the signer PDA.
SetIdentityAuthority(admin, new_authority) ==
  /\ IsAdmin(admin)
  /\ Identity!SetAuthority(FaucetSigner, new_authority)
  /\ UNCHANGED <<faucet, mint>>

\* data_is_empty of the account passed as the credential.
DataIsEmpty(passed) == passed \in Keys /\ credential[passed] = NoKey

\* Mutant: the credential is issued for the account passed, not the caller.
EnsureVerifiedPassed(user, passed) ==
  \/ DataIsEmpty(passed) /\ Identity!VerifyWallet(FaucetSigner, passed)
  \/ ~DataIsEmpty(passed) /\ UNCHANGED registry

\* The faucet does not derive the credential's address itself.  An empty
\* account goes to verify_wallet, which accepts only the PDA of the wallet it
\* verifies; an account with data ends the matter.
EnsureVerified(user, passed) ==
  \/ /\ DataIsEmpty(passed)
     /\ passed = user
     /\ Identity!VerifyWallet(FaucetSigner, user)
  \/ ~DataIsEmpty(passed) /\ UNCHANGED registry

\* What a claim asks of the faucet, the mint and the caller's account.
CanDrip(user) ==
  /\ faucet # NoFaucet
  /\ mintAuthority = FaucetSigner
  /\ CanMint(asset, assetSupply, user, faucet.drip_amount)

Claim(user, passed) ==
  /\ CanDrip(user)
  /\ EnsureVerified(user, passed)
  /\ asset' = Minted(asset, user, faucet.drip_amount)
  /\ assetSupply' = assetSupply + faucet.drip_amount
  /\ UNCHANGED <<faucet, mintAuthority>>

-------------------------------------------------------------------------------
(* What others do *)

\* Wallets call the registry themselves.
RegistryStep ==
  /\ \E w \in Wallets :
       \/ Identity!Initialize(w)
       \/ \E k \in Keys : \/ Identity!VerifyWallet(w, k)
                          \/ Identity!RevokeWallet(w, k)
                          \/ Identity!SetAuthority(w, k)
  /\ UNCHANGED <<faucet, mint>>

\* The mint authority issues the asset, or hands the mint on.
IssueAsset(issuer, to, amount) ==
  /\ mintAuthority = issuer
  /\ CanMint(asset, assetSupply, to, amount)
  /\ asset' = Minted(asset, to, amount)
  /\ assetSupply' = assetSupply + amount
  /\ UNCHANGED <<faucet, mintAuthority, registry>>

HandOverMint(issuer, key) ==
  /\ mintAuthority = issuer
  /\ mintAuthority' = key
  /\ UNCHANGED <<faucet, asset, assetSupply, registry>>

\* A wallet funds the signer PDA.
FundSigner(w) ==
  /\ \E n \in 1 .. lamports[w] :
       lamports' = [lamports EXCEPT ![w] = @ - n, ![FaucetSigner] = @ + n]
  /\ UNCHANGED <<faucet, mint, config, credential>>

Next ==
  \/ \E w \in Wallets, d \in DripChoices : Initialize(w, d) \/ SetDripAmount(w, d)
  \/ \E w \in Wallets, k \in Keys : SetIdentityAuthority(w, k)
  \/ \E w \in Wallets, k \in Keys \cup {OtherAccount} : Claim(w, k)
  \/ RegistryStep
  \/ \E v, w \in Wallets, d \in DripChoices : IssueAsset(v, w, d)
  \/ \E w \in Wallets, k \in Keys : HandOverMint(w, k)
  \/ \E w \in Wallets : FundSigner(w)

Spec == Init /\ [][Next]_vars

-------------------------------------------------------------------------------
(* Properties *)

TypeOK ==
  /\ faucet \in Faucet \cup {NoFaucet}
  /\ asset \in [Wallets -> U64]
  /\ assetSupply \in U64
  /\ mintAuthority \in Keys
  /\ Identity!TypeOK

(* While the faucet is in charge, a wallet becomes verified only in a step  *)
(* that also pays it its drip: nobody is verified on behalf of another      *)
(* (claim, lib.rs:74-112; tests/faucet.ts:176-178 "the faucet did not       *)
(* quietly verify anyone it wasn't asked to").                             *)
VerifiedWithDripOnly ==
  [][config = FaucetSigner =>
       \A k \in Identity!Live' \ Identity!Live :
         k \in Wallets /\ asset'[k] = asset[k] + faucet.drip_amount]_vars

(* What the signer PDA owns, which anybody's claim can spend, buys          *)
(* credentials for newcomers and nothing else: each step that takes from it*)
(* takes one rent and gives a wallet that had none its credential and its  *)
(* drip.  Top-ups, the admin and a registry that is elsewhere cost it      *)
(* nothing (lib.rs:80-94, 161: anybody may make it pay).                   *)
SignerPaysForNewcomers ==
  [][lamports'[FaucetSigner] < lamports[FaucetSigner] =>
       /\ lamports'[FaucetSigner] = lamports[FaucetSigner] - 1
       /\ \E w \in Wallets :
            /\ credential[w] = NoKey /\ credential'[w] = w
            /\ asset'[w] = asset[w] + faucet.drip_amount]_vars

(* The faucet mints at most MAX_DRIP at a time, however often the admin     *)
(* changed the drip (lib.rs:23 "so a misconfigured faucet can't mint absurd*)
(* amounts").                                                              *)
DripsCapped ==
  [][mintAuthority = FaucetSigner => assetSupply' - assetSupply <= MAX_DRIP]_vars

(* Rents only change hands: what the signer PDA spent on credentials is in  *)
(* them or with the authority that revoked them, never lost.               *)
RentConserved ==
  LET accounts == Cardinality(Identity!Live)
                    + (IF config = NoKey THEN 0 ELSE 1)
                    + (IF faucet = NoFaucet THEN 0 ELSE 1)
  IN  Total(lamports) + accounts = TotalLamports

(* What makes RentConserved inductive, nobody having more lamports than     *)
(* there are; and every unit of the asset is in some wallet.               *)
Inductive ==
  /\ TypeOK
  /\ lamports \in [Keys -> U64]
  /\ Total(asset) = assetSupply
  /\ RentConserved

(* "Verify the caller (if they aren't already) and mint them test tokens."  *)
(* (lib.rs:73): whoever the faucet pays holds a credential afterwards.      *)
PaidMeansVerified ==
  [][mintAuthority = FaucetSigner =>
       \A w \in Wallets : asset'[w] > asset[w] => credential'[w] # NoKey]_vars
===============================================================================
