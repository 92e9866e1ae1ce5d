----------------------------- MODULE PassageGate -----------------------------
(***************************************************************************)
(* The permissioned pToken: the vault program, the identity registry and   *)
(* the transfer hook on one ledger.  The vault mints and burns pTokens     *)
(* without the hook being asked (Token-2022 calls it on transfers only);   *)
(* every transfer between wallets goes through it; and the registry moves  *)
(* under both, at any time and in any order.                               *)
(***************************************************************************)
EXTENDS Integers, FiniteSets

CONSTANTS
  Wallets, VaultPda, NoVault, BPS, MAX_FEE_BPS, FeeChoices, Amounts,
  Decimals, AssetDecimals, AssetFeeBps, FreshPMint, MaxU64,   \* PassageWrapper
  Signers, NoKey, InitialLamports                            \* PassageIdentity

VARIABLES
  vault, asset, assetSupply, pToken, pMint,   \* the vault program
  config, credential, lamports,               \* the identity registry
  metaList                                    \* the transfer hook

\* Any wallet can be verified; the vault PDA stands for the keys that nobody
\* signs for, which can be given a credential or the registry all the same.
Wrapper == INSTANCE PassageWrapper
Identity == INSTANCE PassageIdentity WITH Accounts <- Wallets \cup {VaultPda}
Hook == INSTANCE PassageHook

ASSUME GateAssumption ==
  /\ Wrapper!MaxU64Assumption /\ Wrapper!WrapperAssumption
  /\ Wrapper!NoVaultAssumption
  /\ Identity!IdentityAssumption
  /\ Signers = Wallets

wrapperVars == <<vault, asset, assetSupply, pToken, pMint>>
identityVars == <<config, credential, lamports>>
vars == <<wrapperVars, identityVars, metaList>>

Init == Wrapper!Init /\ Identity!Init /\ Hook!Init

-------------------------------------------------------------------------------
\* Wrapping, unwrapping and collecting read no credential.
VaultStep ==
  /\ Wrapper!Program
  /\ UNCHANGED <<identityVars, metaList>>

RegistryStep ==
  /\ Identity!Next
  /\ UNCHANGED <<wrapperVars, metaList>>

HookStep ==
  /\ Hook!InitializeExtraAccountMetaList
  /\ UNCHANGED <<wrapperVars, identityVars>>

\* Mutant: the hook is asked about every transfer except the smallest.
TransferPTokenDust(from, to, amount) ==
  /\ amount = 1 \/ Hook!TransferHook(from, to)
  /\ Wrapper!TransferPToken(from, to, amount)
  /\ UNCHANGED <<identityVars, metaList>>

\* A transfer between two accounts commits only if the hook accepts it.
\* (To the same account Token-2022 returns early: nothing happens.)
TransferPToken(from, to, amount) ==
  /\ Hook!TransferHook(from, to)
  /\ Wrapper!TransferPToken(from, to, amount)
  /\ UNCHANGED <<identityVars, metaList>>

\* Holders burn, the asset circulates and the creator of the pToken mint
\* issues some and hands the mint over, all without either program.
OutsideStep ==
  /\ \/ \E w \in Wallets, n \in Amounts :
          Wrapper!IssueAsset(w, n) \/ Wrapper!BurnPToken(w, n)
     \/ \E v, w \in Wallets, n \in Amounts : Wrapper!TransferAsset(v, w, n)
     \/ \E v, w \in Wallets, n \in Amounts : Wrapper!CreatorMints(v, w, n)
     \/ \E w \in Wallets : Wrapper!CreatorHandsOver(w)
  /\ UNCHANGED <<identityVars, metaList>>

Next ==
  \/ VaultStep
  \/ RegistryStep
  \/ HookStep
  \/ \E v, w \in Wallets, n \in Amounts : TransferPToken(v, w, n)
  \/ OutsideStep

Spec == Init /\ [][Next]_vars

-------------------------------------------------------------------------------
(* Properties *)

Verified(w) == credential[w] # NoKey

TypeOK == Wrapper!TypeOK /\ Identity!TypeOK /\ metaList \in BOOLEAN

(* However often credentials are issued and revoked, and by however many    *)
(* authorities in turn, every rent paid is in an account that exists or    *)
(* back with a signer (passage_identity lib.rs:69-101).                    *)
RentConserved == Identity!RentConserved

(* What makes the others inductive: a vault is the authority of its pToken  *)
(* mint, no signer has more lamports than there are, and a credential names *)
(* the key its address is derived from, which the hook compares.           *)
Inductive ==
  /\ TypeOK
  /\ vault # NoVault => pMint.authority = VaultPda
  /\ \A s \in Signers : lamports[s] <= InitialLamports * Cardinality(Signers)
  /\ Identity!CredentialNamesItsWallet
  /\ RentConserved

(* Only the registry's authority of the moment pays for a credential or is  *)
(* paid for one, however often the registry changed hands; once it is with *)
(* a key that nobody signs for, neither it nor a credential changes        *)
(* (has_one = authority, passage_identity lib.rs:63-101).                  *)
OnlyAuthorityActs == Identity!OnlyAuthorityActs

(* The pTokens a wallet gains in a step that mints none came to it while it *)
(* held a credential: a revocation closes the way in at once, whatever the *)
(* registry's authority, the sender or earlier transfers were (hook        *)
(* lib.rs:86-104 asks about the receiver as of the transfer).              *)
GatedReceipt ==
  [][\A w \in Wallets :
       pToken'[w] > pToken[w] /\ pMint'.supply <= pMint.supply
         => metaList /\ Verified(w)]_vars

(* Once there is a vault, a pToken reaches a wallet without a credential    *)
(* only if that wallet paid for it with its own asset in the same step     *)
(* (wrap mints past the hook).                                             *)
UnverifiedOnlyByWrapping ==
  [][vault # NoVault =>
       \A w \in Wallets :
         pToken'[w] > pToken[w] /\ ~Verified(w)
           => asset[w] - asset'[w] >= pToken'[w] - pToken[w]]_vars

(* "only moves between verified wallets" (passage_wrapper lib.rs:4-5): what  *)
(* the documents say.  The hook enforces it of the receiver only.          *)
OnlyBetweenVerified ==
  [][\A v, w \in Wallets :
       pToken'[v] < pToken[v] /\ pToken'[w] > pToken[w]
         => Verified(v) /\ Verified(w)]_vars
===============================================================================
