--------------------------- MODULE PassageIdentity ---------------------------
(***************************************************************************)
(* The identity registry (programs/passage_identity): one authority issues *)
(* and revokes the credential PDAs that the transfer hook reads, and may   *)
(* hand the registry over.  Each instruction is one action; the rent of a  *)
(* credential is part of it, because Anchor's init takes it from the       *)
(* signing authority and close gives it to the authority of the day.       *)
(* issued_at and the bumps are written once and read by nobody: left out.  *)
(***************************************************************************)
EXTENDS Integers, FiniteSets

CONSTANTS
  Accounts,         \* the keys a credential can be issued to
  Signers,          \* the keys that can sign for themselves
  NoKey,            \* "no such account": config or credential PDA not there
  InitialLamports   \* what each signer owns, in rents of one account

\* What a module that instantiates this one has to assume.
IdentityAssumption ==
  /\ Signers \subseteq Accounts
  /\ NoKey \notin Accounts
  /\ InitialLamports \in Nat

VARIABLES
  config,       \* Config.authority, NoKey before initialize
  credential,   \* Credential.wallet in the PDA derived from each key
  lamports      \* what each signer has left

vars == <<config, credential, lamports>>

Init ==
  /\ config = NoKey
  /\ credential = [k \in Accounts |-> NoKey]
  /\ lamports = [s \in Signers |-> InitialLamports]

Live == {k \in Accounts : credential[k] # NoKey}

-------------------------------------------------------------------------------
(* Rent: one unit an account *)

PayRent(payer) ==
  /\ lamports[payer] > 0
  /\ lamports' = [lamports EXCEPT ![payer] = @ - 1]

RefundRent(receiver) == lamports' = [lamports EXCEPT ![receiver] = @ + 1]

-------------------------------------------------------------------------------
(* Instructions *)

\* has_one = authority on the config account.
IsAuthority(authority) == config = authority

\* Whoever is first becomes the authority.
Initialize(authority) ==
  /\ config = NoKey
  /\ PayRent(authority)
  /\ config' = authority
  /\ UNCHANGED credential

\* Mutant: the credential names the authority that issued it.
VerifyWalletAsIssuer(authority, wallet) ==
  /\ IsAuthority(authority)
  /\ credential[wallet] = NoKey
  /\ PayRent(authority)
  /\ credential' = [credential EXCEPT ![wallet] = authority]
  /\ UNCHANGED config

VerifyWallet(authority, wallet) ==
  /\ IsAuthority(authority)
  /\ credential[wallet] = NoKey             \* init: fails if it exists
  /\ PayRent(authority)
  /\ credential' = [credential EXCEPT ![wallet] = wallet]
  /\ UNCHANGED config

\* Mutant: the PDA is emptied but its rent is not returned.
RevokeWalletKeepingRent(authority, wallet) ==
  /\ IsAuthority(authority)
  /\ credential[wallet] # NoKey
  /\ credential' = [credential EXCEPT ![wallet] = NoKey]
  /\ UNCHANGED <<config, lamports>>

RevokeWallet(authority, wallet) ==
  /\ IsAuthority(authority)
  /\ credential[wallet] # NoKey
  /\ RefundRent(authority)
  /\ credential' = [credential EXCEPT ![wallet] = NoKey]
  /\ UNCHANGED config

\* Mutant: has_one = authority is missing.
SetAuthorityByAnyone(authority, new_authority) ==
  /\ config # NoKey
  /\ config' = new_authority
  /\ UNCHANGED <<credential, lamports>>

\* The new authority need not sign: the handover may be to any key.
SetAuthority(authority, new_authority) ==
  /\ IsAuthority(authority)
  /\ config' = new_authority
  /\ UNCHANGED <<credential, lamports>>

Next ==
  \E s \in Signers :
    \/ Initialize(s)
    \/ \E k \in Accounts :
         VerifyWallet(s, k) \/ RevokeWallet(s, k) \/ SetAuthority(s, k)

Spec == Init /\ [][Next]_vars

-------------------------------------------------------------------------------
(* Properties *)

TypeOK ==
  /\ config \in Accounts \cup {NoKey}
  /\ credential \in [Accounts -> Accounts \cup {NoKey}]
  /\ lamports \in [Signers -> Nat]

(* A credential found at the address derived from a key is that key's: the  *)
(* hook derives the address and then compares the wallet written inside    *)
(* (passage_hook lib.rs:36-50 and 101-104), so one that disagreed would    *)
(* shut out a verified wallet.                                             *)
CredentialNamesItsWallet == \A k \in Live : credential[k] = k

(* Only the authority of the moment pays for a credential or is paid for    *)
(* one, however often the registry changed hands; and a registry handed to *)
(* a key that nobody signs for stays as it is: no credential comes or goes *)
(* any more, and nobody takes it back.                                     *)
OnlyAuthorityActs ==
  [][/\ \A s \in Signers :
          lamports'[s] # lamports[s] => config \in {NoKey, s}
     /\ config \notin Signers \cup {NoKey} =>
          UNCHANGED <<config, credential>>]_vars

(* However often credentials are issued and revoked, and by however many    *)
(* authorities in turn, every rent paid is in an account that exists or    *)
(* back with a signer: none is paid twice, refunded twice or lost.         *)
RentConserved ==
  LET owned == {u \in Signers \X (1 .. InitialLamports * Cardinality(Signers)) :
                  u[2] <= lamports[u[1]]}
      config_rent == IF config = NoKey THEN 0 ELSE 1
  IN  Cardinality(owned) + Cardinality(Live) + config_rent =
        InitialLamports * Cardinality(Signers)
===============================================================================
