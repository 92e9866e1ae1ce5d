----------------------------- MODULE PassageHook -----------------------------
(***************************************************************************)
(* The transfer hook (programs/passage_hook).  Token-2022 calls it at the  *)
(* end of every transfer of the pToken, with the accounts that the         *)
(* ExtraAccountMetaList of the mint prescribes; if the list or one of the  *)
(* accounts is missing, or the hook refuses, the transfer fails.  The hook *)
(* only reads: its one state is whether the list exists.                   *)
(***************************************************************************)
CONSTANT NoKey       \* "no such account", as in PassageIdentity

VARIABLES
  metaList,    \* the ExtraAccountMetaList PDA of the pToken mint exists
  credential   \* the registry's credential PDAs, by the key they derive from

Init == metaList = FALSE

\* create_account fails on an account that is there: at most once.
InitializeExtraAccountMetaList ==
  /\ ~metaList
  /\ metaList' = TRUE

-------------------------------------------------------------------------------
\* The list prescribes the credential PDA of the destination account's owner
\* (whoever the source's owner is), and the hook compares what it finds there.
ResolvedCredential(dest_owner) == credential[dest_owner]

\* Mutant: the credential of the sender is asked for.
TransferHookOfSource(source_owner, dest_owner) ==
  /\ metaList
  /\ ResolvedCredential(source_owner) = source_owner

TransferHook(source_owner, dest_owner) ==
  /\ metaList
  /\ ResolvedCredential(dest_owner) # NoKey
  /\ ResolvedCredential(dest_owner) = dest_owner
===============================================================================
