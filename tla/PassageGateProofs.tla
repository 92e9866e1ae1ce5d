-------------------------- MODULE PassageGateProofs --------------------------
(***************************************************************************)
(* Proofs about the permissioned pToken: vault, registry and hook together, *)
(* for every set of wallets, fee, amount, rent and width of u64.           *)
(***************************************************************************)
EXTENDS PassageGate, FiniteSetTheorems, TLAPS

-------------------------------------------------------------------------------
(* The parts do not disturb each other *)

(* Every step of the composition is a step of the vault's specification or  *)
(* leaves the vault alone, and the same for the registry; the account list *)
(* stays once it is there.                                                 *)
LEMMA StepOfParts ==
  ASSUME [Next]_vars
  PROVE  /\ [Wrapper!Next]_(Wrapper!vars)
         /\ [Identity!Next]_(Identity!vars)
         /\ metaList' = metaList \/ metaList' = TRUE
<1> USE DEF identityVars, wrapperVars, Wrapper!vars, Identity!vars
<1>1. CASE VaultStep
  BY <1>1 DEF VaultStep, Wrapper!Next
<1>2. CASE RegistryStep
  BY <1>2 DEF RegistryStep
<1>3. CASE HookStep
  BY <1>3 DEF HookStep, Hook!InitializeExtraAccountMetaList
<1>4. ASSUME NEW v \in Wallets, NEW w \in Wallets, NEW n \in Amounts,
             TransferPToken(v, w, n)
      PROVE  /\ Wrapper!Next
             /\ UNCHANGED <<identityVars, metaList>>
  BY <1>4 DEF TransferPToken, Wrapper!Next, Wrapper!Environment
<1>5. CASE OutsideStep
  <2>1. Wrapper!Environment
    BY <1>5 DEF OutsideStep, Wrapper!Environment, Wrapper!AssetOwners
  <2> QED BY <1>5, <2>1 DEF OutsideStep, Wrapper!Next
<1>6. CASE UNCHANGED vars
  BY <1>6 DEF vars
<1> QED BY <1>1, <1>2, <1>3, <1>4, <1>5, <1>6 DEF Next

(* The vault program behaves behind the hook and beside the registry as its *)
(* own specification says: what PassageWrapperProofs shows of that one     *)
(* holds here.                                                             *)
THEOREM ImplementsVault == Spec => Wrapper!Spec
<1>1. Init => Wrapper!Init
  BY DEF Init
<1>2. [Next]_vars => [Wrapper!Next]_(Wrapper!vars)
  BY StepOfParts
<1> QED BY <1>1, <1>2, PTL DEF Spec, Wrapper!Spec

WrapperProofs == INSTANCE PassageWrapperProofs

\* The vault of the theorems is the vault of the composition.
LEMMA SameVault ==
  /\ WrapperProofs!Init <=> Wrapper!Init
  /\ WrapperProofs!Next <=> Wrapper!Next
  /\ WrapperProofs!vars = Wrapper!vars
<1>1. WrapperProofs!Init <=> Wrapper!Init
  BY DEF Wrapper!Init, WrapperProofs!Init, Wrapper!AssetOwners,
         WrapperProofs!AssetOwners
<1>2. WrapperProofs!Program <=> Wrapper!Program
  BY DEF Wrapper!Program, WrapperProofs!Program, Wrapper!InitializeVault,
         WrapperProofs!InitializeVault, Wrapper!InitializeVaultAccounts,
         WrapperProofs!InitializeVaultAccounts, Wrapper!Wrap,
         WrapperProofs!Wrap, Wrapper!WrapAccounts, WrapperProofs!WrapAccounts,
         Wrapper!WrapBooked, WrapperProofs!WrapBooked, Wrapper!Unwrap,
         WrapperProofs!Unwrap, Wrapper!CanUnwrap, WrapperProofs!CanUnwrap,
         Wrapper!UnwrapAccounts, WrapperProofs!UnwrapAccounts,
         Wrapper!UnwrapBooked, WrapperProofs!UnwrapBooked,
         Wrapper!CollectFees, WrapperProofs!CollectFees,
         Wrapper!CollectFeesAccounts, WrapperProofs!CollectFeesAccounts,
         Wrapper!FeesCollectedBooked, WrapperProofs!FeesCollectedBooked,
         Wrapper!FeeFor, WrapperProofs!FeeFor, Wrapper!AssetReceived,
         WrapperProofs!AssetReceived, Wrapper!CanMoveAsset,
         WrapperProofs!CanMoveAsset, Wrapper!MoveAsset,
         WrapperProofs!MoveAsset, Wrapper!MintP, WrapperProofs!MintP,
         Wrapper!BurnP, WrapperProofs!BurnP, Wrapper!AssetOwners,
         WrapperProofs!AssetOwners, Wrapper!Vault, WrapperProofs!Vault,
         Wrapper!U64, WrapperProofs!U64, Wrapper!CanTransfer,
         WrapperProofs!CanTransfer, Wrapper!Transferred,
         WrapperProofs!Transferred, Wrapper!CanMint, WrapperProofs!CanMint,
         Wrapper!Minted, WrapperProofs!Minted, Wrapper!CanBurn,
         WrapperProofs!CanBurn, Wrapper!Burned, WrapperProofs!Burned
<1>3. WrapperProofs!Environment <=> Wrapper!Environment
  BY DEF Wrapper!Environment, WrapperProofs!Environment, Wrapper!IssueAsset,
         WrapperProofs!IssueAsset, Wrapper!TransferAsset,
         WrapperProofs!TransferAsset, Wrapper!TransferPToken,
         WrapperProofs!TransferPToken, Wrapper!BurnPToken,
         WrapperProofs!BurnPToken, Wrapper!CreatorMints,
         WrapperProofs!CreatorMints, Wrapper!CreatorHandsOver,
         WrapperProofs!CreatorHandsOver, Wrapper!AssetReceived,
         WrapperProofs!AssetReceived, Wrapper!CanMoveAsset,
         WrapperProofs!CanMoveAsset, Wrapper!MoveAsset,
         WrapperProofs!MoveAsset, Wrapper!MintP, WrapperProofs!MintP,
         Wrapper!BurnP, WrapperProofs!BurnP, Wrapper!AssetOwners,
         WrapperProofs!AssetOwners, Wrapper!U64, WrapperProofs!U64,
         Wrapper!CanTransfer, WrapperProofs!CanTransfer, Wrapper!Transferred,
         WrapperProofs!Transferred, Wrapper!CanMint, WrapperProofs!CanMint,
         Wrapper!Minted, WrapperProofs!Minted, Wrapper!CanBurn,
         WrapperProofs!CanBurn, Wrapper!Burned, WrapperProofs!Burned
<1>4. WrapperProofs!vars = Wrapper!vars
  BY DEF WrapperProofs!vars, Wrapper!vars
<1> QED BY <1>1, <1>2, <1>3, <1>4 DEF WrapperProofs!Next, Wrapper!Next

LEMMA VaultAssumptions ==
  /\ WrapperProofs!MaxU64Assumption /\ WrapperProofs!WrapperAssumption
  /\ WrapperProofs!NoVaultAssumption
<1>1. WrapperProofs!IsFiniteSet(Wallets) <=> Wrapper!IsFiniteSet(Wallets)
  BY DEF WrapperProofs!IsFiniteSet, Wrapper!IsFiniteSet
<1> QED BY <1>1, GateAssumption
        DEF WrapperProofs!Vault, Wrapper!Vault, WrapperProofs!U64, Wrapper!U64

LEMMA GateIsVault == Spec => WrapperProofs!Spec
<1>1. Wrapper!Init => WrapperProofs!Init
  BY SameVault
<1>2. [Wrapper!Next]_(Wrapper!vars) => [WrapperProofs!Next]_(WrapperProofs!vars)
  BY SameVault DEF WrapperProofs!vars, Wrapper!vars
<1> QED BY <1>1, <1>2, ImplementsVault, PTL DEF WrapperProofs!Spec, Wrapper!Spec

(* The vault's account covers its counters also behind the hook, beside the *)
(* registry and with pTokens from before the vault existed.                *)
THEOREM SolventAtGate ==
  ASSUME AssetFeeBps = 0
  PROVE  Spec => []Wrapper!Solvent
<1>1. WrapperProofs!Spec => []WrapperProofs!Solvent
  BY VaultAssumptions, WrapperProofs!SolventAlways
<1>2. WrapperProofs!Solvent => Wrapper!Solvent
  BY DEF WrapperProofs!Solvent, Wrapper!Solvent
<1> QED BY <1>1, <1>2, GateIsVault, PTL

(* Every holder, with a credential or without, can unwrap any part of its   *)
(* balance at any time, whatever the registry's authority does.            *)
THEOREM RedeemableAtGate ==
  ASSUME AssetFeeBps = 0, FreshPMint
  PROVE  Spec => []Wrapper!Redeemable
<1>1. WrapperProofs!Spec => []WrapperProofs!Redeemable
  BY VaultAssumptions, WrapperProofs!RedeemableAlways
<1>2. WrapperProofs!Redeemable => Wrapper!Redeemable
  BY DEF WrapperProofs!Redeemable, Wrapper!Redeemable, WrapperProofs!CanUnwrap,
         Wrapper!CanUnwrap, WrapperProofs!UnwrapAccounts, Wrapper!UnwrapAccounts,
         WrapperProofs!FeeFor, Wrapper!FeeFor, WrapperProofs!CanBurn,
         Wrapper!CanBurn, WrapperProofs!CanMoveAsset, Wrapper!CanMoveAsset,
         WrapperProofs!CanTransfer, Wrapper!CanTransfer,
         WrapperProofs!AssetReceived, Wrapper!AssetReceived
<1> QED BY <1>1, <1>2, GateIsVault, PTL

(* Between programs that move the same pTokens and pay rents, the vault's   *)
(* account still loses no more than the claims handed back and the fees.   *)
THEOREM CustodyProtectedAtGate ==
  ASSUME AssetFeeBps = 0
  PROVE  Spec => Wrapper!CustodyOnlyPaysClaims
<1> DEFINE Paid == vault # NoVault =>
             asset[VaultPda] - asset'[VaultPda] <=
               (pMint.supply - pMint'.supply)
                 + (vault.accrued_fees - vault'.accrued_fees)
<1>1. WrapperProofs!Spec => WrapperProofs!CustodyOnlyPaysClaims
  BY VaultAssumptions, WrapperProofs!CustodyProtected
<1>2. [Paid]_(WrapperProofs!vars) => [Paid]_(Wrapper!vars)
  BY DEF WrapperProofs!vars, Wrapper!vars
<1> QED BY <1>1, <1>2, GateIsVault, PTL
        DEF WrapperProofs!CustodyOnlyPaysClaims, Wrapper!CustodyOnlyPaysClaims

(* And the recorded fees leave their counter whole, for somebody's account  *)
(* or, into the vault's own, without a unit moving.                        *)
THEOREM FeesCollectedWholeAtGate ==
  ASSUME AssetFeeBps = 0
  PROVE  Spec => Wrapper!FeesCollectedWhole
<1> DEFINE Whole == vault # NoVault /\ vault'.accrued_fees < vault.accrued_fees =>
             /\ vault'.accrued_fees = 0
             /\ \/ asset[VaultPda] - asset'[VaultPda] = vault.accrued_fees
                \/ asset' = asset
<1>1. WrapperProofs!Spec => WrapperProofs!FeesCollectedWhole
  BY VaultAssumptions, WrapperProofs!FeesAlwaysCollectedWhole
<1>2. [Whole]_(WrapperProofs!vars) => [Whole]_(Wrapper!vars)
  BY DEF WrapperProofs!vars, Wrapper!vars
<1> QED BY <1>1, <1>2, GateIsVault, PTL
        DEF WrapperProofs!FeesCollectedWhole, Wrapper!FeesCollectedWhole

(* Hook and registry do not keep the vault from being the full-reserve      *)
(* institution: the refinement holds for the three programs together.      *)
THEOREM GateRefinesReserve ==
  ASSUME AssetFeeBps = 0, FreshPMint
  PROVE  Spec => Wrapper!ReserveSpec
<1> USE DEF WrapperProofs!Reserve!vars, Wrapper!Reserve!vars
<1>1. WrapperProofs!Spec => WrapperProofs!ReserveSpec
  BY VaultAssumptions, WrapperProofs!RefinesReserve
<1>2. WrapperProofs!Reserve!Init => Wrapper!Reserve!Init
  BY DEF WrapperProofs!Reserve!Init, Wrapper!Reserve!Init
<1>3. [WrapperProofs!Reserve!Next]_(WrapperProofs!Reserve!vars)
        => [Wrapper!Reserve!Next]_(Wrapper!Reserve!vars)
  BY DEF WrapperProofs!Reserve!Next, Wrapper!Reserve!Next,
         WrapperProofs!Reserve!Deposit, Wrapper!Reserve!Deposit,
         WrapperProofs!Reserve!Redeem, Wrapper!Reserve!Redeem,
         WrapperProofs!Reserve!TakeRevenue, Wrapper!Reserve!TakeRevenue,
         WrapperProofs!Reserve!ForgoRevenue, Wrapper!Reserve!ForgoRevenue,
         WrapperProofs!Reserve!Gift, Wrapper!Reserve!Gift,
         WrapperProofs!Reserve!Forfeit, Wrapper!Reserve!Forfeit
<1> QED BY <1>1, <1>2, <1>3, GateIsVault, PTL
        DEF WrapperProofs!ReserveSpec, Wrapper!ReserveSpec,
            WrapperProofs!Reserve!Spec, Wrapper!Reserve!Spec

(* And so does the registry.                                               *)
THEOREM ImplementsRegistry == Spec => Identity!Spec
<1>1. Init => Identity!Init
  BY DEF Init
<1>2. [Next]_vars => [Identity!Next]_(Identity!vars)
  BY StepOfParts
<1> QED BY <1>1, <1>2, PTL DEF Spec, Identity!Spec
-------------------------------------------------------------------------------
(* Rents.  A signer's lamports are counted unit by unit, like the balances  *)
(* of a ledger; the bound on the places is all the rents there are.        *)

AllRents == InitialLamports * Cardinality(Signers)

Rents(owned) == {u \in Signers \X (1 .. AllRents) : u[2] <= owned[u[1]]}

LEMMA Parties ==
  /\ IsFiniteSet(Signers) /\ Cardinality(Signers) \in Nat
  /\ Signers = Wallets /\ Signers \subseteq Wallets \cup {VaultPda}
  /\ IsFiniteSet(Wallets \cup {VaultPda})
  /\ NoKey \notin Wallets \cup {VaultPda}
  /\ InitialLamports \in Nat /\ AllRents \in Nat
<1>1. IsFiniteSet(Wallets) /\ Signers = Wallets
  BY GateAssumption DEF Wrapper!WrapperAssumption, Wrapper!IsFiniteSet, IsFiniteSet
<1>2. IsFiniteSet({VaultPda}) /\ Cardinality(Signers) \in Nat
  BY <1>1, FS_Singleton, FS_CardinalityType
<1>3. IsFiniteSet(Wallets \cup {VaultPda})
  BY <1>1, <1>2, FS_Union
<1>4. NoKey \notin Wallets \cup {VaultPda} /\ InitialLamports \in Nat
  BY GateAssumption DEF Identity!IdentityAssumption
<1>5. AllRents \in Nat
  BY <1>2, <1>4 DEF AllRents
<1> QED BY <1>1, <1>2, <1>3, <1>4, <1>5

LEMMA RentsFinite ==
  ASSUME NEW owned
  PROVE  IsFiniteSet(Rents(owned)) /\ Cardinality(Rents(owned)) \in Nat
<1>1. IsFiniteSet(1 .. AllRents)
  BY Parties, FS_Interval
<1>2. IsFiniteSet(Signers \X (1 .. AllRents))
  BY <1>1, Parties, FS_Product
<1>3. Rents(owned) \in SUBSET (Signers \X (1 .. AllRents))
  BY DEF Rents
<1>4. IsFiniteSet(Rents(owned))
  BY <1>2, <1>3, FS_Subset
<1> QED BY <1>4, FS_CardinalityType

(* Nobody owns more than what everybody owns together.                     *)
LEMMA RentsOfOne ==
  ASSUME NEW owned, owned \in [Signers -> Nat], NEW s \in Signers,
         Cardinality(Rents(owned)) < AllRents
  PROVE  owned[s] < AllRents
<1> SUFFICES ASSUME owned[s] >= AllRents PROVE FALSE
  BY Parties
<1>1. {s} \X (1 .. AllRents) \in SUBSET Rents(owned)
  BY Parties DEF Rents
<1>2. /\ IsFiniteSet(1 .. AllRents)
      /\ Cardinality(1 .. AllRents) = IF 1 > AllRents THEN 0 ELSE AllRents - 1 + 1
  BY Parties, FS_Interval
<1>3. IsFiniteSet({s}) /\ Cardinality({s}) = 1
  BY FS_Singleton
<1>4. Cardinality({s} \X (1 .. AllRents)) = 1 * Cardinality(1 .. AllRents)
  BY <1>2, <1>3, FS_Product
<1>5. Cardinality({s} \X (1 .. AllRents)) = AllRents
  BY <1>2, <1>4, Parties
<1>6. Cardinality({s} \X (1 .. AllRents)) <= Cardinality(Rents(owned))
  BY <1>1, RentsFinite, FS_Subset
<1> QED BY <1>5, <1>6, Parties, RentsFinite

LEMMA RentRefunded ==
  ASSUME NEW owned, owned \in [Signers -> Nat], NEW s \in Signers,
         owned[s] < AllRents
  PROVE  LET after == [owned EXCEPT ![s] = @ + 1]
         IN  /\ after \in [Signers -> Nat]
             /\ Cardinality(Rents(after)) = Cardinality(Rents(owned)) + 1
<1> DEFINE after == [owned EXCEPT ![s] = @ + 1]
           unit == <<s, owned[s] + 1>>
<1>1. owned[s] \in Nat /\ after \in [Signers -> Nat]
  OBVIOUS
<1>2. unit \in Signers \X (1 .. AllRents) /\ unit \notin Rents(owned)
  BY <1>1, Parties DEF Rents
<1>3. Rents(after) = Rents(owned) \cup {unit}
  <2>1. ASSUME NEW u \in Signers \X (1 .. AllRents)
        PROVE  u \in Rents(after) <=> u \in Rents(owned) \cup {unit}
    <3>1. u = <<u[1], u[2]>> /\ u[1] \in Signers /\ u[2] \in Nat
      BY <2>1, Parties
    <3>2. CASE u[1] = s
      BY <1>1, <3>1, <3>2 DEF Rents
    <3>3. CASE u[1] # s
      BY <3>1, <3>3 DEF Rents
    <3> QED BY <3>2, <3>3
  <2>2. /\ Rents(after) \subseteq Signers \X (1 .. AllRents)
        /\ Rents(owned) \cup {unit} \subseteq Signers \X (1 .. AllRents)
    BY <1>2 DEF Rents
  <2> QED BY <2>1, <2>2
<1>4. Cardinality(Rents(owned) \cup {unit}) = Cardinality(Rents(owned)) + 1
  BY <1>2, RentsFinite, FS_AddElement
<1> QED BY <1>1, <1>3, <1>4

LEMMA RentPaid ==
  ASSUME NEW owned, owned \in [Signers -> Nat], NEW s \in Signers,
         owned[s] > 0, owned[s] <= AllRents
  PROVE  LET after == [owned EXCEPT ![s] = @ - 1]
         IN  /\ after \in [Signers -> Nat]
             /\ Cardinality(Rents(after)) = Cardinality(Rents(owned)) - 1
<1> DEFINE after == [owned EXCEPT ![s] = @ - 1]
<1>1. owned[s] \in Nat /\ AllRents \in Nat
  BY Parties
<1>2. after \in [Signers -> Nat] /\ after[s] = owned[s] - 1
  BY <1>1
<1>3. after[s] < AllRents /\ after[s] + 1 = owned[s]
  BY <1>1, <1>2
<1>4. owned = [after EXCEPT ![s] = @ + 1]
  BY <1>3
<1> HIDE DEF after
<1>5. Cardinality(Rents(owned)) = Cardinality(Rents(after)) + 1
  BY <1>2, <1>3, <1>4, RentRefunded
<1>6. Cardinality(Rents(after)) \in Nat
  BY RentsFinite
<1> QED BY <1>2, <1>5, <1>6 DEF after

-------------------------------------------------------------------------------
(* The registry *)

(* Together these are inductive: the rents of the accounts that exist are   *)
(* missing from the wallets, so a refund never exceeds what there is.      *)
RegistryInv ==
  /\ Identity!TypeOK
  /\ \A s \in Signers : lamports[s] <= AllRents
  /\ Identity!CredentialNamesItsWallet
  /\ RentConserved

LEMMA LiveFinite ==
  IsFiniteSet(Identity!Live) /\ Cardinality(Identity!Live) \in Nat
<1>1. Identity!Live \in SUBSET (Wallets \cup {VaultPda})
  BY DEF Identity!Live
<1> QED BY <1>1, Parties, FS_Subset, FS_CardinalityType

LEMMA RentConservedDef ==
  RentConserved <=>
    Cardinality(Rents(lamports)) + Cardinality(Identity!Live)
      + (IF config = NoKey THEN 0 ELSE 1) = AllRents
  BY DEF RentConserved, Identity!RentConserved, Rents, AllRents, Identity!Cardinality, Cardinality

LEMMA RegistryInit == Identity!Init => RegistryInv
<1> SUFFICES ASSUME Identity!Init PROVE RegistryInv
  OBVIOUS
<1>1. Identity!TypeOK
  BY Parties DEF Identity!Init, Identity!TypeOK
<1>2. Identity!Live = {} /\ Cardinality(Identity!Live) = 0
  BY FS_EmptySet DEF Identity!Init, Identity!Live
<1>3. Signers # {} => InitialLamports <= AllRents
  <2>1. SUFFICES ASSUME Signers # {} PROVE InitialLamports <= AllRents
    OBVIOUS
  <2>2. Cardinality(Signers) >= 1
    BY <2>1, Parties, FS_EmptySet
  <2> QED BY <2>2, Parties DEF AllRents
<1>4. Rents(lamports) = Signers \X (1 .. InitialLamports)
  BY <1>3, Parties DEF Identity!Init, Rents
<1>5. Cardinality(Rents(lamports)) = AllRents
  <2>1. /\ IsFiniteSet(1 .. InitialLamports)
        /\ Cardinality(1 .. InitialLamports) =
             IF 1 > InitialLamports THEN 0 ELSE InitialLamports - 1 + 1
    BY Parties, FS_Interval
  <2>2. Cardinality(1 .. InitialLamports) = InitialLamports
    BY <2>1, Parties
  <2>3. Cardinality(Rents(lamports)) =
          Cardinality(Signers) * Cardinality(1 .. InitialLamports)
    BY <1>4, <2>1, Parties, FS_Product
  <2> QED BY <2>2, <2>3, Parties DEF AllRents
<1>6. RentConserved
  BY <1>2, <1>5, Parties, RentConservedDef DEF Identity!Init
<1>7. Identity!CredentialNamesItsWallet
  BY <1>2 DEF Identity!CredentialNamesItsWallet
<1>8. \A s \in Signers : lamports[s] <= AllRents
  BY <1>3 DEF Identity!Init
<1> QED BY <1>1, <1>6, <1>7, <1>8 DEF RegistryInv

\* The same of the state after a step.
LEMMA RentConservedAfter ==
  RentConserved' <=>
    Cardinality(Rents(lamports')) + Cardinality(Identity!Live')
      + (IF config' = NoKey THEN 0 ELSE 1) = AllRents
  BY DEF RentConserved, Identity!RentConserved, Rents, AllRents,
         Identity!Cardinality, Cardinality

LEMMA LiveFiniteAfter ==
  IsFiniteSet(Identity!Live') /\ Cardinality(Identity!Live') \in Nat
<1>1. Identity!Live' \in SUBSET (Wallets \cup {VaultPda})
  BY DEF Identity!Live
<1> QED BY <1>1, Parties, FS_Subset, FS_CardinalityType

(* What an instruction takes from the one who signs it, it puts into an     *)
(* account, and the other way round.                                       *)
LEMMA RegistryStepInv ==
  ASSUME RegistryInv, [Identity!Next]_(Identity!vars)
  PROVE  /\ RegistryInv'
         /\ \A s \in Signers : lamports'[s] # lamports[s] => config \in {NoKey, s}
<1> DEFINE Keys == Wallets \cup {VaultPda}
           Acts == \A s \in Signers :
                     lamports'[s] # lamports[s] => config \in {NoKey, s}
<1>0. /\ config \in Keys \cup {NoKey}
      /\ credential \in [Keys -> Keys \cup {NoKey}]
      /\ lamports \in [Signers -> Nat]
      /\ \A s \in Signers : lamports[s] <= AllRents
      /\ \A k \in Identity!Live : credential[k] = k
      /\ Cardinality(Rents(lamports)) + Cardinality(Identity!Live)
           + (IF config = NoKey THEN 0 ELSE 1) = AllRents
  BY RentConservedDef DEF RegistryInv, Identity!TypeOK, Identity!CredentialNamesItsWallet
<1>00. /\ Cardinality(Rents(lamports)) \in Nat
       /\ Cardinality(Identity!Live) \in Nat /\ IsFiniteSet(Identity!Live)
       /\ AllRents \in Nat
       /\ Signers \subseteq Keys /\ NoKey \notin Keys
  BY RentsFinite, LiveFinite, Parties
<1>1. ASSUME NEW s \in Signers, Identity!Initialize(s)
      PROVE  RegistryInv' /\ Acts
  <2>1. /\ config = NoKey /\ config' = s /\ credential' = credential
        /\ lamports[s] > 0 /\ lamports' = [lamports EXCEPT ![s] = @ - 1]
    BY <1>1 DEF Identity!Initialize, Identity!PayRent
  <2>2. /\ lamports' \in [Signers -> Nat]
        /\ Cardinality(Rents(lamports')) = Cardinality(Rents(lamports)) - 1
    BY <1>0, <2>1, RentPaid
  <2>3. Identity!Live' = Identity!Live
    BY <2>1 DEF Identity!Live
  <2>4. RentConserved'
    BY <1>0, <1>00, <2>1, <2>2, <2>3, RentConservedAfter
  <2>5. \A r \in Signers : lamports'[r] <= AllRents
    BY <1>0, <1>00, <2>1
  <2> QED BY <1>0, <1>00, <2>1, <2>2, <2>3, <2>4, <2>5
          DEF RegistryInv, Identity!TypeOK, Identity!CredentialNamesItsWallet
<1>2. ASSUME NEW s \in Signers, NEW k \in Keys, Identity!VerifyWallet(s, k)
      PROVE  RegistryInv' /\ Acts
  <2>1. /\ config = s /\ config' = config
        /\ credential[k] = NoKey /\ credential' = [credential EXCEPT ![k] = k]
        /\ lamports[s] > 0 /\ lamports' = [lamports EXCEPT ![s] = @ - 1]
    BY <1>2 DEF Identity!VerifyWallet, Identity!IsAuthority, Identity!PayRent
  <2>2. /\ lamports' \in [Signers -> Nat]
        /\ Cardinality(Rents(lamports')) = Cardinality(Rents(lamports)) - 1
    BY <1>0, <2>1, RentPaid
  <2>3. k \notin Identity!Live /\ Identity!Live' = Identity!Live \cup {k}
    BY <1>0, <1>00, <2>1 DEF Identity!Live
  <2>4. Cardinality(Identity!Live') = Cardinality(Identity!Live) + 1
    BY <1>00, <2>3, FS_AddElement
  <2>5. RentConserved'
    BY <1>0, <1>00, <2>1, <2>2, <2>4, RentConservedAfter
  <2>6. \A r \in Signers : lamports'[r] <= AllRents
    BY <1>0, <1>00, <2>1
  <2>7. \A j \in Identity!Live' : credential'[j] = j
    BY <1>0, <2>1, <2>3 DEF Identity!Live
  <2> QED BY <1>0, <1>00, <2>1, <2>2, <2>5, <2>6, <2>7
          DEF RegistryInv, Identity!TypeOK, Identity!CredentialNamesItsWallet
<1>3. ASSUME NEW s \in Signers, NEW k \in Keys, Identity!RevokeWallet(s, k)
      PROVE  RegistryInv' /\ Acts
  <2>1. /\ config = s /\ config' = config
        /\ credential[k] # NoKey /\ credential' = [credential EXCEPT ![k] = NoKey]
        /\ lamports' = [lamports EXCEPT ![s] = @ + 1]
    BY <1>3 DEF Identity!RevokeWallet, Identity!IsAuthority, Identity!RefundRent
  <2>2. k \in Identity!Live /\ Identity!Live' = Identity!Live \ {k}
    BY <1>0, <1>00, <2>1 DEF Identity!Live
  <2>3. Cardinality(Identity!Live') = Cardinality(Identity!Live) - 1
    BY <1>00, <2>2, FS_RemoveElement
  <2>4. Cardinality(Rents(lamports)) < AllRents
    BY <1>0, <1>00, <2>3, LiveFiniteAfter
  <2>5. lamports[s] < AllRents
    BY <1>0, <2>4, RentsOfOne
  <2>6. /\ lamports' \in [Signers -> Nat]
        /\ Cardinality(Rents(lamports')) = Cardinality(Rents(lamports)) + 1
    BY <1>0, <2>1, <2>5, RentRefunded
  <2>7. RentConserved'
    BY <1>0, <1>00, <2>1, <2>3, <2>6, RentConservedAfter
  <2>8. \A r \in Signers : lamports'[r] <= AllRents
    BY <1>0, <1>00, <2>1, <2>5
  <2>9. \A j \in Identity!Live' : credential'[j] = j
    BY <1>0, <2>1, <2>2 DEF Identity!Live
  <2> QED BY <1>0, <1>00, <2>1, <2>6, <2>7, <2>8, <2>9
          DEF RegistryInv, Identity!TypeOK, Identity!CredentialNamesItsWallet
<1>4. ASSUME NEW s \in Signers, NEW k \in Keys, Identity!SetAuthority(s, k)
      PROVE  RegistryInv' /\ Acts
  <2>1. /\ config = s /\ config' = k
        /\ credential' = credential /\ lamports' = lamports
    BY <1>4 DEF Identity!SetAuthority, Identity!IsAuthority
  <2>2. Identity!Live' = Identity!Live
    BY <2>1 DEF Identity!Live
  <2>3. config # NoKey /\ config' # NoKey
    BY <1>00, <2>1
  <2>4. RentConserved'
    BY <1>0, <2>1, <2>2, <2>3, RentConservedAfter
  <2> QED BY <1>0, <2>1, <2>2, <2>4
          DEF RegistryInv, Identity!TypeOK, Identity!CredentialNamesItsWallet
<1>5. CASE UNCHANGED Identity!vars
  <2>1. config' = config /\ credential' = credential /\ lamports' = lamports
    BY <1>5 DEF Identity!vars
  <2>2. Identity!Live' = Identity!Live
    BY <2>1 DEF Identity!Live
  <2>3. RentConserved'
    BY <1>0, <2>1, <2>2, RentConservedAfter
  <2> QED BY <1>0, <2>1, <2>2, <2>3
          DEF RegistryInv, Identity!TypeOK, Identity!CredentialNamesItsWallet
<1> QED BY <1>1, <1>2, <1>3, <1>4, <1>5 DEF Identity!Next

-------------------------------------------------------------------------------
(* The vault.  What a step may do to balances and counters; the argument of *)
(* PassageWrapperProofs, of the vault inside this composition.             *)

LEMMA Sizes ==
  /\ MaxU64 \in Nat
  /\ BPS \in Nat \ {0} /\ MAX_FEE_BPS \in 0 .. BPS /\ AssetFeeBps \in 0 .. BPS
  /\ FeeChoices \subseteq Nat
  /\ \A n \in Wrapper!U64 : n \in Nat /\ n <= MaxU64
  /\ \A n \in Nat : n <= MaxU64 => n \in Wrapper!U64
  /\ \A n \in Amounts : n \in Wrapper!U64 /\ n \in Nat
  /\ Wrapper!AssetOwners = Wallets \cup {VaultPda} /\ VaultPda \notin Wallets
<1>1. MaxU64 \in Nat
  BY GateAssumption DEF Wrapper!MaxU64Assumption
<1>2. /\ BPS \in Nat \ {0} /\ MAX_FEE_BPS \in 0 .. BPS /\ AssetFeeBps \in 0 .. BPS
      /\ FeeChoices \subseteq Nat
      /\ Amounts \subseteq Wrapper!U64 /\ VaultPda \notin Wallets
  BY GateAssumption DEF Wrapper!WrapperAssumption
<1> QED BY <1>1, <1>2 DEF Wrapper!U64, Wrapper!AssetOwners

(* A share of at most BPS basis points is a part of the whole.             *)
LEMMA ShareRange ==
  ASSUME NEW amount \in Nat, NEW bps \in 0 .. BPS
  PROVE  (amount * bps) \div BPS \in 0 .. amount
<1> DEFINE share == (amount * bps) \div BPS
<1>1. BPS \in Nat /\ BPS > 0
  BY Sizes
<1>2. amount * bps \in Nat /\ amount * bps <= amount * BPS
  BY <1>1
<1>3. share \in Nat /\ share * BPS <= amount * bps
  BY <1>1, <1>2
<1>4. share * BPS <= amount * BPS
  BY <1>1, <1>2, <1>3
<1>5. share <= amount
  BY <1>1, <1>3, <1>4
<1> QED BY <1>3, <1>5

LEMMA FeeForRange ==
  ASSUME NEW amount \in Nat, NEW fee_bps \in 0 .. MAX_FEE_BPS
  PROVE  Wrapper!FeeFor(amount, fee_bps) \in 0 .. amount
<1>1. fee_bps \in 0 .. BPS
  BY Sizes
<1> QED BY <1>1, ShareRange DEF Wrapper!FeeFor

(* Rounded up, the share is still a part of the whole.                     *)
LEMMA AssetReceivedRange ==
  ASSUME NEW amount \in Nat
  PROVE  Wrapper!AssetReceived(amount) \in 0 .. amount
<1> DEFINE fee == (amount * AssetFeeBps + BPS - 1) \div BPS
<1>1. BPS \in Nat /\ BPS > 0 /\ AssetFeeBps \in 0 .. BPS
  BY Sizes
<1>2. amount * AssetFeeBps \in Nat /\ amount * AssetFeeBps <= amount * BPS
  BY <1>1
<1>3. fee \in Nat /\ fee * BPS <= amount * AssetFeeBps + BPS - 1
  BY <1>1, <1>2
<1>4. fee * BPS < (amount + 1) * BPS
  BY <1>1, <1>2, <1>3
<1>5. fee < amount + 1
  BY <1>1, <1>3, <1>4
<1> QED BY <1>3, <1>5 DEF Wrapper!AssetReceived

LEMMA MoveAssetEffect ==
  ASSUME asset \in [Wrapper!AssetOwners -> Wrapper!U64], NEW from \in Wrapper!AssetOwners,
         NEW to \in Wrapper!AssetOwners, NEW amount \in Wrapper!U64,
         Wrapper!CanMoveAsset(from, to, amount), Wrapper!MoveAsset(from, to, amount)
  PROVE  /\ asset' \in [Wrapper!AssetOwners -> Wrapper!U64]
         /\ from # to => asset'[from] = asset[from] - amount
<1> DEFINE received == Wrapper!AssetReceived(amount)
<1>1. amount \in Nat /\ received \in 0 .. amount
  BY Sizes, AssetReceivedRange
<1>2. asset[from] \in Nat /\ asset[from] <= MaxU64 /\ asset[to] \in Nat
  BY Sizes
<1>3. amount <= asset[from] /\ (from # to => asset[to] + received <= MaxU64)
  BY DEF Wrapper!CanMoveAsset, Wrapper!CanTransfer
<1> HIDE DEF received
<1>4. asset[from] - amount \in Wrapper!U64
  BY <1>1, <1>2, <1>3, Sizes
<1>5. from # to => asset[to] + received \in Wrapper!U64
  BY <1>1, <1>2, <1>3, Sizes
<1>6. asset' = Wrapper!Transferred(asset, from, to, amount, received)
  BY DEF Wrapper!MoveAsset, received
<1> QED BY <1>4, <1>5, <1>6 DEF Wrapper!Transferred

LEMMA MintPEffect ==
  ASSUME pToken \in [Wallets -> Wrapper!U64], pMint \in Wrapper!PMint, NEW authority,
         NEW to \in Wallets, NEW amount \in Nat, Wrapper!MintP(authority, to, amount)
  PROVE  /\ pToken' \in [Wallets -> Wrapper!U64] /\ pMint' \in Wrapper!PMint
         /\ pToken' = [pToken EXCEPT ![to] = @ + amount]
         /\ pMint'.supply = pMint.supply + amount
         /\ pMint'.authority = pMint.authority
<1>1. pToken[to] \in Wrapper!U64 /\ pMint.supply \in Wrapper!U64
  BY DEF Wrapper!PMint
<1>2. pToken[to] + amount \in Wrapper!U64 /\ pMint.supply + amount \in Wrapper!U64
  BY <1>1, Sizes DEF Wrapper!MintP, Wrapper!CanMint
<1> QED BY <1>2 DEF Wrapper!MintP, Wrapper!Minted, Wrapper!PMint

LEMMA BurnPEffect ==
  ASSUME pToken \in [Wallets -> Wrapper!U64], pMint \in Wrapper!PMint,
         NEW from \in Wallets, NEW amount \in Nat, Wrapper!BurnP(from, amount)
  PROVE  /\ pToken' \in [Wallets -> Wrapper!U64] /\ pMint' \in Wrapper!PMint
         /\ pToken' = [pToken EXCEPT ![from] = @ - amount]
         /\ pMint'.supply = pMint.supply - amount
         /\ pMint'.authority = pMint.authority
<1>1. pToken[from] \in Wrapper!U64 /\ pMint.supply \in Wrapper!U64
  BY DEF Wrapper!PMint
<1>2. pToken[from] - amount \in Wrapper!U64 /\ pMint.supply - amount \in Wrapper!U64
  BY <1>1, Sizes DEF Wrapper!BurnP, Wrapper!CanBurn
<1> QED BY <1>2 DEF Wrapper!BurnP, Wrapper!Burned, Wrapper!PMint

(* The fee of a wrap or an unwrap is a part of the amount.                 *)
LEMMA FeeOfVault ==
  ASSUME Wrapper!TypeOK, vault # NoVault, NEW n \in Nat
  PROVE  Wrapper!FeeFor(n, vault.fee_bps) \in 0 .. n
<1>1. vault.fee_bps \in 0 .. MAX_FEE_BPS
  BY DEF Wrapper!TypeOK, Wrapper!Vault
<1> QED BY <1>1, FeeForRange

LEMMA WrapEffect ==
  ASSUME Wrapper!TypeOK, NEW w \in Wallets, NEW n \in Amounts, Wrapper!Wrap(w, n)
  PROVE  \E net \in 0 .. n :
           /\ Wrapper!TypeOK' /\ vault # NoVault
           /\ pMint'.authority = pMint.authority
           /\ pMint'.supply = pMint.supply + net
           /\ pToken' = [pToken EXCEPT ![w] = @ + net]
           /\ asset'[w] = asset[w] - n
<1> DEFINE fee == Wrapper!FeeFor(n, vault.fee_bps)
           net == n - fee
<1>1. vault # NoVault /\ n \in Nat /\ n \in Wrapper!U64
  BY Sizes DEF Wrapper!Wrap, Wrapper!WrapAccounts
<1>2. fee \in Nat /\ net \in Nat /\ net \in 0 .. n
  <2>1. fee \in 0 .. n
    BY <1>1, FeeOfVault
  <2> QED BY <1>1, <2>1
<1>3. /\ Wrapper!CanMoveAsset(w, VaultPda, n) /\ Wrapper!MoveAsset(w, VaultPda, n)
      /\ Wrapper!MintP(VaultPda, w, net)
      /\ vault.total_wrapped + net <= MaxU64
      /\ vault.accrued_fees + fee <= MaxU64
      /\ vault' = Wrapper!WrapBooked(net, fee)
      /\ assetSupply' = assetSupply
  BY DEF Wrapper!Wrap
<1> HIDE DEF fee, net
<1>4. /\ w \in Wrapper!AssetOwners /\ VaultPda \in Wrapper!AssetOwners
      /\ w # VaultPda
  BY Sizes
<1>5. /\ asset' \in [Wrapper!AssetOwners -> Wrapper!U64]
      /\ asset'[w] = asset[w] - n
  BY <1>1, <1>3, <1>4, MoveAssetEffect DEF Wrapper!TypeOK
<1>6. /\ pToken' \in [Wallets -> Wrapper!U64] /\ pMint' \in Wrapper!PMint
      /\ pToken' = [pToken EXCEPT ![w] = @ + net]
      /\ pMint'.supply = pMint.supply + net
      /\ pMint'.authority = pMint.authority
  BY <1>2, <1>3, MintPEffect DEF Wrapper!TypeOK
<1>7. vault' \in Wrapper!Vault
  <2>1. /\ vault \in Wrapper!Vault
        /\ vault.total_wrapped \in Nat /\ vault.accrued_fees \in Nat
    BY <1>1, Sizes DEF Wrapper!TypeOK, Wrapper!Vault
  <2>2. /\ vault.total_wrapped + net \in Wrapper!U64
        /\ vault.accrued_fees + fee \in Wrapper!U64
    BY <1>2, <1>3, <2>1, Sizes
  <2> QED BY <1>3, <2>1, <2>2 DEF Wrapper!WrapBooked, Wrapper!Vault
<1>8. Wrapper!TypeOK'
  BY <1>3, <1>5, <1>6, <1>7 DEF Wrapper!TypeOK
<1> QED BY <1>1, <1>2, <1>5, <1>6, <1>8

LEMMA UnwrapEffect ==
  ASSUME Wrapper!TypeOK, NEW w \in Wallets, NEW n \in Amounts, Wrapper!Unwrap(w, n)
  PROVE  /\ Wrapper!TypeOK'
         /\ pMint'.authority = pMint.authority
         /\ n \in Nat /\ pToken' = [pToken EXCEPT ![w] = @ - n]
<1> DEFINE fee == Wrapper!FeeFor(n, vault.fee_bps)
<1>1. vault # NoVault /\ n \in Nat /\ n <= MaxU64
  BY Sizes DEF Wrapper!Unwrap, Wrapper!CanUnwrap, Wrapper!UnwrapAccounts
<1>2. fee \in Nat /\ n - fee \in Nat /\ n - fee \in Wrapper!U64
  <2>1. fee \in 0 .. n
    BY <1>1, FeeOfVault
  <2> QED BY <1>1, <2>1, Sizes
<1>3. /\ Wrapper!CanMoveAsset(VaultPda, w, n - fee)
      /\ Wrapper!MoveAsset(VaultPda, w, n - fee)
      /\ Wrapper!BurnP(w, n)
      /\ n <= vault.total_wrapped
      /\ vault.accrued_fees + fee <= MaxU64
      /\ vault' = Wrapper!UnwrapBooked(n, fee)
      /\ assetSupply' = assetSupply
  BY DEF Wrapper!Unwrap, Wrapper!CanUnwrap
<1> HIDE DEF fee
<1>4. w \in Wrapper!AssetOwners /\ VaultPda \in Wrapper!AssetOwners
  BY Sizes
<1>5. asset' \in [Wrapper!AssetOwners -> Wrapper!U64]
  BY <1>2, <1>3, <1>4, MoveAssetEffect DEF Wrapper!TypeOK
<1>6. /\ pToken' \in [Wallets -> Wrapper!U64] /\ pMint' \in Wrapper!PMint
      /\ pToken' = [pToken EXCEPT ![w] = @ - n]
      /\ pMint'.authority = pMint.authority
  BY <1>1, <1>3, BurnPEffect DEF Wrapper!TypeOK
<1>7. vault' \in Wrapper!Vault
  <2>1. /\ vault \in Wrapper!Vault
        /\ vault.total_wrapped \in Nat /\ vault.accrued_fees \in Nat
        /\ vault.total_wrapped <= MaxU64
    BY <1>1, Sizes DEF Wrapper!TypeOK, Wrapper!Vault
  <2>2. /\ vault.total_wrapped - n \in Wrapper!U64
        /\ vault.accrued_fees + fee \in Wrapper!U64
    BY <1>1, <1>2, <1>3, <2>1, Sizes
  <2> QED BY <1>3, <2>1, <2>2 DEF Wrapper!UnwrapBooked, Wrapper!Vault
<1>8. Wrapper!TypeOK'
  BY <1>3, <1>5, <1>6, <1>7 DEF Wrapper!TypeOK
<1> QED BY <1>1, <1>6, <1>8

VaultOwnsMint == vault # NoVault => pMint.authority = VaultPda

LEMMA VaultInit == Wrapper!Init => Wrapper!TypeOK /\ VaultOwnsMint
<1> SUFFICES ASSUME Wrapper!Init PROVE Wrapper!TypeOK /\ VaultOwnsMint
  OBVIOUS
<1>1. 0 \in Wrapper!U64
  BY Sizes
<1>2. pMint \in Wrapper!PMint
  BY <1>1, Sizes DEF Wrapper!Init, Wrapper!PMint
<1> QED BY <1>1, <1>2 DEF Wrapper!Init, Wrapper!TypeOK, VaultOwnsMint

LEMMA VaultStepInv ==
  ASSUME Wrapper!TypeOK, VaultOwnsMint, [Wrapper!Next]_(Wrapper!vars)
  PROVE  Wrapper!TypeOK' /\ VaultOwnsMint'
<1> USE DEF VaultOwnsMint
<1>0. /\ asset \in [Wrapper!AssetOwners -> Wrapper!U64]
      /\ pToken \in [Wallets -> Wrapper!U64] /\ pMint \in Wrapper!PMint
      /\ assetSupply \in Wrapper!U64
  BY DEF Wrapper!TypeOK
<1>1. ASSUME NEW w \in Wallets, NEW bps \in FeeChoices, Wrapper!InitializeVault(w, bps)
      PROVE  Wrapper!TypeOK' /\ VaultOwnsMint'
  <2>1. bps \in 0 .. MAX_FEE_BPS /\ 0 \in Wrapper!U64
    BY <1>1, Sizes DEF Wrapper!InitializeVault
  <2>2. vault' \in Wrapper!Vault /\ pMint.authority = VaultPda
    BY <1>1, <2>1 DEF Wrapper!InitializeVault, Wrapper!Vault
  <2> QED BY <1>1, <2>2 DEF Wrapper!InitializeVault, Wrapper!TypeOK
<1>2. ASSUME NEW w \in Wallets, NEW n \in Amounts, Wrapper!Wrap(w, n)
      PROVE  Wrapper!TypeOK' /\ VaultOwnsMint'
  BY <1>2, WrapEffect
<1>3. ASSUME NEW w \in Wallets, NEW n \in Amounts, Wrapper!Unwrap(w, n)
      PROVE  Wrapper!TypeOK' /\ VaultOwnsMint'
  <2>1. vault # NoVault
    BY <1>3 DEF Wrapper!Unwrap, Wrapper!CanUnwrap, Wrapper!UnwrapAccounts
  <2> QED BY <1>3, <2>1, UnwrapEffect
<1>4. ASSUME NEW w \in Wallets, NEW t \in Wrapper!AssetOwners, Wrapper!CollectFees(w, t)
      PROVE  Wrapper!TypeOK' /\ VaultOwnsMint'
  <2>1. /\ vault # NoVault /\ vault \in Wrapper!Vault
        /\ vault.accrued_fees \in Wrapper!U64 /\ 0 \in Wrapper!U64
        /\ VaultPda \in Wrapper!AssetOwners /\ t \in Wrapper!AssetOwners
    BY <1>4, Sizes DEF Wrapper!CollectFees, Wrapper!CollectFeesAccounts,
                       Wrapper!TypeOK, Wrapper!Vault
  <2>2. asset' \in [Wrapper!AssetOwners -> Wrapper!U64]
    BY <1>0, <1>4, <2>1, MoveAssetEffect DEF Wrapper!CollectFees
  <2>3. vault' \in Wrapper!Vault
    BY <1>4, <2>1 DEF Wrapper!CollectFees, Wrapper!FeesCollectedBooked, Wrapper!Vault
  <2> QED BY <1>4, <2>1, <2>2, <2>3 DEF Wrapper!CollectFees, Wrapper!TypeOK
<1>5. ASSUME NEW w \in Wallets, NEW n \in Amounts, Wrapper!IssueAsset(w, n)
      PROVE  Wrapper!TypeOK' /\ VaultOwnsMint'
  <2>1. w \in Wrapper!AssetOwners /\ asset[w] \in Nat /\ assetSupply \in Nat /\ n \in Nat
    BY <1>0, Sizes
  <2>2. asset[w] + n \in Wrapper!U64 /\ assetSupply + n \in Wrapper!U64
    BY <1>5, <2>1, Sizes DEF Wrapper!IssueAsset, Wrapper!CanMint
  <2> QED BY <1>5, <2>2 DEF Wrapper!IssueAsset, Wrapper!Minted, Wrapper!TypeOK
<1>6. ASSUME NEW w \in Wallets, NEW o \in Wrapper!AssetOwners, NEW n \in Amounts,
             Wrapper!TransferAsset(w, o, n)
      PROVE  Wrapper!TypeOK' /\ VaultOwnsMint'
  <2>1. asset' \in [Wrapper!AssetOwners -> Wrapper!U64]
    BY <1>0, <1>6, Sizes, MoveAssetEffect DEF Wrapper!TransferAsset
  <2> QED BY <1>6, <2>1 DEF Wrapper!TransferAsset, Wrapper!TypeOK
<1>7. ASSUME NEW v \in Wallets, NEW w \in Wallets, NEW n \in Amounts,
             Wrapper!TransferPToken(v, w, n)
      PROVE  Wrapper!TypeOK' /\ VaultOwnsMint'
  <2>1. pToken[v] \in Nat /\ pToken[v] <= MaxU64 /\ pToken[w] \in Nat /\ n \in Nat
    BY <1>0, Sizes
  <2>2. n <= pToken[v] /\ (v # w => pToken[w] + n <= MaxU64)
    BY <1>7 DEF Wrapper!TransferPToken, Wrapper!CanTransfer
  <2>3. pToken[v] - n \in Wrapper!U64 /\ (v # w => pToken[w] + n \in Wrapper!U64)
    BY <2>1, <2>2, Sizes
  <2>4. pToken' \in [Wallets -> Wrapper!U64]
    BY <1>0, <1>7, <2>3 DEF Wrapper!TransferPToken, Wrapper!Transferred
  <2> QED BY <1>7, <2>4 DEF Wrapper!TransferPToken, Wrapper!TypeOK
<1>8. ASSUME NEW w \in Wallets, NEW n \in Amounts, Wrapper!BurnPToken(w, n)
      PROVE  Wrapper!TypeOK' /\ VaultOwnsMint'
  BY <1>0, <1>8, Sizes, BurnPEffect DEF Wrapper!BurnPToken, Wrapper!TypeOK
<1>9. ASSUME NEW v \in Wallets, NEW w \in Wallets, NEW n \in Amounts,
             Wrapper!CreatorMints(v, w, n)
      PROVE  Wrapper!TypeOK' /\ VaultOwnsMint'
  BY <1>0, <1>9, Sizes, MintPEffect DEF Wrapper!CreatorMints, Wrapper!TypeOK
<1>10. ASSUME NEW w \in Wallets, Wrapper!CreatorHandsOver(w)
       PROVE  Wrapper!TypeOK' /\ VaultOwnsMint'
  BY <1>0, <1>10, Sizes DEF Wrapper!CreatorHandsOver, Wrapper!TypeOK, Wrapper!PMint
<1>11. CASE UNCHANGED Wrapper!vars
  BY <1>11 DEF Wrapper!vars, Wrapper!TypeOK
<1> QED BY <1>1, <1>2, <1>3, <1>4, <1>5, <1>6, <1>7, <1>8, <1>9, <1>10, <1>11
        DEF Wrapper!Next, Wrapper!Program, Wrapper!Environment

-------------------------------------------------------------------------------
(* The invariant of the composition *)

LEMMA InductiveParts ==
  Inductive <=> /\ Wrapper!TypeOK /\ VaultOwnsMint
                /\ RegistryInv
                /\ metaList \in BOOLEAN
  BY DEF Inductive, TypeOK, VaultOwnsMint, RegistryInv, AllRents

LEMMA InductivePartsAfter ==
  Inductive' <=> /\ Wrapper!TypeOK' /\ VaultOwnsMint'
                 /\ RegistryInv'
                 /\ metaList' \in BOOLEAN
  BY DEF Inductive, TypeOK, VaultOwnsMint, RegistryInv, AllRents

(* Whatever the vault, the registry, the hook and the wallets do, in        *)
(* whatever order.                                                         *)
THEOREM InductiveHolds == Spec => []Inductive
<1>1. Init => Inductive
  BY VaultInit, RegistryInit, InductiveParts DEF Init, Hook!Init
<1>2. Inductive /\ [Next]_vars => Inductive'
  <2> SUFFICES ASSUME Inductive, [Next]_vars PROVE Inductive'
    OBVIOUS
  <2>1. /\ [Wrapper!Next]_(Wrapper!vars) /\ [Identity!Next]_(Identity!vars)
        /\ metaList' = metaList \/ metaList' = TRUE
    BY StepOfParts
  <2>2. Wrapper!TypeOK' /\ VaultOwnsMint'
    BY <2>1, InductiveParts, VaultStepInv
  <2>3. RegistryInv'
    BY <2>1, InductiveParts, RegistryStepInv
  <2>4. metaList' \in BOOLEAN
    BY <2>1, InductiveParts
  <2> QED BY <2>2, <2>3, <2>4, InductivePartsAfter
<1> QED BY <1>1, <1>2, PTL DEF Spec

(* Balances, supplies and counters stay within u64 and nobody spends        *)
(* lamports it does not have.                                              *)
THEOREM TypeCorrect == Spec => []TypeOK
<1>1. Inductive => TypeOK
  BY DEF Inductive
<1> QED BY <1>1, InductiveHolds, PTL

(* Every rent paid is in an account that exists or back with a signer,      *)
(* however often wallets are verified and revoked and by whom.             *)
THEOREM RentConservedAlways == Spec => []RentConserved
<1>1. Inductive => RentConserved
  BY DEF Inductive
<1> QED BY <1>1, InductiveHolds, PTL

-------------------------------------------------------------------------------
(* Who may get pTokens *)

(* Only the registry's authority of the moment pays for a credential or is  *)
(* paid for one, however often the registry changed hands; a registry with *)
(* a key that nobody signs for stays as it is, its credentials with it.    *)
THEOREM OnlyAuthorityActsAlways == Spec => OnlyAuthorityActs
<1> DEFINE Acts == \A s \in Signers :
                     lamports'[s] # lamports[s] => config \in {NoKey, s}
           Stays == config \notin Signers \cup {NoKey} =>
                      UNCHANGED <<config, credential>>
<1>1. Inductive /\ [Next]_vars => [Acts /\ Stays]_(Identity!vars)
  <2> SUFFICES ASSUME Inductive, [Next]_vars PROVE Acts /\ Stays
    OBVIOUS
  <2>1. [Identity!Next]_(Identity!vars)
    BY StepOfParts
  <2>2. Acts
    BY <2>1, InductiveParts, RegistryStepInv
  <2>3. Stays
    BY <2>1 DEF Identity!Next, Identity!vars, Identity!Initialize, Identity!VerifyWallet,
                Identity!RevokeWallet, Identity!SetAuthority, Identity!IsAuthority
  <2> QED BY <2>2, <2>3
<1> QED BY <1>1, InductiveHolds, PTL
        DEF Spec, OnlyAuthorityActs, Identity!OnlyAuthorityActs

(* Which step adds to a wallet's pTokens: a wrap of its own, which is paid   *)
(* for; a transfer the hook let through; or the creator of a mint that is  *)
(* not the vault's yet.  The first and the last add to the supply.         *)
LEMMA HowToGain ==
  ASSUME Inductive, [Next]_vars, NEW w \in Wallets, pToken'[w] > pToken[w]
  PROVE  \/ /\ metaList /\ credential[w] # NoKey
         \/ /\ pMint'.supply > pMint.supply
            /\ asset[w] - asset'[w] >= pToken'[w] - pToken[w]
         \/ /\ pMint'.supply > pMint.supply
            /\ vault = NoVault
<1> DEFINE Gained == \/ /\ metaList /\ credential[w] # NoKey
                     \/ /\ pMint'.supply > pMint.supply
                        /\ asset[w] - asset'[w] >= pToken'[w] - pToken[w]
                     \/ /\ pMint'.supply > pMint.supply
                        /\ vault = NoVault
<1>0. /\ Wrapper!TypeOK /\ VaultOwnsMint
      /\ pToken \in [Wallets -> Wrapper!U64] /\ pMint \in Wrapper!PMint
      /\ pMint.supply \in Nat /\ pToken[w] \in Nat
      /\ asset[w] \in Nat
  BY InductiveParts, Sizes DEF Wrapper!TypeOK, Wrapper!PMint
<1>1. ASSUME NEW u \in Wallets, NEW n \in Amounts, Wrapper!Wrap(u, n)
      PROVE  Gained
  <2>1. PICK net \in 0 .. n :
          /\ pMint'.supply = pMint.supply + net
          /\ pToken' = [pToken EXCEPT ![u] = @ + net]
          /\ asset'[u] = asset[u] - n
    BY <1>0, <1>1, WrapEffect
  <2>2. n \in Nat
    BY Sizes
  <2>3. u = w
    BY <1>0, <2>1
  <2> QED BY <1>0, <2>1, <2>2, <2>3
<1>2. ASSUME NEW u \in Wallets, NEW n \in Amounts, Wrapper!Unwrap(u, n)
      PROVE  FALSE
  <2>1. n \in Nat /\ pToken' = [pToken EXCEPT ![u] = @ - n]
    BY <1>0, <1>2, UnwrapEffect
  <2> QED BY <1>0, <2>1
<1>3. ASSUME NEW v \in Wallets, NEW u \in Wallets, NEW n \in Amounts,
             TransferPToken(v, u, n)
      PROVE  Gained
  <2>1. /\ metaList /\ credential[u] # NoKey
        /\ pToken' = Wrapper!Transferred(pToken, v, u, n, n)
    BY <1>3 DEF TransferPToken, Hook!TransferHook, Hook!ResolvedCredential,
                Wrapper!TransferPToken
  <2>2. n \in Nat /\ pToken[v] \in Nat
    BY <1>0, Sizes
  <2>3. u = w
    BY <1>0, <2>1, <2>2 DEF Wrapper!Transferred
  <2> QED BY <2>1, <2>3
<1>4. ASSUME NEW u \in Wallets, NEW n \in Amounts, Wrapper!BurnPToken(u, n)
      PROVE  FALSE
  <2>1. n \in Nat /\ pToken' = [pToken EXCEPT ![u] = @ - n]
    BY <1>0, <1>4, Sizes, BurnPEffect DEF Wrapper!BurnPToken
  <2> QED BY <1>0, <2>1
<1>5. ASSUME NEW v \in Wallets, NEW u \in Wallets, NEW n \in Amounts,
             Wrapper!CreatorMints(v, u, n)
      PROVE  Gained
  <2>1. /\ n \in Nat /\ Wrapper!MintP(v, u, n)
        /\ pToken' = [pToken EXCEPT ![u] = @ + n]
        /\ pMint'.supply = pMint.supply + n
    BY <1>0, <1>5, Sizes, MintPEffect DEF Wrapper!CreatorMints
  <2>2. pMint.authority # VaultPda
    BY <2>1, Sizes DEF Wrapper!MintP
  <2>3. n > 0
    BY <1>0, <2>1
  <2> QED BY <1>0, <2>1, <2>2, <2>3 DEF VaultOwnsMint
<1>6. CASE pToken' = pToken
  BY <1>0, <1>6
<1> QED BY <1>1, <1>2, <1>3, <1>4, <1>5, <1>6
        DEF Next, VaultStep, RegistryStep, HookStep, OutsideStep, Wrapper!Program,
            Wrapper!InitializeVault, Wrapper!CollectFees, Wrapper!IssueAsset,
            Wrapper!TransferAsset, Wrapper!CreatorHandsOver, wrapperVars, vars

(* A step that mints none adds pTokens only to a wallet that holds a        *)
(* credential at that moment: a revocation closes the way in at once.      *)
THEOREM GatedReceiptAlways == Spec => GatedReceipt
<1> DEFINE Gated == \A w \in Wallets :
             pToken'[w] > pToken[w] /\ pMint'.supply <= pMint.supply
               => metaList /\ Verified(w)
<1>1. Inductive /\ Inductive' /\ [Next]_vars => [Gated]_vars
  <2> SUFFICES ASSUME Inductive, Inductive', [Next]_vars, NEW w \in Wallets,
                      pToken'[w] > pToken[w], pMint'.supply <= pMint.supply
               PROVE  metaList /\ credential[w] # NoKey
    BY DEF Verified
  <2>1. pMint.supply \in Nat /\ pMint'.supply \in Nat
    BY InductiveParts, InductivePartsAfter, Sizes DEF Wrapper!TypeOK, Wrapper!PMint
  <2> QED BY <2>1, HowToGain
<1> QED BY <1>1, InductiveHolds, PTL DEF Spec, GatedReceipt

(* Once there is a vault, the only way past the hook is the wallet's own    *)
(* asset: what it gains without a credential it paid for in the same step. *)
THEOREM UnverifiedOnlyByWrappingAlways == Spec => UnverifiedOnlyByWrapping
<1> DEFINE Paid == vault # NoVault =>
             \A w \in Wallets :
               pToken'[w] > pToken[w] /\ ~Verified(w)
                 => asset[w] - asset'[w] >= pToken'[w] - pToken[w]
<1>1. Inductive /\ [Next]_vars => [Paid]_vars
  BY HowToGain DEF Verified
<1> QED BY <1>1, InductiveHolds, PTL DEF Spec, UnverifiedOnlyByWrapping

===============================================================================
