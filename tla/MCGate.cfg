SPECIFICATION Spec
CONSTANTS
  Wallets = {w1, w2}
  VaultPda = VaultPda
  NoVault = NoVault
  MaxU64 = 5
  BPS = 4
  MAX_FEE_BPS = 2
  FeeChoices = {0, 2}
  Amounts = {1, 2}
  Decimals = {6}
  AssetDecimals = 6
  AssetFeeBps = 0
  FreshPMint = FALSE
  Signers = {w1, w2}
  NoKey = NoKey
  InitialLamports = 2
SYMMETRY WalletSymmetry
\* A registry and an asset that nobody can move any more: all stops.
CHECK_DEADLOCK FALSE
INVARIANTS Inductive RentConserved
PROPERTIES GatedReceipt UnverifiedOnlyByWrapping OnlyAuthorityActs
