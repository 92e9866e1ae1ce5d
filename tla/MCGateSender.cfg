SPECIFICATION Spec
CONSTANTS
  Wallets = {w1, w2}
  VaultPda = VaultPda
  NoVault = NoVault
  MaxU64 = 4
  BPS = 4
  MAX_FEE_BPS = 2
  FeeChoices = {2}
  Amounts = {1, 2}
  Decimals = {6}
  AssetDecimals = 6
  AssetFeeBps = 0
  FreshPMint = TRUE
  Signers = {w1, w2}
  NoKey = NoKey
  InitialLamports = 2
SYMMETRY WalletSymmetry
PROPERTIES OnlyBetweenVerified
