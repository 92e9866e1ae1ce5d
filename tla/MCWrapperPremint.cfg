SPECIFICATION Spec
CONSTANTS
  Wallets = {w1, w2}
  VaultPda = VaultPda
  NoVault = NoVault
  MaxU64 = 40
  BPS = 10000
  MAX_FEE_BPS = 500
  FeeChoices = {500}
  Amounts = {0, 20, 40}
  Decimals = {6}
  AssetDecimals = 6
  AssetFeeBps = 0
  FreshPMint = FALSE
SYMMETRY WalletSymmetry
INVARIANTS Solvent
PROPERTIES CustodyOnlyPaysClaims
