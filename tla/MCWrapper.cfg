SPECIFICATION Spec
CONSTANTS
  Wallets = {w1, w2}
  VaultPda = VaultPda
  NoVault = NoVault
  MaxU64 = 9
  BPS = 4
  MAX_FEE_BPS = 2
  FeeChoices = {0, 2, 3}
  Amounts = {0, 1, 2, 3}
  Decimals = {6, 9}
  AssetDecimals = 6
  AssetFeeBps = 0
  FreshPMint = TRUE
SYMMETRY WalletSymmetry
INVARIANTS TypeOK Solvent Backed Redeemable Inductive
PROPERTIES CustodyOnlyPaysClaims FeesCollectedWhole ReserveSpec
