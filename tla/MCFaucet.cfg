SPECIFICATION Spec
CONSTANTS
  Wallets = {w1, w2}
  FaucetSigner = FaucetSigner
  NoKey = NoKey
  NoFaucet = NoFaucet
  OtherAccount = OtherAccount
  MAX_DRIP = 2
  DripChoices = {0, 1, 2, 3}
  TotalLamports = 6
  MaxU64 = 6
SYMMETRY WalletSymmetry
\* Wallets that gave all their lamports away can do nothing.
CHECK_DEADLOCK FALSE
INVARIANTS Inductive RentConserved
PROPERTIES VerifiedWithDripOnly SignerPaysForNewcomers DripsCapped
