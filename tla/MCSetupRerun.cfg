SPECIFICATION Spec
CONSTANTS
  Payer = Payer
  Visitors = {v1, v2}
  PoolPda = PoolPda
  FaucetSigner = FaucetSigner
  NoKey = NoKey
  NoFaucet = NoFaucet
  OtherAccount = OtherAccount
  MAX_DRIP = 2
  MaxU64 = 32
  InitialLamports = 8
  DRIP = 1
  SIGNER_FUNDING = 1
  MaxFaults = 3
INVARIANTS RerunEndsLikeFirstRun
