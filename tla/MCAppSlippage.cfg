SPECIFICATION Spec
CONSTANTS
  Me = Me
  Other = Other
  PoolPda = PoolPda
  NoKey = NoKey
  MaxU64 = 20000
  BPS = 400
  SWAP_FEE_BPS = 1
  Amounts = {400}
  Endowment = 1000
  R0 = 2000
  InitialReserves <- BothReserves
  Clicks = {c1}
  MaxTrades = 0
  OtherSells = {FALSE}
  MaxFailures = 0
INVARIANTS SlippageLimited
