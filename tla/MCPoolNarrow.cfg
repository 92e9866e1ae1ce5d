SPECIFICATION Spec
CONSTANTS
  Users = {u1}
  PoolPda = PoolPda
  NoKey = NoKey
  SWAP_FEE_BPS = 25
  BPS = 10000
  P0 = 31
  Q0 = 31
  PEndowment <- EveryP
  QEndowment <- EveryQ
  Amounts = {1, 2, 4, 8, 24}
  MaxU64 = 31
PROPERTIES DepositsCreditedInFull
