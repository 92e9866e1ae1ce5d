SPECIFICATION Spec
CONSTANTS
  Users = {u1, u2}
  PoolPda = PoolPda
  NoKey = NoKey
  SWAP_FEE_BPS = 25
  BPS = 10000
  P0 = 6
  Q0 = 6
  PEndowment <- EveryP
  QEndowment <- EveryQ
  Amounts = {1, 3, 4}
  MaxU64 = 15
SYMMETRY WalletSymmetry
INVARIANTS Inductive LpBacked NoProfitFromDeposit OnlyDustIsRefused
PROPERTIES LpShareNeverFalls DepositDilutesNobody EmptyPoolCreditsSqrt
