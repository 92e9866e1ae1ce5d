SPECIFICATION Spec
CONSTANTS
  Me = Me
  Other = Other
  PoolPda = PoolPda
  NoKey = NoKey
  MaxU64 = 20000
  BPS = 400
  SWAP_FEE_BPS = 1
  Amounts = {399}
  Endowment = 1000
  R0 = 2000
  InitialReserves <- BothReserves
  Clicks = {c1, c2}
  MaxTrades = 1
  OtherSells = {FALSE}
  MaxFailures = 1
SYMMETRY ClickSymmetry
INVARIANTS ShownIsQuote Inductive FreshQuoteAccepted
PROPERTIES QuoteHonoured
