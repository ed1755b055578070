CONSTANTS
  Usdc = Usdc
  Usdt = Usdt
  srm = srm
  btc = btc
  ftt = ftt
  Mint = {Usdc, Usdt, srm, btc, ftt}
  Listed <- FiveMarkets
  Pair <- SomePairs
  Call = {c1, c2}
  Account = {x1, x2, x3, x4}
SYMMETRY CallSymmetry
SPECIFICATION Spec
INVARIANTS TypeOK OnePath NoNeedlessAccount InitProvides OneAccountEach
  PairsHavePaths
CHECK_DEADLOCK FALSE
