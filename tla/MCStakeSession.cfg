CONSTANTS
  mainnet = mainnet
  devnet = devnet
  srm = srm
  msrm = msrm
  token1 = token1
  v1 = v1
  i1 = i1
  i2 = i2
  i3 = i3
  None = None
  Shared = Shared
  Network = {mainnet, devnet}
  Registrar = {srm, msrm, token1}
  Vesting = {v1}
  Withdrawal = {}
  Home <- TwoNetworks
  First <- FirstListed
  Mainnet = mainnet
  Op = {i1, i2, i3}
  Members = {srm, token1}
  MaxWallets = 2
  MaxOverlap = 2
SPECIFICATION Spec
INVARIANTS WalletIsKnown MemberIsWhole SelectedIsSubscribed BootstrappedIsPopulated
PROPERTY SpinnerEnds
CHECK_DEADLOCK FALSE
