CONSTANTS
  srm = srm
  msrm = msrm
  main = main
  Network = {main}
  Registrar = {srm, msrm}
  Vesting = {}
  Withdrawal = {w1, w2}
  Home <- HomeOf
  First <- FirstOf
  Mainnet = main
  Shared = Shared
  None = None
  Call = {c1, c2, c3, c4}
SYMMETRY Symmetry
SPECIFICATION Spec
INVARIANTS RegistryOfRegistrar MemberIsReady ListIsTrue
CHECK_DEADLOCK FALSE
