CONSTANTS
  c1 = c1
  c2 = c2
  Call = {c1, c2}
  User = User
  Authority = Authority
  None = None
  Request <- Requests
  Config <- Configs
  PoolState <- PoolStates
  SlipUnit = 2
  SixMinutes = 1
  Hour = 2
  Start = 2
  MaxClock = 3
  MaxTrades = 1
SPECIFICATION Spec
INVARIANTS NothingLeftBehind OnlyThePoolRefuses SlippageIsTolerated
PROPERTIES ReadsAreFreshEnough
CHECK_DEADLOCK FALSE
