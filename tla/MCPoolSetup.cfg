CONSTANTS
  c1 = c1
  c2 = c2
  A = A
  Sol = Sol
  Creator = Creator
  Lqd = Lqd
  FeeOwner = FeeOwner
  None = None
  Call = {c1, c2}
  Asset = {A, Sol}
  Request <- Requests
  Funds = 3
  Supply = 2
  MaxMove = 2
  MaxSpends = 1
SPECIFICATION Spec
INVARIANTS PoolsAreSound NothingLeftWrapped RefusedForCause NeverMoreThanExpected
CHECK_DEADLOCK FALSE
