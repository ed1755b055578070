CONSTANTS
  r1 = r1
  r2 = r2
  r3 = r3
  v1 = v1
  v2 = v2
  Reward = {r1, r2, r3}
  QueueLen = 3
  Vesting = {v1, v2}
  Dropped <- TwoDropped
  Held <- OneHeld
  Terms <- SmallTerms
  MaxCalls = 2
  MaxSteps = 3
  None = None
SPECIFICATION Spec
INVARIANTS OfferIsOldestClaimable VestingsAreShown
PROPERTY NoneForfeited
CHECK_DEADLOCK FALSE
