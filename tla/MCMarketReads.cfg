CONSTANTS
  o1 = o1
  o2 = o2
  a1 = a1
  m1 = m1
  s1 = s1
  Order = {o1, o2}
  OpenOrders = {a1}
  Foreign = foreign
  MsrmAccount = {m1}
  SrmAccount = {s1}
  Balance <- Balances
  Start <- Starts
  Duration = {0, 1}
  SupportsSrm = TRUE
  Call = {c1, c2}
  MaxTime = 1
  MaxChanges = 2
  None = None
CONSTRAINT OneKind
SYMMETRY Symmetry
SPECIFICATION Spec
INVARIANTS OwnOrdersAreShown DiscountIsDue
CHECK_DEADLOCK FALSE
