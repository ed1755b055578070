CONSTANTS
  o1 = o1
  c1 = c1
  c2 = c2
  a1 = a1
  a2 = a2
  None = None
  Owner = {o1}
  Call = {c1, c2}
  Account = {a1, a2}
  CallerAccount = a1
  Duration = {0, 1}
  Option <- AnyOption
  Start = 2
  MaxClock = 3
SYMMETRY CallSymmetry
SPECIFICATION Spec
INVARIANTS TypeOK CreatesOnlyIfAbsent
PROPERTY ReadsAreFreshEnough
CHECK_DEADLOCK FALSE
