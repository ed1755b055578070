CONSTANTS
  Null = Null
  KeyBits = 4
  Key <- FourKeys
  Quantity = {1}
  MaxIndex = 6
  Depth = {0, 1, 2}
  MaxCalls = 2
SPECIFICATION BookSpec
INVARIANTS ItemsInOrder GetFindsOrders FirstL2IsBest
CHECK_DEADLOCK FALSE
