CONSTANTS
  m1 = m1
  m2 = m2
  ann = ann
  bob = bob
  cy = cy
  Address = {m1, m2}
  TxKey = {t1, t2}
  Owner = {ann, bob, cy}
  Wallet = ann
  Change <- Changes
  OwnerList <- OwnerLists
  Entered <- Enter
  Start <- Starts
  Opened = m1
  MaxCalls = 2
  MaxSteps = 3
  Undefined = Undefined
  None = None
SYMMETRY Symmetry
SPECIFICATION Spec
INVARIANTS TickMeansApproval PageIsCurrent WalletCanExecute
CHECK_DEADLOCK FALSE
