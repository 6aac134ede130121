SPECIFICATION Spec
CONSTANTS
  m1 = m1
  m2 = m2
  p1 = p1
  p2 = p2
  a1 = a1
  a2 = a2
  None = None
  Processes = {m1, m2}
  Pickers = {p1, p2}
  Accounts = {a1, a2}
  ProcessOf <- TwoProcesses
  Limits <- LimitOne
  Capacity <- CapacityOne
  Priority <- FirstPreferred
  Twins <- SharedAuthId
  TTL = 2
  PickDeadline = 1
  CleanupInterval = 2
  Horizon = 2
  MaxReservations = 2
  StrayCallbacks = TRUE
  Overrun = 1
SYMMETRY SwapProcesses
INVARIANTS TypeOK HardLimit LocksHeldByPick CleanupDurable RejectsOnlyWhenFull
PROPERTY ImplementsBudget
