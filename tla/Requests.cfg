SPECIFICATION FairSpec
CONSTANTS
  m1 = m1
  m2 = m2
  p1 = p1
  p2 = p2
  a1 = a1
  a2 = a2
  None = None
  Accounts = {a1}
  Priority <- OnePriority
  Twins <- OneNoTwins
  PickDeadline = 1
  Processes = {m1}
  Pickers = {p1, p2}
  ProcessOf <- OneProcess
  Limits <- OneLimitVaries
  Capacity <- OneCapacityTwo
  TTL = 2
  CleanupInterval = 2
  Horizon = 3
  MaxReservations = 4
  StrayCallbacks = FALSE
  Overrun = 0
INVARIANT RequestsWithinLimit
PROPERTIES SlotsComeBack PicksEnd
