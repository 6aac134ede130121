SPECIFICATION FairSpec
CONSTANTS
  p1 = p1
  p2 = p2
  o1 = o1
  Nobody = Nobody
  Pickers = {p1, p2}
  Openers = {o1}
  MaxAttempts = 2
  MaxRevision = 3
INVARIANT ObservedIsLoaded
PROPERTIES QuarantineMovesForward PicksEnd ImplementsCurrentView
