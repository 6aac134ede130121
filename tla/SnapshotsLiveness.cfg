SPECIFICATION FairCastSpec
CONSTANTS
  m1 = m1
  m2 = m2
  p1 = p1
  p2 = p2
  r1 = r1
  s1 = s1
  w1 = w1
  w2 = w2
  v1 = v1
  Unknown = Unknown
  Closed = Closed
  Processes = {m1, m2}
  Pickers = {p1}
  Workers = {r1}
  Maintainers = {}
  Writers = {w1, w2}
  ProcessOf <- Placement
  Restartable = {}
  MaxRevision = 1
INVARIANT PendingFailsClosed
PROPERTIES UnknownIsTemporary StaleIsRefreshed ImplementsCurrentView
