SPECIFICATION CastSpec
CONSTANTS
  m1 = m1
  m2 = m2
  p1 = p1
  p2 = p2
  r1 = r1
  s1 = s1
  w1 = w1
  w2 = w2
  v1 = v1
  Unknown = Unknown
  Closed = Closed
  Processes = {m1, m2}
  Pickers = {p1, p2}
  Workers = {r1}
  Maintainers = {s1}
  Writers = {w1, v1}
  ProcessOf <- Placement
  Restartable = {m1}
  MaxRevision = 2
INVARIANTS FiltersWithCurrentState ObservedIsReflected
PROPERTY SnapshotsMoveForward
