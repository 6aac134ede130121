SPECIFICATION Spec
CONSTANTS
  p1 = p1
  p2 = p2
  k1 = k1
  k2 = k2
  s1 = s1
  s2 = s2
  None = None
  Processes = {p1, p2}
  Keys = {k1, k2}
  Secrets = {s1, s2}
  Databases <- AllDatabases
  Milliseconds = 1000
  Horizon = 2
  MaxWrites = 1
  MaxIncidents = 2
INVARIANTS
  UpgradeIsWhole
  RestrictionsSurvive
  MergeKeepsBest
  FingerprintsAreBound
PROPERTY
  ReservationsAreKept
