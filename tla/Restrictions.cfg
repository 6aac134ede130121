SPECIFICATION FairSpec
CONSTANTS
  c1 = c1
  q1 = q1
  Callbacks = {c1}
  Trigger = q1
  ForbiddenThreshold = 2
  Fallback = 1
  Horizon = 2
  MaxEvents = 2
  MaxRuns = 1
  MaxIncidents = 1
  Scenes <- AllScenes
CHECK_DEADLOCK FALSE
INVARIANTS
  ReleasedIsInactive
  PublishedPicksSeeRestriction
  MaintenanceSettles
PROPERTIES
  LostBanIsRestored
  RecoveryIsNoticed
