SPECIFICATION FairSpec
CONSTANTS
  c1 = c1
  q1 = q1
  Callbacks = {c1}
  Trigger = q1
  ForbiddenThreshold = 2
  Fallback = 1
  Horizon = 2
  MaxEvents = 1
  MaxRuns = 0
  MaxIncidents = 1
  Scenes <- OneReplacement
CHECK_DEADLOCK FALSE
PROPERTY ReplacementIsNoticed
