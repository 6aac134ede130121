SPECIFICATION Spec
CONSTANTS
  p1 = p1
  p2 = p2
  s1 = s1
  s2 = s2
  None = None
  Pickers = {p1, p2}
  Requests <- AllRequests
  Candidates = {1, 2, 3, 4, 5}
  Provider <- Providers
  Priority <- Tiers
  Broad <- BroadAliases
  Strict <- StrictAliases
  Rows <- AllRows
  Limit = 1
  MaxCursors = 2
  CursorTTL = 1
  PruneEvery = 2
  Turns = 2
  MaxBindings = 1
  BindingTTL = 2
  EvictSample = 1
  Horizon = 1
  MaxChanges = 1
  MaxPicks = 3
  Scenes <- AllScenes
CHECK_DEADLOCK FALSE
INVARIANTS MapsBounded DelegatesOnlyUnfiltered ReturnsBestAvailable SaturationIsTotal RotationIsFair
PROPERTY SessionMovesForAReason
