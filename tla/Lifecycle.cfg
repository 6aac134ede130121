SPECIFICATION Spec
CONSTANTS
  host = host
  watcher = watcher
  client = client
  None = None
  Threads = {host, watcher, client}
  TTL = 1
  Interval = 1
  MaxVersion = 1
  Scenes <- AllScenes
INVARIANT StoppedIsQuiet
INVARIANT RefreshesKeepTheirGeneration
INVARIANT RevisionsAreCovered
PROPERTY ShutdownEnds
CHECK_DEADLOCK FALSE
