CONSTANTS
  Viewers = {v1}
  MaxEvents = 3
  MaxHooks = 1
  FlushLines = 3
  Since = {0, 2}
  MaxMade = 5
  MaxCrashes = 1
CHECK_DEADLOCK FALSE
SPECIFICATION FairSpec
INVARIANTS TypeOK LoadedIsTail ViewerComplete RunIsClosed
PROPERTIES CrashLosesChatter OpenIsServed
