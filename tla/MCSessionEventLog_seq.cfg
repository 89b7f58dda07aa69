CONSTANTS
  Viewers = {v1}
  MaxEvents = 3
  MaxHooks = 1
  FlushLines = 3
  Since = {0}
  MaxMade = 5
  MaxCrashes = 1
CHECK_DEADLOCK FALSE
SPECIFICATION Spec
INVARIANT UniqueSeq
