CONSTANTS
  b = b s = s
  w1 = w1 w2 = w2 r1 = r1 r2 = r2 x = x
  f = f g = g
  Orders <- MCOrders
  Files = {f, g}
  Contested = {f}
  Ids <- MCIds
  IdOf <- MCIdOf
  KeyOf <- MCKeyOf
  Position <- MCPosition
  ScopeOf <- MCScopeOf
  DependsOn <- MCDependsOn
  Writers = {w1, w2}
  MaxWorkers = 2
  MaxExplore = 2
  MaxWrite = 2
  Calls <- MCCalls
  Singles = {s}
  CallOf <- MCCallOf
  Refused = {}
  TierLocked = {r1, x}
  Upgradable = {w1}
  Retries <- MCRetries
  MaxUpgrades = 1
  Threshold = 1
  After <- MCAfter
  MayShutDown = TRUE
  Faults <- MCFaults
  Nothing = nothing
CHECK_DEADLOCK FALSE
SPECIFICATION FairSpec
INVARIANTS TypeOK NothingLeftBehind 
PROPERTIES BatchSpec NoStartAfterAbort CallEnds
