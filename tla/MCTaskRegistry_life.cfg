CONSTANTS
  Tasks = {t1, t2}
  Execs = {e1, e2, e3}
  Keys = {k1}
  RetryKey = rk
  NoExec = noExec
  ForceFlags = {TRUE, FALSE}
  PoolWaits = TRUE
  Policies = {2}
  Timed = {TRUE, FALSE}
  MaxCrashes = 1
SPECIFICATION FairSpec
CHECK_DEADLOCK FALSE
INVARIANTS TypeOK AbortedIsDecided RunningIsExecuting TerminalIsStopping OneRetryFollows
PROPERTIES RunningEnds ImplementsLifecycle
