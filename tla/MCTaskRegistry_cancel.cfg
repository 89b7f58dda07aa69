CONSTANTS
  Tasks = {t1, t2}
  Execs = {e1, e2, e3}
  Keys = {k1}
  RetryKey = rk
  NoExec = noExec
  ForceFlags = {FALSE}
  PoolWaits = FALSE
  Policies = {2}
  Timed = {TRUE}
  MaxCrashes = 0
SPECIFICATION Spec
CHECK_DEADLOCK FALSE
INVARIANT CancelAborts
