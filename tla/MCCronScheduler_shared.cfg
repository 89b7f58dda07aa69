CONSTANTS
  Procs = {p1, p2}
  Ids = {s1, s2}
  Triggers <- Recurring
  Policies = {"always-review"}
  FIRST_RUNS_TRUST_THRESHOLD = 1
  MaxTime = 2
  MaxManual = 0
  MaxCrashes = 0
  Absent = absent
  Never = never
CHECK_DEADLOCK FALSE
SPECIFICATION Spec
INVARIANT AcceptedIsKept
