CONSTANTS
  Procs = {p1}
  Ids = {s1, s2}
  Triggers <- ThreeKinds
  Policies = {"first-runs"}
  FIRST_RUNS_TRUST_THRESHOLD = 1
  MaxTime = 2
  MaxManual = 1
  MaxCrashes = 1
  Absent = absent
  Never = never
CHECK_DEADLOCK FALSE
SPECIFICATION FairSpec
INVARIANTS TypeOK SlotFiresOncePerCrash TrustIsEarned AcceptedIsKept
PROPERTY DueIsFired
