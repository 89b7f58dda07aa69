SPECIFICATION Spec
CONSTANTS
  r1 = r1
  r2 = r2
  r3 = r3
  r4 = r4
  q1 = q1
  q2 = q2
  Runs = {r1, r2, r3, r4}
  NoRun = NoRun
  Requests = {q1, q2}
  Timeouts = TRUE
  maxConsecutive = 2
  maxSessionTotal = 1
  progressThreshold = 2
SYMMETRY Symmetry
INVARIANT TypeOK
INVARIANT ApprovalsBelongToRun
INVARIANT ContinuationsAreBounded
PROPERTY AutoContinueYields
PROPERTY ImplementsSerialRuns
\* A deleted session, or one whose runs are used up, has nothing left to do.
CHECK_DEADLOCK FALSE
