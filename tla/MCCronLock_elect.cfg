CONSTANTS
  Procs = {p1, p2, p3}
  NoFile = noFile
  Corrupt = corrupt
  OldReclaim = TRUE
  MayRelease = TRUE
  MaxCrashes = 1
CHECK_DEADLOCK FALSE
SPECIFICATION FairSpec
INVARIANTS TypeOK OneWinner SomeWinner
PROPERTIES LiveLockKept SplitHeals
