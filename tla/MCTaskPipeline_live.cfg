SPECIFICATION FairSpec
CONSTANTS
  Task = {t1}
  Slot = {w1}
  Request = {d1}
  Cleaner = cleaner
  NoTask = NoTask
  NoSlot = NoSlot
  Attempts = 2
  MaxStalled = 1
  CommitLost = TRUE
  QueueFaults = TRUE
  LockFaults = FALSE
  MaxFaults = 3
  MaxCrashes = 2
CHECK_DEADLOCK FALSE
INVARIANTS
  StatusMatchesResults
  AcknowledgedIsDone
PROPERTIES
  AcceptedResolves
  RetentionErases
