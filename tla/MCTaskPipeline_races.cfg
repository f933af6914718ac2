SPECIFICATION Spec
CONSTANTS
  Task = {t1}
  Slot = {w1, w2}
  Request = {d1}
  Cleaner = cleaner
  NoTask = NoTask
  NoSlot = NoSlot
  Attempts = 2
  MaxStalled = 1
  CommitLost = TRUE
  QueueFaults = TRUE
  LockFaults = TRUE
  MaxFaults = 1
  MaxCrashes = 2
CHECK_DEADLOCK FALSE
SYMMETRY Symmetry
PROPERTY KeepsCustody
INVARIANTS
  TypeOK
  ErasureIsFinal
  AcceptedIsKept
