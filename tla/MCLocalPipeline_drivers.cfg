SPECIFICATION FairSpec
CONSTANTS
  Task = {t1, t2}
  Worker = {w1, w2}
  Request = {d1}
  NoTask = NoTask
  MaxFaults = 1
  MaxCrashes = 1
  MaxTroubles = 1
CHECK_DEADLOCK FALSE
INVARIANTS
  TypeOK
  RunOnce
  LossHasCause
  FilesMatchStatus
  QuietErasure
PROPERTY WholeJobResolves
