SPECIFICATION Spec
CONSTANTS
  Key = {k1, k2}
  Window = 2
  Limit = 2
  MaxTime = 6
  MaxRestarts = 1
CHECK_DEADLOCK FALSE
SYMMETRY Symmetry
INVARIANTS
  TypeOK
  BurstIsBounded
  RefusalIsDue
