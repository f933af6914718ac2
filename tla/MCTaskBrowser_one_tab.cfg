SPECIFICATION FairSpec
CONSTANTS
  Tab = {x1}
  Call = {c1, c2}
  MaxTasks = 1
  MaxChoices = 1
  MaxAge = 2
  MaxLosses = 1
CHECK_DEADLOCK FALSE
INVARIANTS
  DeletedIsTrue
  ExpiredIsTrue
PROPERTIES
  PageSettles
