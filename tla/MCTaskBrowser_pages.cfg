SPECIFICATION Spec
CONSTANTS
  Tab = {x1, x2}
  Call = {c1}
  MaxTasks = 2
  MaxChoices = 1
  MaxAge = 0
  MaxLosses = 1
CHECK_DEADLOCK FALSE
SYMMETRY Symmetry
INVARIANTS
  TypeOK
  DeletedIsTrue
  FormMakesOneTask
