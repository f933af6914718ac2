SPECIFICATION DecisionsSpec
CONSTANTS
  Task = {t1}
  Worker = {w1}
  Request = {d1}
  Decision = {r1, r2}
  Kinds = {"accept", "reject", "feedback", "rollback"}
  Paragraph = {p1, p2}
  NoTask = NoTask
  NoParagraph = NoParagraph
  MaxFaults = 1
  MaxCrashes = 1
  MaxTroubles = 2
CHECK_DEADLOCK FALSE
SYMMETRY Symmetry
INVARIANTS
  DecisionsTypeOK
  DecisionKept
  HandledHasCause
  FindingsErased
