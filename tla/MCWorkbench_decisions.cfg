SPECIFICATION Spec
CONSTANTS
  Paragraph = {p1}
  Documents = {"pdf", "workbench"}
  NoParagraph = NoParagraph
  Request = {r1, r2, r3}
  Client = {}
  MaxRedeliveries = 1
  MaxFaults = 1
CHECK_DEADLOCK FALSE
SYMMETRY Symmetry
INVARIANTS
  StatusHasEvidence
  LogAgreesWithStatus
  RollbackUndoesAccept
  DecisionsErased
