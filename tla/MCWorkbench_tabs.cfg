SPECIFICATION FairSpec
CONSTANTS
  Paragraph = {p1}
  Documents = {"one-click", "workbench"}
  NoParagraph = NoParagraph
  Request = {}
  Client = {c1, c2}
  MaxRedeliveries = 1
  MaxFaults = 1
CHECK_DEADLOCK FALSE
INVARIANTS
  TypeOK
  StageHasSession
  RowFollowsSession
PROPERTIES
  PreviewResolves
