SPECIFICATION FairSpec
CONSTANTS
  Paragraph = {p1}
  Documents = {"one-click"}
  NoParagraph = NoParagraph
  Request = {}
  Client = {c1, c2}
  MaxRedeliveries = 0
  MaxFaults = 0
CHECK_DEADLOCK FALSE
PROPERTIES
  TaskReturns
