SPECIFICATION FairSpec
CONSTANTS
  Paragraph = {p1, p2}
  Documents = {"one-click"}
  NoParagraph = NoParagraph
  Request = {r1}
  Client = {c1}
  MaxRedeliveries = 1
  MaxFaults = 0
CHECK_DEADLOCK FALSE
PROPERTIES
  TaskReturns
