SPECIFICATION Spec
CONSTANTS
  Paragraph <- MCParagraph
  Level <- MCLevel
  Score <- MCScore
  Position <- MCPosition
  NoParagraph = NoParagraph
  View <- MCView
  FirstView = "first"
  Filter <- MCFilter
  Order <- MCOrder
  Kind = {"accept", "rollback"}
  Earlier <- MCEarlier
  MaxDecisions = 2
  NoDecision = NoDecision
  MaxExtras = 1
CHECK_DEADLOCK FALSE
INVARIANTS
  TypeOK
  ListIsCurrent
  ProcessedHasOperation
