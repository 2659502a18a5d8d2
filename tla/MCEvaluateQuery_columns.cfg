SPECIFICATION EvaluateSpec
CONSTANTS
  a = a
  b = b
  n = n
  v = v
  Wildcard = Wildcard
  NoAnswer = NoAnswer
  Synonym <- MCSynonym
  Value <- MCValue
  Domain <- MCDomain
  Clauses <- MCClauses
  Attribute <- MCAttribute
  Selections <- MCSecondColumns
  MaxClauses = 1
PROPERTY AnswersCorrectly
CHECK_DEADLOCK FALSE
