SPECIFICATION EvaluateSpec
CONSTANTS
  a = a
  b = b
  n = n
  v = v
  Wildcard = Wildcard
  NoAnswer = NoAnswer
  Synonym <- MCSynonym
  Value <- MCValue
  Domain <- MCDomain
  Clauses <- MCClauses
  Attribute <- MCAttribute
  Selections <- MCSelections
  MaxClauses = 3
INVARIANTS
  TypeOK
  NoAnswerLost
  NoAnswerInvented
PROPERTY
  AnswersCorrectly
CHECK_DEADLOCK FALSE
