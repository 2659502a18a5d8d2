SPECIFICATION Spec
CONSTANTS
  a = a
  b = b
  n = n
  Wildcard = Wildcard
  Synonym <- MCSynonym
  Value <- MCValue
  Domain <- MCDomain
  Clauses <- AllClauses
  MaxClauses = 3
INVARIANT NoAnswerInvented
CHECK_DEADLOCK FALSE
