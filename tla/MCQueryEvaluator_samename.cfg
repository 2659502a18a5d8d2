SPECIFICATION Spec
CONSTANTS
  a = a
  b = b
  n = n
  Wildcard = Wildcard
  Synonym <- MCSynonym
  Value <- MCValue
  Domain <- MCDomain
  Clauses <- SameNameClauses
  MaxClauses = 3
INVARIANT NoAnswerLost
CHECK_DEADLOCK FALSE
