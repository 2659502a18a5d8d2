SPECIFICATION FairExtractSpec
CONSTANTS
  Variable = {"x", "y"}
  MaxStmt = 4
  Programs <- MCPrograms
INVARIANTS TypeOK NoAffectsInvented NoAffectsMissed AffectsTIsClosure
PROPERTY ExtractionEnds
CHECK_DEADLOCK FALSE
