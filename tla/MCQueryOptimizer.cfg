SPECIFICATION FairSpec
CONSTANTS
  a = a
  b = b
  c = c
  d = d
  Synonym <- MCSynonym
  Value <- MCValue
  Databases <- MCDatabases
  SortBeforeBfs = TRUE
  SortBeforeMerge = FALSE
INVARIANTS
  TypeOK
  MergingIsExact
  GroupsAreSeparate
PROPERTY
  EveryTableIsMerged
CHECK_DEADLOCK FALSE
