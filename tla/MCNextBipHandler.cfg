SPECIFICATION FairSpec
CONSTANTS
  p1 = p1  p2 = p2  p3 = p3
  NoProc = NoProc
  Node <- MCNode
  Programs <- MCPrograms
INVARIANTS NoAssertionFails CfgBipIsFlow
           TypeOK NoNextBipTInvented NoNextBipTMissedIfSimple
PROPERTY SearchEnds
CHECK_DEADLOCK FALSE
