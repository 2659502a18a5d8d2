SPECIFICATION FairSpec
CONSTANTS
  p1 = p1  p2 = p2  p3 = p3
  NoNode = NoNode
  Node <- MCNode
  Variable = {"x", "y"}
  Programs <- MCPrograms
INVARIANTS TypeOK ExplosionIsExecution PairsAreDefUse ClosureKeepsCopies
PROPERTY ExtractionEnds
CHECK_DEADLOCK FALSE
