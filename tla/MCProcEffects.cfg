SPECIFICATION FairSpec
CONSTANTS
  p1 = p1  p2 = p2  p3 = p3
  Node <- MCNode
  Variable <- MCNode
  Programs <- MCPrograms
INVARIANTS SortTypeOK OrderRespectsEdges ThrowsOnCycles CallsArePopulated EffectsAreReachable
PROPERTY Finishes
CHECK_DEADLOCK FALSE
