SPECIFICATION Spec
CONSTANTS
  p1 = p1  p2 = p2  p3 = p3
  NoProc = NoProc
  Node <- MCNode
  Programs <- MCTwoCalls
INVARIANT NoNextBipTMissed
CHECK_DEADLOCK FALSE
