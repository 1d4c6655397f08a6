SPECIFICATION Spec
CONSTANTS
  t1 = t1
  t2 = t2
  t3 = t3
  l1 = l1
  l2 = l2
  l3 = l3
  l4 = l4
  a1 = a1
  a2 = a2
  None = None
  Threads <- ThreeThreads
  Addresses = {a1}
  Unmapped = {}
  Values = {0, 1}
  Lists <- FourLists
  Counts = {1, 4}
  EventKinds = {"windows"}
  MaxCalls = 5
SYMMETRY SymmetryThree
INVARIANTS
  HeldListIsLive
  NoMissedWake
  WakesConserved
CHECK_DEADLOCK FALSE
