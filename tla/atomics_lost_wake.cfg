SPECIFICATION FairSpec
CONSTANTS
  t1 = t1
  t2 = t2
  t3 = t3
  l1 = l1
  l2 = l2
  l3 = l3
  l4 = l4
  a1 = a1
  a2 = a2
  None = None
  Threads <- TwoThreads
  Addresses = {a1}
  Unmapped = {}
  Values = {0, 1}
  Lists <- ThreeLists
  Counts = {1, 4}
  EventKinds = {"posix"}
  MaxCalls = 2
PROPERTIES
  NotifiedWaitReturns
CHECK_DEADLOCK FALSE
