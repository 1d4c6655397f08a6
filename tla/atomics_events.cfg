SPECIFICATION FairSpec
CONSTANTS
  t1 = t1
  t2 = t2
  t3 = t3
  l1 = l1
  l2 = l2
  l3 = l3
  l4 = l4
  a1 = a1
  a2 = a2
  None = None
  Threads <- TwoThreads
  Addresses = {a1, a2}
  Unmapped = {a2}
  Values = {0, 1}
  Lists <- ThreeLists
  Counts = {1}
  EventKinds = {"posix", "windows"}
  MaxCalls = 3
PROPERTIES
  AutoResetWaitReturns
  BoundedCallsReturn
CHECK_DEADLOCK FALSE
