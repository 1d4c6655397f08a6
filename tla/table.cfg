SPECIFICATION MCSpec
CONSTANTS
  t1 = t1
  t2 = t2
  tb1 = tb1
  tb2 = tb2
  f = f
  g = g
  None = None
  Null = Null
  OutOfBounds = OutOfBounds
  Uninitialized = Uninitialized
  Threads <- TwoThreads
  Tables <- TwoTables
  TypeMax <- MaxThree
  TypeMin <- MinOne
  MaxTableElems = 3
  Reserved = 4
  ElemsPerPage = 2
  Objects = {f, g}
  Segment <- FunctionAndNull
  InitialElements = {Uninitialized}
  Deltas <- SmallAndHuge
  HasQuota = {TRUE, FALSE}
  Limits = {3}
  Modulus = 8
  Operations = {"create", "clone", "grow", "fill", "copy", "init"}
  Offsets = {0, 1, 2}
  Counts = {1, 2, 3}
  MaxCalls = 4
INVARIANTS
  SizeIsExact
  QuotaIsExact
  CopyMovesAll
PROPERTIES
  WritesAreNotLost
  
CHECK_DEADLOCK FALSE
