SPECIFICATION FairSpec
CONSTANTS
  t1 = t1
  t2 = t2
  i1 = i1
  i2 = i2
  tb = tb
  m = m
  g1 = g1
  g2 = g2
  k = k
  c1 = c1
  f1 = f1
  f2 = f2
  None = None
  Null = Null
  compartment = compartment
  Threads <- OneThread
  Instances = {i1, i2}
  Tables = {tb}
  Leaves = {m}
  MutableGlobals = {g1, g2}
  ImmutableGlobals = {k}
  Contexts = {c1}
  Functions = {f1, f2}
  OwnerOf <- Owner
  DefsOf <- Modules
  RefFunc = {g1, k}
  ImportSets <- Imports
  Order <- Enumeration
  Stored = {f2, tb}
  TableSize = 1
  MaxMutableGlobals = 2
  RootTargets = {f1, tb}
  MaxRoots = 1
  MaxCalls = 5
INVARIANTS
  NoDanglingReferences
  MarkingIsExact
  
PROPERTIES
  CollectionEnds
CHECK_DEADLOCK FALSE
