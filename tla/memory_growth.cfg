SPECIFICATION FairSpec
CONSTANTS
  t1 = t1
  t2 = t2
  m1 = m1
  m2 = m2
  r1 = r1
  r2 = r2
  None = None
  Threads <- TwoThreads
  Memories <- TwoMemories
  Regions <- TwoRegions
  TypeMax <- MaxThree
  TypeMin <- MinZeroAndOne
  MaxMemoryPages = 3
  Reserved = 4
  Deltas <- OneAndHuge
  HasQuota = {TRUE, FALSE}
  Limits = {3}
  UnmapRanges = {{0}}
  Modulus = 8
  MaxCalls = 4
INVARIANTS
  ProtectionMatchesSize
  QuotaIsExact
  FaultsAreAttributed

  
  
CHECK_DEADLOCK FALSE
