SPECIFICATION FairSpec
CONSTANTS
  Main = Main
  None = None
  Slots = {s1, s2}
  Platforms = {"posix", "windows"}
  GuestCatches = {TRUE, FALSE}
INVARIANTS
  
  OutcomesAreExact
  
PROPERTIES
  ThreadsAreReclaimed
CHECK_DEADLOCK FALSE
