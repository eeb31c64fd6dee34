\* Each of these fails on its own; take the others out to see the next one.
CONSTANTS
  t1 = t1
  t2 = t2
  NCPU = 2
  Threads <- MCThreads
  END = 7
  Frames = {f1, f2, f3, f4}
  Sizes <- MCSizes
  Releases <- MCSizes
  PtPages = 8
  Touched <- MCTouched
  None = None
SPECIFICATION Spec
CHECK_DEADLOCK FALSE
INVARIANTS
  AreasMapped
  NeverMappedTwice
  NoStaleTranslation
