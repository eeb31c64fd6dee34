CONSTANTS
  t1 = t1
  t2 = t2
  NCPU = 2
  Threads <- MCThreads
  END = 7
  Frames = {f1, f2, f3}
  Sizes <- MCSizes
  Releases <- MCSizes
  PtPages = 8
  Touched <- MCTouched
  None = None
SPECIFICATION FairSpec
CHECK_DEADLOCK FALSE
INVARIANTS
  RequestAlive
  FrameInOnePlace
PROPERTIES
  OtherCpusFlushed
  ShootdownEnds
