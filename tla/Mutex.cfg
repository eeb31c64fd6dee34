CONSTANTS
  Threads = {t1, t2, t3}
  CPUs = {c1, c2}
  None = None
SPECIFICATION FairSpec
CHECK_DEADLOCK FALSE
PROPERTIES
  ImplementsLock
  Progress
