SPECIFICATION FairSpec
CONSTANTS
  MAX_PROCS = 3
  CPUs = {c0, c1}
  BSP = c0
  SCHED_QUANTUM = 1
  MaxSleep = 1
  Spaces = {s1, s2}
  Ops = {"kthread", "sleep"}
  Idle = Idle
  None = None
  Kernel = Kernel
  AnyPid = AnyPid
  SleepChannel = SleepChannel
INVARIANT NoPanic
PROPERTIES
  ReadyRuns
  SleepEnds
