SPECIFICATION Spec
CONSTANTS
  MAX_PROCS = 3
  CPUs = {c0, c1}
  BSP = c0
  SCHED_QUANTUM = 2
  MaxSleep = 1
  Spaces = {s1, s2}
  Ops = {"kthread", "exit", "wait", "nohang"}
  Idle = Idle
  None = None
  Kernel = Kernel
  AnyPid = AnyPid
  SleepChannel = SleepChannel
INVARIANTS
  OneCpuPerStack
  WaiterNotForgotten
  OneHandlerPerSlot
  InterruptFlagFollowsProcess
VIEW View
