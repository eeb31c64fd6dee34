CONSTANTS
  shell = shell
  job = job
  Procs = {shell, job}
  None = None
  Sigs <- mcSigs
  Programs <- mcPrograms
SPECIFICATION FairSpec
CHECK_DEADLOCK FALSE
INVARIANTS
  SleepersUninterrupted
  WaiterTold
  KilledNotStopped
PROPERTIES
  KillEnds
  PendingDelivered
