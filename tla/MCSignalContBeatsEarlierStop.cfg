CONSTANTS
  shell = shell
  job = job
  Procs = {job}
  None = None
  Sigs <- mcSigs
  Programs <- mcJobAlone
SPECIFICATION HSpec
CHECK_DEADLOCK FALSE
INVARIANT ContBeatsEarlierStop
