CONSTANTS
  shell = shell
  job = job
  kid = kid
  Procs = {shell, job, kid}
  COLS = 3
  ROWS = 3
  MAX_PARAMS = 5
  UINT_MOD = 65536
  LINE_MAX = 3
  INPUT_BUFFER_SIZE = 4
  None = None
  Scenarios <- mcScroll
SPECIFICATION Spec
CHECK_DEADLOCK FALSE
INVARIANT ScrollEnds
