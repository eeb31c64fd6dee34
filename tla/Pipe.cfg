CONSTANTS
  Readers = {r1}
  Writers = {w1, w2}
  Bytes = {0, 1}
  PIPE_SIZE = 2
  MaxLen = 2
  None = None
SPECIFICATION Spec
CHECK_DEADLOCK FALSE
INVARIANTS
  SleepersHaveReason
  FreedOnceUnused
PROPERTIES
  ImplementsFifo
