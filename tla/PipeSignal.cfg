CONSTANTS
  Readers = {r1}
  Writers = {w1}
  Bytes = {0}
  PIPE_SIZE = 1
  MaxLen = 1
  None = None
SPECIFICATION Spec
CHECK_DEADLOCK FALSE
INVARIANT SignalWakesSleeper
