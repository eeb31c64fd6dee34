CONSTANTS
  p1 = p1
  p2 = p2
  p3 = p3
  Procs <- MCProcs
  UserStart = 1
  UserEnd = 7
  MmapTop = 6
  StackMax = 2
  PtPages = 4
  Values = {1}
  Scenarios <- MCScenarios
  MapArgs <- MCMapArgs
  UnmapArgs <- MCUnmapArgs
  SbrkArgs <- MCSbrkArgs
  Copies = 7
  None = None
SPECIFICATION Spec
CHECK_DEADLOCK FALSE
SYMMETRY MCSymmetry
INVARIANTS
  FramesAccounted
  TlbAgrees
PROPERTIES
  ImplementsPrivate
