CONSTANTS
  t1 = t1
  t2 = t2
  Users <- MCThreads
  MEMBLOCK_MAX = 3
  MAX_ORDER = 3
  PFN_4G = 4
  RamMaps <- MCRamMaps
  Reserved <- MCReserved
  BootPages = 1
  Orders0 = {1}
  Caches = {c1}
  SLAB_ORDER = 0
  OBJS = 2
  Nobody = Nobody
SPECIFICATION SlabSpec
CHECK_DEADLOCK FALSE
SYMMETRY MCSymmetry
INVARIANTS
  PagesAccounted
  FreeRunsFindable
  ObjectsOnce
