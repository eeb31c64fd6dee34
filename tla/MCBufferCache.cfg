SPECIFICATION Spec
CONSTANTS
    t1 = t1
    t2 = t2
    None = None
    Threads = {t1, t2}
    Blocks <- mcBlocks
    Bufs = {1, 2, 3, 4}
    BCACHE_MAX = 1
    MaxWrites = 2
    MaxErrors = 1
SYMMETRY Symmetry
INVARIANTS
  HeldBufferKept
  CacheCoherent
