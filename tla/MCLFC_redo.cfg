\* The startup process of a replica alone: writes, reads, evictions from the
\* redo filter and reloads of the size limit, one call at a time.
CONSTANTS
  b1 = b1
  b2 = b2
  startup = startup
  k1 = k1
  k2 = k2
  k3 = k3
  Procs <- StartupOnly
  Evictors <- StartupOnly
  Keys <- ChunkKeys
  BlocksPerChunk = 2
  BitsPerWord = 1
  MaxSize = 2
  InitLimit = 2
  SizeBound = 3
  Zero = Zero
  NoPage = NoPage

SPECIFICATION Spec
SYMMETRY KeySymmetry

INVARIANT LRUIffUnpinned
INVARIANT CachedPagesHoldTheirData
PROPERTY CacheSpec
