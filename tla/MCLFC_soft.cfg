\* Two backends of a primary with a limit of one chunk in a slab of two:
\* one backend holds a chunk pinned while the other admits a new chunk.
CONSTANTS
  b1 = b1
  b2 = b2
  startup = startup
  k1 = k1
  k2 = k2
  k3 = k3
  Procs <- PrimaryProcs
  Evictors = {}
  Keys <- ChunkKeys
  BlocksPerChunk = 1
  BitsPerWord = 1
  MaxSize = 2
  InitLimit = 1
  SizeBound = 3
  Zero = Zero
  NoPage = NoPage

SPECIFICATION FairSpec

PROPERTY SoftLimitIsTemporary
