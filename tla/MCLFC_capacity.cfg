\* One backend writing three chunks into a two-chunk slab while the size
\* limit is lowered and raised again.
CONSTANTS
  b1 = b1
  b2 = b2
  startup = startup
  k1 = k1
  k2 = k2
  k3 = k3
  Procs <- SingleBackend
  Evictors = {}
  Keys <- ChunkKeys
  BlocksPerChunk = 2
  BitsPerWord = 1
  MaxSize = 2
  InitLimit = 2
  SizeBound = 3
  Zero = Zero
  NoPage = NoPage

SPECIFICATION Spec
SYMMETRY KeySymmetry

INVARIANT SlabWithinCapacity
