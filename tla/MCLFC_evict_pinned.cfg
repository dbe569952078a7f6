\* A replica: the startup process evicts pages from the redo filter while a
\* backend reads and writes chunks of the same relation.
CONSTANTS
  b1 = b1
  b2 = b2
  startup = startup
  k1 = k1
  k2 = k2
  k3 = k3
  Procs <- ReplicaProcs
  Evictors <- StartupOnly
  Keys <- ChunkKeys
  BlocksPerChunk = 2
  BitsPerWord = 1
  MaxSize = 2
  InitLimit = 2
  SizeBound = 3
  Zero = Zero
  NoPage = NoPage

SPECIFICATION Spec
SYMMETRY KeySymmetry

INVARIANT LRUIffUnpinned
