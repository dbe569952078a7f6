\* Two backends of a primary reading and writing three chunks of two pages
\* into a slab of two chunks, with reloads of the size limit.
CONSTANTS
  b1 = b1
  b2 = b2
  startup = startup
  k1 = k1
  k2 = k2
  k3 = k3
  Procs <- PrimaryProcs
  Evictors = {}
  Keys <- ChunkKeys
  BlocksPerChunk = 2
  BitsPerWord = 1
  MaxSize = 2
  InitLimit = 2
  SizeBound = 3
  Zero = Zero
  NoPage = NoPage

SPECIFICATION Spec
SYMMETRY Symmetry
VIEW PrimaryView

INVARIANT TypeOK
INVARIANT SlotAccounting
INVARIANT LRUIffUnpinned
INVARIANT PinsAreHeld
INVARIANT NoSlabRace
INVARIANT CachedPagesHoldTheirData
INVARIANT ReadReturnsRequestedPage
PROPERTY CacheSpec
PROPERTY ShrinkReachesLimit
PROPERTY RecordsFitCount
