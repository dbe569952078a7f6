\* One backend calling load_shard_map for routing and for connecting while
\* the postmaster installs two new maps of up to two shards, on a CPU that
\* keeps the order of loads (x86).  The backends of the code do not share
\* any state of this protocol but the map, so one of them is enough.
CONSTANTS
  r1 = r1
  r2 = r2
  c1 = c1
  c2 = c2
  Readers <- OneBackend
  ConnStrs <- Addresses
  MaxShards = 2
  MaxUpdates = 2
  WeakLoadOrder = FALSE
  NoConn = NoConn

SPECIFICATION Spec

INVARIANT TypeOK
INVARIANT ConsistentSnapshot
INVARIANT ConnectionsFollowMap
PROPERTY LoadShardMapReturns
