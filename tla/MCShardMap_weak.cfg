\* The same, on a CPU that may satisfy the loads of the map before the
\* loads of the counters (aarch64): a backend can accept a torn map.
CONSTANTS
  r1 = r1
  r2 = r2
  c1 = c1
  c2 = c2
  Readers <- OneBackend
  ConnStrs <- Addresses
  MaxShards = 2
  MaxUpdates = 2
  WeakLoadOrder = TRUE
  NoConn = NoConn

SPECIFICATION Spec

INVARIANT ConsistentSnapshot
