\* get_shard_number on x86, with neon.pageserver_connstring non-empty at start
\* (else the neon smgr is not installed) and reloaded to "" later.
CONSTANTS
  r1 = r1
  r2 = r2
  c1 = c1
  c2 = c2
  Readers <- OneBackend
  ConnStrs <- Addresses
  MaxShards = 2
  MaxUpdates = 2
  WeakLoadOrder = FALSE
  NoConn = NoConn

SPECIFICATION Spec

INVARIANT RouteHasShards
