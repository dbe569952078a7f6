\* One backend, two shards, two page-server addresses, one map change after
\* start, up to three requests in flight and a reconnect budget of one.
CONSTANTS
  a1 = a1
  a2 = a2
  Shards <- TwoShards
  Addrs <- TwoAddrs
  MaxReconnect = 1
  MaxInFlight = 3
  MaxUpdates = 1
  NoAddr = NoAddr
  NoShard = NoShard

SPECIFICATION Spec

INVARIANT TypeOK
INVARIANT ConnectionsFollowLoadedMap
INVARIANT ResponsesMatchRequests
PROPERTY SendReturns
