\* One backend, two shards, two addresses: the postmaster installs a new
\* map while the backend has an established connection.
CONSTANTS
  a1 = a1
  a2 = a2
  Shards <- TwoShards
  Addrs <- TwoAddrs
  MaxReconnect = 1
  MaxInFlight = 3
  MaxUpdates = 1
  NoAddr = NoAddr
  NoShard = NoShard

SPECIFICATION Spec

PROPERTY SendsFollowInstalledMap
