\* A handshake that fails once the reconnect budget is spent.
CONSTANTS
  Shards <- TwoShards
  MaxReconnect = 2
  MaxInFlight = 3

SPECIFICATION Spec

INVARIANT NoDoubleFree
