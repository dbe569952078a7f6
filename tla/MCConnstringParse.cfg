\* Strings of up to five characters over a, b and the comma; at most two
\* shards; a connection string holds at most two characters.
CONSTANTS
  Chars = {"a", "b"}
  MaxShards = 2
  ConnStrSize = 3
  MaxLen = 5

SPECIFICATION Spec

INVARIANT TypeOK
INVARIANT MapMatchesConnstring
