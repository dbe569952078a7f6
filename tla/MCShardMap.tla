----------------------------- MODULE MCShardMap -----------------------------
(* Model values and bounds for checking ShardMap with TLC. *)
EXTENDS ShardMap, TLC

CONSTANTS r1, r2, c1, c2

TwoBackends == {r1, r2}
OneBackend == {r1}
Addresses == {c1, c2}

\* Connection strings and backends are interchangeable model values.
Symmetry == Permutations(Addresses) \cup Permutations(TwoBackends)

=============================================================================
