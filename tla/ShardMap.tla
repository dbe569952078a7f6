------------------------------ MODULE ShardMap ------------------------------
(***************************************************************************)
(* The shard map of libpagestore.c in shared memory and its lock-free     *)
(* protocol: the postmaster (AssignPageserverConnstring) bumps            *)
(* begin_update_counter, memcpy's the new map and bumps                    *)
(* end_update_counter; a backend (load_shard_map) reads both counters,     *)
(* copies num_shards and connstring[shard_no], and retries unless both     *)
(* counters are equal and unchanged.  When the counter it saw differs from *)
(* its pagestore_local_counter it drops all its pageserver connections.    *)
(*                                                                         *)
(* Every load and store of shared memory is a step.  The memcpy stores the *)
(* fields of ShardMap one at a time.  A connection string is a model       *)
(* value; a connection is represented by the string it was opened with.    *)
(*                                                                         *)
(* pg_atomic_read_u64 has no barrier semantics and load_shard_map has no   *)
(* barrier between its counter loads and its loads of the map.  With      *)
(* WeakLoadOrder (aarch64, where loads may be satisfied out of order) a    *)
(* reader may load the map before the counters; on x86 (TSO) it cannot.   *)
(***************************************************************************)
EXTENDS Integers, Sequences, FiniteSets

CONSTANTS
  Readers,       \* backends calling load_shard_map
  ConnStrs,      \* connection strings, as model values
  MaxShards,     \* MAX_SHARDS
  MaxUpdates,    \* model bound on the postmaster's map updates
  WeakLoadOrder, \* TRUE when the CPU may reorder the reader's loads
  NoConn         \* no connection / an unused connstring slot ("")

Shards == 0 .. MaxShards - 1

\* A parsed map, as ParseShardMap leaves it: the slots past num_shards are
\* zeroed by its memset.
ShardMaps ==
  { m \in [num_shards : 0 .. MaxShards, connstring : [Shards -> ConnStrs \cup {NoConn}]] :
      \A i \in Shards : (i < m.num_shards) <=> (m.connstring[i] # NoConn) }

EmptyMap == [num_shards |-> 0, connstring |-> [i \in Shards |-> NoConn]]

\* The fields of ShardMap in memory order: connstring[] then num_shards.
Fields == {<<"connstring", i>> : i \in Shards} \cup {<<"num_shards", 0>>}

VARIABLES
  begin,     \* begin_update_counter
  end,       \* end_update_counter
  shmap,     \* pagestore_shared->shard_map
  history,   \* history[v + 1]: the map installed by the v-th update
  wpc,       \* postmaster: "idle", "copy" or "end"
  wnew,      \* the map the postmaster is copying in
  wleft,     \* fields it has still to copy
  rpc,       \* reader: "idle", "load", "recheck_begin", "recheck_end", "done"
  rkind,     \* "route" (get_shard_number) or "connect" (pageserver_connect)
  loads,     \* the loads of the current try still to perform, in order
  shardNo,   \* the shard_no argument of the call
  rb, re,    \* the counters the reader loaded
  rn, rc,    \* num_shards and connstring[shard_no] it loaded
  local,     \* pagestore_local_counter
  conns      \* conns[r][s]: the connstring page_servers[s].conn was opened to

vars == <<begin, end, shmap, history, wpc, wnew, wleft,
          rpc, rkind, loads, shardNo, rb, re, rn, rc, local, conns>>

\* Program orders of the four loads of one try of the retry loop.
InOrder == <<"begin", "end", "num", "str">>
DataFirst == <<"num", "str", "begin", "end">>
LoadOrders == IF WeakLoadOrder THEN {InOrder, DataFirst} ELSE {InOrder}

WriterVars == <<begin, end, shmap, history, wpc, wnew, wleft>>
ReaderVars == <<rpc, rkind, loads, shardNo, rb, re, rn, rc, local, conns>>

\* PagestoreShmemInit zeroes the map and the counters and then calls
\* AssignPageserverConnstring with the configured string.  Backends reach
\* load_shard_map only through the neon smgr, which pg_init_libpagestore
\* installs only when that string is not empty, so the map at start has
\* shards; a reload may still install the empty map.
Init ==
  /\ \E m \in ShardMaps \ {EmptyMap} :
       /\ shmap = m
       /\ history = <<EmptyMap, m>>
       /\ begin = 1
       /\ end = 1
  /\ wpc = "idle" /\ wnew = EmptyMap /\ wleft = {}
  /\ rpc = [r \in Readers |-> "idle"]
  /\ rkind = [r \in Readers |-> "route"]
  /\ loads = [r \in Readers |-> << >>]
  /\ shardNo = [r \in Readers |-> 0]
  /\ rb = [r \in Readers |-> 0] /\ re = [r \in Readers |-> 0]
  /\ rn = [r \in Readers |-> 0] /\ rc = [r \in Readers |-> NoConn]
  /\ local = [r \in Readers |-> 0]
  /\ conns = [r \in Readers |-> [s \in Shards |-> NoConn]]

(***************************************************************************)
(* AssignPageserverConnstring in the postmaster.  The new string passed   *)
(* CheckPageserverConnstring, so it parses; nothing is written when the    *)
(* parsed map is byte-for-byte the one in shared memory.                   *)
(***************************************************************************)
\* Bug: the new map is copied in without bumping begin_update_counter.
WriterBegin_bug ==
  /\ wpc = "idle"
  /\ Len(history) <= MaxUpdates
  /\ \E m \in ShardMaps :
       /\ m # shmap
       /\ wnew' = m
  /\ begin' = begin
  /\ wleft' = Fields
  /\ wpc' = "copy"
  /\ UNCHANGED <<end, shmap, history>> /\ UNCHANGED ReaderVars

WriterBegin ==
  /\ wpc = "idle"
  /\ Len(history) <= MaxUpdates
  /\ \E m \in ShardMaps :
       /\ m # shmap
       /\ wnew' = m
  /\ begin' = begin + 1
  /\ wleft' = Fields
  /\ wpc' = "copy"
  /\ UNCHANGED <<end, shmap, history>> /\ UNCHANGED ReaderVars

\* One field of the memcpy between the two write barriers.
WriterCopy ==
  /\ wpc = "copy"
  /\ \E f \in wleft :
       /\ shmap' = IF f[1] = "num_shards"
                   THEN [shmap EXCEPT !.num_shards = wnew.num_shards]
                   ELSE [shmap EXCEPT !.connstring[f[2]] = wnew.connstring[f[2]]]
       /\ wleft' = wleft \ {f}
  /\ UNCHANGED <<begin, end, history, wpc, wnew>> /\ UNCHANGED ReaderVars

\* Bug: end_update_counter is bumped before the memcpy has finished.
WriterEnd_bug ==
  /\ wpc = "copy"
  /\ end' = end + 1
  /\ history' = Append(history, wnew)
  /\ wpc' = "idle"
  /\ UNCHANGED <<begin, shmap, wnew, wleft>> /\ UNCHANGED ReaderVars

WriterEnd ==
  /\ wpc = "copy"
  /\ wleft = {}
  /\ end' = end + 1
  /\ history' = Append(history, wnew)
  /\ wpc' = "idle"
  /\ UNCHANGED <<begin, shmap, wnew, wleft>> /\ UNCHANGED ReaderVars

(***************************************************************************)
(* load_shard_map in backend r, called by get_shard_number ("route",       *)
(* shard 0, no string wanted) or by pageserver_connect ("connect", which   *)
(* asserts that the shard has no connection).                              *)
(***************************************************************************)
Call(r, kind, s) ==
  /\ rpc[r] = "idle"
  /\ kind = "connect" => conns[r][s] = NoConn
  /\ rpc' = [rpc EXCEPT ![r] = "load"]
  /\ rkind' = [rkind EXCEPT ![r] = kind]
  /\ shardNo' = [shardNo EXCEPT ![r] = s]
  /\ \E o \in LoadOrders : loads' = [loads EXCEPT ![r] = o]
  /\ UNCHANGED <<rb, re, rn, rc, local, conns>> /\ UNCHANGED WriterVars

\* One load of a try: a counter, num_shards, or the strlcpy of the string.
Load(r) ==
  /\ rpc[r] = "load"
  /\ LET l == Head(loads[r]) IN
       /\ rb' = IF l = "begin" THEN [rb EXCEPT ![r] = begin] ELSE rb
       /\ re' = IF l = "end" THEN [re EXCEPT ![r] = end] ELSE re
       /\ rn' = IF l = "num" THEN [rn EXCEPT ![r] = shmap.num_shards] ELSE rn
       /\ rc' = IF l = "str" /\ rkind[r] = "connect"
                THEN [rc EXCEPT ![r] = shmap.connstring[shardNo[r]]] ELSE rc
  /\ loads' = [loads EXCEPT ![r] = Tail(@)]
  /\ rpc' = [rpc EXCEPT ![r] = IF Len(loads[r]) = 1 THEN "recheck_begin" ELSE "load"]
  /\ UNCHANGED <<rkind, shardNo, local, conns>> /\ UNCHANGED WriterVars

\* Bug: a failed check retries without loading the counters again.
Retry_bug(r) ==
  /\ rpc' = [rpc EXCEPT ![r] = "load"]
  /\ loads' = [loads EXCEPT ![r] = <<"num", "str">>]

\* Go round the do ... while loop again.
Retry(r) ==
  /\ rpc' = [rpc EXCEPT ![r] = "load"]
  /\ \E o \in LoadOrders : loads' = [loads EXCEPT ![r] = o]

\* Bug: the re-load of begin_update_counter is left out of the check.
RecheckBegin_bug(r) ==
  /\ rpc[r] = "recheck_begin"
  /\ IF rb[r] # re[r]
     THEN Retry(r)
     ELSE /\ rpc' = [rpc EXCEPT ![r] = "recheck_end"] /\ UNCHANGED loads
  /\ UNCHANGED <<rkind, shardNo, rb, re, rn, rc, local, conns>>
  /\ UNCHANGED WriterVars

\* After pg_memory_barrier: b != e || b != pg_atomic_read_u64(&begin) ...
RecheckBegin(r) ==
  /\ rpc[r] = "recheck_begin"
  /\ IF rb[r] # re[r] \/ rb[r] # begin
     THEN Retry(r)
     ELSE /\ rpc' = [rpc EXCEPT ![r] = "recheck_end"] /\ UNCHANGED loads
  /\ UNCHANGED <<rkind, shardNo, rb, re, rn, rc, local, conns>>
  /\ UNCHANGED WriterVars

\* ... || e != pg_atomic_read_u64(&end)
RecheckEnd(r) ==
  /\ rpc[r] = "recheck_end"
  /\ IF re[r] # end
     THEN Retry(r)
     ELSE /\ rpc' = [rpc EXCEPT ![r] = "done"] /\ UNCHANGED loads
  /\ UNCHANGED <<rkind, shardNo, rb, re, rn, rc, local, conns>>
  /\ UNCHANGED WriterVars

\* Bug: a changed counter is recorded but the connections are kept.
ResetConnections_bug(r) == conns[r]

\* pageserver_disconnect of every shard with a connection.
ResetConnections(r) ==
  IF local[r] # re[r] THEN [s \in Shards |-> NoConn] ELSE conns[r]

\* The call's locals go out of scope when it returns.
ClearScratch(r) ==
  /\ rkind' = [rkind EXCEPT ![r] = "route"]
  /\ shardNo' = [shardNo EXCEPT ![r] = 0]
  /\ rb' = [rb EXCEPT ![r] = 0] /\ re' = [re EXCEPT ![r] = 0]
  /\ rn' = [rn EXCEPT ![r] = 0] /\ rc' = [rc EXCEPT ![r] = NoConn]

\* The rest of load_shard_map, and of pageserver_connect when it called:
\* a shard_no past num_shards raises ERROR; a counter that moved since the
\* last call drops every connection; pageserver_connect then opens the
\* shard's connection to the string it loaded.
Finish(r) ==
  /\ rpc[r] = "done"
  /\ rpc' = [rpc EXCEPT ![r] = "idle"]
  /\ IF rkind[r] = "connect" /\ shardNo[r] >= rn[r]
     THEN UNCHANGED <<local, conns>>
     ELSE /\ local' = [local EXCEPT ![r] = re[r]]
          /\ conns' = [conns EXCEPT ![r] =
                        IF rkind[r] = "connect"
                        THEN [ResetConnections(r) EXCEPT ![shardNo[r]] = rc[r]]
                        ELSE ResetConnections(r)]
  /\ ClearScratch(r)
  /\ UNCHANGED <<loads>> /\ UNCHANGED WriterVars

\* pageserver_disconnect after an I/O error on the shard's connection.
Disconnect(r, s) ==
  /\ rpc[r] = "idle"
  /\ conns[r][s] # NoConn
  /\ conns' = [conns EXCEPT ![r][s] = NoConn]
  /\ UNCHANGED <<rpc, rkind, loads, shardNo, rb, re, rn, rc, local>>
  /\ UNCHANGED WriterVars

ReaderStep(r) ==
  Load(r) \/ RecheckBegin(r) \/ RecheckEnd(r) \/ Finish(r)

Next ==
  \/ WriterBegin \/ WriterCopy \/ WriterEnd
  \/ \E r \in Readers :
       \/ ReaderStep(r)
       \/ \E s \in Shards : Call(r, "route", 0) \/ Call(r, "connect", s)
                            \/ Disconnect(r, s)

\* The postmaster finishes an AssignPageserverConnstring it has begun (the
\* memcpy and the counter bump are straight-line code), and a backend that
\* is in load_shard_map keeps being scheduled.
Spec ==
  /\ Init /\ [][Next]_vars
  /\ WF_vars(WriterCopy \/ WriterEnd)
  /\ \A r \in Readers : WF_vars(ReaderStep(r))

(***************************************************************************)
(* Properties                                                              *)
(***************************************************************************)
TypeOK ==
  /\ begin \in Nat /\ end \in Nat /\ end <= begin
  /\ shmap \in [num_shards : 0 .. MaxShards,
                 connstring : [Shards -> ConnStrs \cup {NoConn}]]
  /\ wpc \in {"idle", "copy"} /\ wleft \subseteq Fields
  /\ rpc \in [Readers -> {"idle", "load", "recheck_begin", "recheck_end", "done"}]
  /\ conns \in [Readers -> [Shards -> ConnStrs \cup {NoConn}]]
  /\ local \in [Readers -> 0 .. Len(history) - 1]

\* A copy load_shard_map accepts is one map the postmaster installed, the
\* one its end_update_counter names: num_shards and the connection string
\* are never a mix of two updates, nor of a map half copied in.
ConsistentSnapshot ==
  \A r \in Readers : rpc[r] = "done" =>
    /\ re[r] < Len(history)
    /\ rn[r] = history[re[r] + 1].num_shards
    /\ rkind[r] = "connect" =>
         rc[r] = history[re[r] + 1].connstring[shardNo[r]]

\* Every open connection of a backend goes to the address its shard has in
\* the map version of the backend's pagestore_local_counter: connections
\* opened under an older map were dropped when the counter moved.
ConnectionsFollowMap ==
  \A r \in Readers : \A s \in Shards :
    conns[r][s] # NoConn =>
      conns[r][s] = history[local[r] + 1].connstring[s]

\* get_shard_number returns hash % n_shards with the n_shards it loaded:
\* the map it routes by has at least one shard.
RouteHasShards ==
  \A r \in Readers : (rpc[r] = "done" /\ rkind[r] = "route") => rn[r] > 0

\* Every call of load_shard_map returns, once the postmaster stops updating.
LoadShardMapReturns ==
  \A r \in Readers : (rpc[r] # "idle") ~> (rpc[r] = "idle")

=============================================================================
