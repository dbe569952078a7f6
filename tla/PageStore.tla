----------------------------- MODULE PageStore -----------------------------
(***************************************************************************)
(* One backend's page-store client with the shard map it reads: the       *)
(* connection and prefetch model PageServerConn, instantiated, with the    *)
(* map changes that were a free choice there made by the postmaster.      *)
(*                                                                         *)
(*  - The postmaster installs a new map (AssignPageserverConnstring).  A   *)
(*    backend's load_shard_map sees installed maps atomically: ShardMap    *)
(*    shows the seqlock gives consistent snapshots (ConsistentSnapshot),   *)
(*    so the copy is one step here.                                        *)
(*  - A request is routed (get_shard_number, whose load_shard_map drops   *)
(*    every connection when the map changed) and then sent to the shard it *)
(*    was routed to (pageserver_send); pageserver_connect loads the map    *)
(*    again, may raise for a shard past num_shards, and connects to the    *)
(*    shard's address in the map it loaded.                                *)
(*                                                                         *)
(* addr[s] is the address connection s was opened to; local is the index  *)
(* in maps of the map the backend last loaded (pagestore_local_counter).   *)
(***************************************************************************)
EXTENDS Integers, Sequences, FiniteSets

CONSTANTS
  Shards, MaxReconnect, MaxInFlight,  \* as in PageServerConn
  Addrs,        \* page-server addresses (connection strings)
  MaxUpdates,   \* model bound on the number of maps installed after start
  NoAddr, NoShard

VARIABLES
  conn, wire, pending, n, pc, cur, freed, nextId,  \* PageServerConn's
  maps,     \* the maps installed so far; the last one is in shared memory
  local,    \* pagestore_local_counter: the index of the map last loaded
  addr,     \* addr[s]: the address conn[s] was opened to
  routed,   \* the shard get_shard_number returned for the next send
  callMap   \* history: the index of the map installed when the current
            \* pageserver_send was called

connVars == <<conn, wire, pending, n, pc, cur, freed, nextId>>
vars == <<connVars, maps, local, addr, routed, callMap>>

Conn == INSTANCE PageServerConn

ShardMaps == [num_shards : 1 .. Cardinality(Shards), connstring : [Shards -> Addrs]]

Current == maps[Len(maps)]

\* load_shard_map finds end_update_counter # pagestore_local_counter.
Changed == local # Len(maps)

\* A connection that is closed forgets its address.
Forget == [s \in Shards |-> IF conn'[s] = "none" THEN NoAddr ELSE addr[s]]

Init ==
  /\ Conn!Init
  /\ \E m \in ShardMaps : maps = <<m>>
  /\ local = 0
  /\ addr = [s \in Shards |-> NoAddr]
  /\ routed = NoShard
  /\ callMap = 1

\* AssignPageserverConnstring installs a different map.
Install ==
  /\ Len(maps) <= MaxUpdates
  /\ \E m \in ShardMaps : m # Current /\ maps' = Append(maps, m)
  /\ UNCHANGED <<connVars, local, addr, routed, callMap>>

\* get_shard_number: load_shard_map, then hash % num_shards of the map.
RouteCall ==
  /\ routed = NoShard
  /\ Conn!RouteWith(Changed)
  /\ local' = Len(maps)
  /\ addr' = Forget
  /\ \E s \in Shards : s < Current.num_shards /\ routed' = s
  /\ UNCHANGED <<maps, callMap>>

\* pageserver_send(routed, request) begins.
Send ==
  /\ routed # NoShard
  /\ Conn!SendBegin(routed)
  /\ routed' = NoShard
  /\ addr' = Forget
  /\ callMap' = Len(maps)
  /\ UNCHANGED <<maps, local>>

\* pageserver_connect(cur): load_shard_map raises for a shard past
\* num_shards before looking at the counter; otherwise it drops every
\* connection if the map changed, records the counter, and the connection,
\* if it succeeds, goes to the shard's address in the map just loaded.
Connect ==
  \E o \in Conn!Outcomes :
    /\ (o = "no_such_shard") <=> (cur >= Current.num_shards)
    /\ Conn!ConnectWith(Changed, o)
    /\ local' = IF o = "no_such_shard" THEN local ELSE Len(maps)
    /\ addr' = IF o = "connected"
               THEN [Forget EXCEPT ![cur] = Current.connstring[cur]]
               ELSE Forget
    /\ UNCHANGED <<maps, routed, callMap>>

\* The rest of pageserver_send: the next turn of the reconnect loop, or the
\* write of the request.
SendStep ==
  /\ Conn!RetryConnect \/ Conn!SendPut
  /\ addr' = Forget
  /\ UNCHANGED <<maps, local, routed, callMap>>

\* The steps of PageServerConn outside pageserver_send.
ConnStep ==
  /\ \E s \in Shards : \/ Conn!Receive(s) \/ Conn!ReceiveFail(s)
                       \/ Conn!FlushFail(s) \/ Conn!ServerBreak(s)
  /\ addr' = Forget
  /\ UNCHANGED <<maps, local, routed, callMap>>

Next == Install \/ RouteCall \/ Send \/ Connect \/ SendStep \/ ConnStep

\* As in PageServerConn: the backend is not descheduled for ever inside
\* pageserver_send.  The postmaster's installs need no fairness.
Spec == Init /\ [][Next]_vars /\ WF_vars(Connect \/ SendStep)

(***************************************************************************)
(* Properties                                                              *)
(***************************************************************************)
TypeOK ==
  /\ Conn!TypeOK
  /\ maps \in Seq(ShardMaps) /\ local \in 0 .. Len(maps)
  /\ addr \in [Shards -> Addrs \cup {NoAddr}]
  /\ routed \in Shards \cup {NoShard} /\ callMap \in 1 .. Len(maps)

\* Every open connection goes to the address its shard has in the map the
\* backend last loaded: get_shard_number and pageserver_connect drop the
\* connections of an older map whenever they move pagestore_local_counter,
\* and pageserver_connect raises for a missing shard before moving it.
ConnectionsFollowLoadedMap ==
  \A s \in Shards :
    conn[s] # "none" => local > 0 /\ addr[s] = maps[local].connstring[s]

\* The prefetch queue stays aligned with the connections, now that map
\* changes drop connections when load_shard_map sees them.
ResponsesMatchRequests == Conn!ResponsesMatchRequests

\* spec.md B4 and scenario 5: a map installed between two calls makes the
\* next call close the connections of the old map, so pageserver_send
\* writes a request only on a connection to the address the shard has in
\* the map installed when it was called, or in a later one.
\* pageserver_send itself never loads the map: on an established
\* connection it writes at once.
SendsFollowInstalledMap ==
  [][Conn!SendPut /\ pending' = Append(pending, <<cur, nextId>>)
       => \E i \in callMap .. Len(maps) : addr[cur] = maps[i].connstring[cur]]_vars

\* Every pageserver_send returns, by a write or an ERROR, while the
\* postmaster moves shards between page servers: a map change only sends
\* the reconnect loop back to pageserver_connect under the same budget.
SendReturns == Conn!SendReturns

=============================================================================
