--------------------------- MODULE PageServerConn ---------------------------
(***************************************************************************)
(* The per-shard page-server connections of one backend (libpagestore.c): *)
(* pageserver_send with its reconnect loop and budget, pageserver_connect, *)
(* pageserver_receive, pageserver_flush and pageserver_disconnect, and the *)
(* contract of the prefetch queue they reset (prefetch_on_ps_disconnect,   *)
(* outside this repository: it drops every outstanding request and calls   *)
(* api.disconnect on every shard that had one).                            *)
(*                                                                         *)
(* Connections are process-local and a backend is single-threaded, so the *)
(* only concurrency is with the page servers, which may break a           *)
(* connection, fail a connect or handshake, or answer, at any time.        *)
(* A request is a number; a connection is "none", "ok" or "bad" (its       *)
(* PQstatus is CONNECTION_BAD).                                            *)
(***************************************************************************)
EXTENDS Integers, Sequences, SequencesExt

CONSTANTS
  Shards,        \* shard numbers
  MaxReconnect,  \* max_reconnect_attempts
  MaxInFlight    \* readahead_buffer_size: the prefetch ring's capacity

VARIABLES
  conn,      \* conn[s]: page_servers[s].conn
  wire,      \* wire[s]: requests written on conn[s] and not yet answered
  pending,   \* the prefetch queue: <<shard, request>> awaiting a response
  n,         \* n_reconnect_attempts (a static of the backend)
  pc,        \* "idle", "connect", "retry" (the loop of pageserver_send), "put"
  cur,       \* the shard of the pageserver_send in progress
  freed,     \* PQfinish calls on the PGconn of the last failed connect
  nextId     \* the number of the next request, modulo MaxInFlight + 1

vars == <<conn, wire, pending, n, pc, cur, freed, nextId>>

\* How one call of pageserver_connect ends: PQconnectdbParams gives
\* CONNECTION_BAD, PQsendQuery fails, PQconsumeInput fails in the handshake
\* loop, CHECK_FOR_INTERRUPTS raises in that loop, or the handshake finishes.
\* "no_such_shard" is load_shard_map's ERROR for a shard_no past num_shards,
\* raised before the changed map's connections are dropped.
Outcomes == {"no_such_shard", "connect_bad", "send_query_failed",
             "handshake_failed", "cancelled", "connected"}

Init ==
  /\ conn = [s \in Shards |-> "none"]
  /\ wire = [s \in Shards |-> << >>]
  /\ pending = << >>
  /\ n = 0
  /\ pc = "idle"
  /\ cur = CHOOSE s \in Shards : TRUE
  /\ freed = 0
  /\ nextId = 0

\* The shards that have a request in the prefetch queue.
PendingShards == {pending[i][1] : i \in DOMAIN pending}

(***************************************************************************)
(* Dropping connections.  Drop(D, reset) closes the shards in D (PQfinish, *)
(* FreeWaitEventSet), and when reset holds runs prefetch_on_ps_disconnect,  *)
(* which empties the queue and api.disconnects every shard in it.          *)
(***************************************************************************)
Drop(D, reset) ==
  LET closed == IF reset THEN D \cup PendingShards ELSE D IN
  /\ conn' = [t \in Shards |-> IF t \in closed THEN "none" ELSE conn[t]]
  /\ wire' = [t \in Shards |-> IF t \in closed THEN << >> ELSE wire[t]]
  /\ pending' = IF reset THEN << >> ELSE pending

\* Bug: the shard is closed without resetting the prefetch queue, as
\* pageserver_disconnect_shard (api.disconnect) does.
Disconnect_bug(s) == Drop({s}, FALSE)

\* pageserver_disconnect: reset prefetch if the shard had a connection,
\* then pageserver_disconnect_shard.
Disconnect(s) == Drop({s}, conn[s] # "none")

(***************************************************************************)
(* pageserver_send(s, request)                                             *)
(***************************************************************************)
\* A bad connection is dropped first; with no connection the reconnect
\* loop runs, else the request is written.
SendBegin(s) ==
  /\ pc = "idle"
  /\ Len(pending) < MaxInFlight
  /\ IF conn[s] = "bad" THEN Disconnect(s) ELSE UNCHANGED <<conn, wire, pending>>
  /\ pc' = IF conn[s] = "ok" THEN "put" ELSE "connect"
  /\ cur' = s
  /\ UNCHANGED <<n, freed, nextId>>

\* Bug: off by one, the budget allows one attempt more.
ErrorLevel_bug(attempts) == IF attempts <= MaxReconnect THEN "LOG" ELSE "ERROR"

\* n_reconnect_attempts < max_reconnect_attempts ? LOG : ERROR
ErrorLevel(attempts) == IF attempts < MaxReconnect THEN "LOG" ELSE "ERROR"

\* Bug: a failed attempt is not counted.
CountFailure_bug(attempts) == attempts

\* n_reconnect_attempts += 1
CountFailure(attempts) == attempts + 1

\* One iteration of while (!pageserver_connect(s, elevel)): load_shard_map
\* first drops every connection if the map changed; a failure at LOG level
\* is counted and retried, one at ERROR level (the budget is spent) leaves
\* pageserver_send by longjmp.  A handshake failure PQfinish'es the
\* connection and then logs at elevel; at ERROR the PG_CATCH block
\* PQfinish'es it again.  A success resets the budget.  mapChanged is what
\* load_shard_map finds: its counter differs from pagestore_local_counter.
ConnectWith(mapChanged, outcome) ==
  LET elevel == ErrorLevel(n)
      dropped == IF mapChanged /\ outcome # "no_such_shard"
                 THEN {t \in Shards : conn[t] # "none"} ELSE {}
      reset == dropped # {}
      closed == IF reset THEN dropped \cup PendingShards ELSE dropped
      conn1 == [t \in Shards |-> IF t \in closed THEN "none" ELSE conn[t]]
  IN
  /\ pc = "connect"
  /\ wire' = [t \in Shards |-> IF t \in closed THEN << >> ELSE wire[t]]
  /\ pending' = IF reset THEN << >> ELSE pending
  /\ IF outcome = "connected"
     THEN /\ conn' = [conn1 EXCEPT ![cur] = "ok"]
          /\ n' = 0
          /\ freed' = 0
          /\ pc' = "put"
     ELSE IF outcome = "no_such_shard"
     THEN /\ conn' = conn
          /\ UNCHANGED <<n, freed>>
          /\ pc' = "idle"
     ELSE /\ conn' = conn1
          /\ freed' = IF outcome = "handshake_failed" /\ elevel = "ERROR"
                      THEN 2 ELSE 1
          /\ n' = n
          /\ pc' = IF elevel = "LOG" /\ outcome # "cancelled"
                   THEN "retry" ELSE "idle"
  /\ UNCHANGED <<cur, nextId>>

\* pageserver_connect with a shard map that may have changed, in any way:
\* a shard past num_shards is possible only after a change.
ConnectAttempt ==
  \E mapChanged \in BOOLEAN, outcome \in Outcomes :
    /\ outcome = "no_such_shard" => mapChanged
    /\ ConnectWith(mapChanged, outcome)

\* The rest of the loop body after a failed connect at LOG level:
\* HandleMainLoopInterrupts, and the attempt is counted.
RetryConnect ==
  /\ pc = "retry"
  /\ n' = CountFailure(n)
  /\ pc' = "connect"
  /\ UNCHANGED <<conn, wire, pending, cur, freed, nextId>>

\* PQputCopyData: the request goes on the wire and into the prefetch queue,
\* or the write fails and the shard is disconnected.  The connection may
\* have gone bad since SendBegin.
SendPut ==
  /\ pc = "put"
  /\ \/ /\ conn[cur] = "ok"
        /\ wire' = [wire EXCEPT ![cur] = Append(@, nextId)]
        /\ pending' = Append(pending, <<cur, nextId>>)
        /\ UNCHANGED conn
     \/ Disconnect(cur)
  /\ pc' = "idle"
  /\ nextId' = (nextId + 1) % (MaxInFlight + 1)
  /\ UNCHANGED <<n, cur, freed>>

\* get_shard_number: its load_shard_map finds the map changed since the
\* backend last looked and pageserver_disconnects every connected shard
\* (the first of them resets prefetch).  With the map unchanged it only
\* computes hash % n_shards and changes nothing.
\* Bug: the counter is taken over without the disconnect loop.
RouteWith_bug(changed) ==
  /\ pc = "idle"
  /\ Drop({}, FALSE)
  /\ UNCHANGED <<n, pc, cur, freed, nextId>>

RouteWith(changed) ==
  /\ pc = "idle"
  /\ LET dropped == IF changed THEN {t \in Shards : conn[t] # "none"} ELSE {}
     IN Drop(dropped, dropped # {})
  /\ UNCHANGED <<n, pc, cur, freed, nextId>>

\* The map changed, while some shard is connected.
Route == RouteWith(TRUE) /\ \E t \in Shards : conn[t] # "none"

(***************************************************************************)
(* pageserver_receive(s) and pageserver_flush(s)                           *)
(***************************************************************************)
\* call_PQgetCopyData returns a message: the oldest request on the wire is
\* answered, and the prefetch queue takes its oldest entry for the shard.
Receive(s) ==
  /\ pc = "idle"
  /\ conn[s] = "ok"
  /\ wire[s] # << >>
  /\ LET i == SelectInSeq(pending, LAMBDA e : e[1] = s) IN
       pending' = RemoveAt(pending, i)
  /\ wire' = [wire EXCEPT ![s] = Tail(@)]
  /\ UNCHANGED <<conn, n, pc, cur, freed, nextId>>

\* rc == -1, rc == -2, another value, or an ERROR caught by PG_CATCH: in
\* every case the shard goes through pageserver_disconnect.
ReceiveFail(s) ==
  /\ pc = "idle"
  /\ conn[s] # "none"
  /\ Disconnect(s)
  /\ UNCHANGED <<n, pc, cur, freed, nextId>>

\* PQflush fails: pageserver_disconnect.  (A flush without a connection
\* only warns.)
FlushFail(s) ==
  /\ pc = "idle"
  /\ conn[s] = "ok"
  /\ Disconnect(s)
  /\ UNCHANGED <<n, pc, cur, freed, nextId>>

\* The page server goes away: the connection's status becomes bad and the
\* requests on it are never answered.
ServerBreak(s) ==
  /\ conn[s] = "ok"
  /\ conn' = [conn EXCEPT ![s] = "bad"]
  /\ UNCHANGED <<wire, pending, n, pc, cur, freed, nextId>>

BackendStep == SendPut \/ ConnectAttempt \/ RetryConnect

Next ==
  \/ BackendStep
  \/ Route
  \/ \E s \in Shards :
       \/ SendBegin(s) \/ Receive(s) \/ ReceiveFail(s) \/ FlushFail(s)
       \/ ServerBreak(s)

\* The backend is not descheduled for ever inside pageserver_send.
Spec == Init /\ [][Next]_vars /\ WF_vars(BackendStep)

(***************************************************************************)
(* Properties                                                              *)
(***************************************************************************)
TypeOK ==
  /\ conn \in [Shards -> {"none", "ok", "bad"}]
  /\ wire \in [Shards -> Seq(0 .. MaxInFlight)]
  /\ pending \in Seq(Shards \X (0 .. MaxInFlight))
  /\ n \in 0 .. MaxReconnect
  /\ pc \in {"idle", "connect", "retry", "put"} /\ cur \in Shards
  /\ freed \in 0 .. 2 /\ nextId \in 0 .. MaxInFlight

\* The prefetch queue's outstanding requests for each shard are exactly the
\* requests in flight on that shard's connection, in order: whatever the
\* page servers do, every response pageserver_receive hands over answers the
\* request the queue expects, because each disconnect path resets the queue
\* and the reset closes every shard that still had requests in flight.
ResponsesMatchRequests ==
  \A s \in Shards :
    wire[s] = [i \in 1 .. Len(SelectSeq(pending, LAMBDA e : e[1] = s)) |->
                 SelectSeq(pending, LAMBDA e : e[1] = s)[i][2]]

\* pageserver_connect releases the PGconn of a failed attempt once: PQfinish
\* is not called twice on it.
NoDoubleFree == freed <= 1

\* Every pageserver_send returns, successfully or by ERROR, even when the
\* page server keeps refusing: the reconnect loop is bounded by the budget.
SendReturns == (pc # "idle") ~> (pc = "idle")

=============================================================================
