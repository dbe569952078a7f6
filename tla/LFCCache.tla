------------------------------ MODULE LFCCache ------------------------------
(***************************************************************************)
(* What the local file cache promises its callers (spec.md 4.A-4.D), with  *)
(* no slots, LRU or pin counts: a set of cached pages, and for each        *)
(* process the page it is reading or writing.                              *)
(*                                                                         *)
(*  - a read starts only on a cached page;                                 *)
(*  - a write ends by caching its page, or not when the cache was disabled *)
(*    in the meantime;                                                     *)
(*  - evicting a page uncaches that page only;                             *)
(*  - whole chunks may be dropped (to make room, or to shrink), but never  *)
(*    a chunk some process is reading or writing.                          *)
(***************************************************************************)
CONSTANTS Procs, Keys, Pages, None

VARIABLES
  cached,   \* the pages lfc_cache_contains reports
  busy      \* busy[p]: [op, key, page] of p's operation, or None

Ops == [op : {"read", "write"}, key : Keys, page : Pages]

\* The chunks in use by some operation.
InUse == {busy[p].key : p \in {q \in Procs : busy[q] # None}}

\* Drop every page of the chunks in D.
Without(D) == {pg \in cached : pg[1] \notin D}

Init ==
  /\ cached = {}
  /\ busy = [p \in Procs |-> None]

\* A write starts; room is made by dropping chunks nobody uses.
BeginWrite(p, k, pg, D) ==
  /\ busy[p] = None
  /\ D \cap (InUse \cup {k}) = {}
  /\ cached' = Without(D)
  /\ busy' = [busy EXCEPT ![p] = [op |-> "write", key |-> k, page |-> pg]]

\* A read starts on a cached page.
BeginRead(p, k, pg) ==
  /\ busy[p] = None
  /\ <<k, pg>> \in cached
  /\ busy' = [busy EXCEPT ![p] = [op |-> "read", key |-> k, page |-> pg]]
  /\ UNCHANGED cached

\* An operation ends; a write caches its page, unless it keeps it out.
End(p) ==
  /\ busy[p] # None
  /\ \E keep \in BOOLEAN :
       cached' = IF busy[p].op = "write" /\ keep
                 THEN cached \cup {<<busy[p].key, busy[p].page>>}
                 ELSE cached
  /\ busy' = [busy EXCEPT ![p] = None]

\* One page is evicted.
EvictPage(k, pg) ==
  /\ cached' = cached \ {<<k, pg>>}
  /\ UNCHANGED busy

\* Chunks nobody uses are dropped.
DropChunks(D) ==
  /\ D \cap InUse = {}
  /\ cached' = Without(D)
  /\ UNCHANGED busy

Next ==
  \/ \E p \in Procs, k \in Keys, pg \in Pages, D \in SUBSET Keys :
       BeginWrite(p, k, pg, D)
  \/ \E p \in Procs, k \in Keys, pg \in Pages : BeginRead(p, k, pg)
  \/ \E p \in Procs : End(p)
  \/ \E k \in Keys, pg \in Pages : EvictPage(k, pg)
  \/ \E D \in SUBSET Keys : DropChunks(D)

Spec == Init /\ [][Next]_<<cached, busy>>

TypeOK ==
  /\ cached \subseteq Keys \X Pages
  /\ busy \in [Procs -> Ops \cup {None}]

=============================================================================
