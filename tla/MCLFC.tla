------------------------------- MODULE MCLFC -------------------------------
(* Model values and bounds for checking LFC with TLC. *)
EXTENDS LFC, TLC

CONSTANTS b1, b2, startup, k1, k2, k3

\* A primary: two backends, nobody calls lfc_evict.
PrimaryProcs == {b1, b2}
\* A replica in redo: the startup process evicts, a backend reads.
ReplicaProcs == {startup, b1}
ChunkKeys == {k1, k2, k3}
\* The startup process alone, replaying WAL.
StartupOnly == {startup}
\* One backend of a primary.
SingleBackend == {b1}

\* Chunk tags and backends are interchangeable: nothing in the cache orders
\* them, so permuting them maps behaviours to behaviours.
Symmetry == Permutations(ChunkKeys) \cup Permutations(PrimaryProcs)
KeySymmetry == Permutations(ChunkKeys)


\* The state without the entries' stale lru_node pointers.  Only lfc_evict
\* reads them, so on a primary, where nothing evicts, two states that differ
\* only in them have the same behaviours.
PrimaryView ==
  << [k \in DOMAIN hash |-> [offset |-> hash[k].offset,
                              access_count |-> hash[k].access_count,
                              bitmap |-> hash[k].bitmap]],
     lru, size, used, limit, slab, pc, req, readVal, npages >>

(***************************************************************************)
(* Refinement: the cache implements LFCCache.  A page is cached when its   *)
(* chunk is in the hash with the page's bit set; a process is busy with    *)
(* the page of its lfc_read or lfc_write from the pin to the unpin.        *)
(***************************************************************************)
CachedPages == ResidentPages(hash)

Busy ==
  [p \in Procs |->
     IF InFlight(p)
     THEN [op |-> IF Writing(p) THEN "write" ELSE "read",
           key |-> req[p].key, page |-> req[p].page]
     ELSE NoPage]

Cache == INSTANCE LFCCache WITH cached <- CachedPages, busy <- Busy,
                                None <- NoPage

\* The cache offers what spec.md 4.A-4.D promise: reads start only on cached
\* pages, lfc_write caches its page, lfc_evict uncaches one page, and the
\* admissions of lfc_write and the shrinks of lfc_change_limit_hook drop
\* whole chunks but never one a process is reading or writing.
CacheSpec == Cache!Spec

=============================================================================
