-------------------------------- MODULE LFC --------------------------------
(***************************************************************************)
(* The Neon local file cache (pgxn/neon/file_cache.c): a shared hash from  *)
(* chunk tags to FileCacheEntry, an intrusive LRU list of unpinned         *)
(* entries, the control block (size, used) and the slab the chunks live   *)
(* in.  Every section the code runs under lfc_lock is one atomic action;   *)
(* the page-sized memcpy done between the two lock sections of lfc_read    *)
(* and lfc_write is an action of its own, so other backends may run       *)
(* between the pin, the copy and the unpin.                                *)
(*                                                                         *)
(* Data is abstracted to the identity of the page a slab page holds:       *)
(* lfc_write(k, pg) stores PageData(k, pg), a hole-punched page reads as   *)
(* Zero.  A chunk is BlocksPerChunk pages; its bitmap is a function from   *)
(* pages to BOOLEAN grouped into words of BitsPerWord bits (32 in the      *)
(* code), because lfc_evict reasons word by word.  SIZE_MB_TO_CHUNKS is    *)
(* the identity: a chunk is 1 MB, so limits are counted in chunks.         *)
(***************************************************************************)
EXTENDS Integers, Sequences, SequencesExt, FiniteSets, Functions

CONSTANTS
  Procs,          \* processes that call into the cache (backends, startup)
  Evictors,       \* those that call lfc_evict: the startup process in redo
  Keys,           \* chunk tags: <rnode, fork, blkno & ~(BLOCKS_PER_CHUNK-1)>
  BlocksPerChunk, \* BLOCKS_PER_CHUNK (128 in the code)
  BitsPerWord,    \* bits per uint32 word of the bitmap (32 in the code)
  MaxSize,        \* SIZE_MB_TO_CHUNKS(lfc_max_size): chunks the slab holds
  InitLimit,      \* neon.file_cache_size_limit at start, in chunks
  SizeBound,      \* model bound on lfc_ctl->size (the code has none)
  Zero,           \* contents of a hole-punched (never written) slab page
  NoPage          \* no tag / no page copied yet

ASSUME Evictors \subseteq Procs
ASSUME InitLimit \in 0..MaxSize
ASSUME SizeBound >= MaxSize

VARIABLES
  hash,     \* lfc_hash: DOMAIN is the set of tags in the hash
  lru,      \* lfc_ctl->lru, head first (next victim)
  size,     \* lfc_ctl->size: slots handed out at the end of the slab
  used,     \* lfc_ctl->used
  limit,    \* per-process copy of the lfc_size_limit GUC
  slab,     \* slab[o][pg]: what page pg of slot o holds
  pc,       \* where each process is inside lfc_read / lfc_write
  req,      \* the tag, page and entry->offset of the process's operation
  readVal,  \* the page lfc_read copied out
  npages    \* the pages local_cache_pages counted in its first pass

vars == <<hash, lru, size, used, limit, slab, pc, req, readVal, npages>>

Pages == 0 .. BlocksPerChunk - 1
Slots == 0 .. SizeBound - 1
Words == 0 .. (BlocksPerChunk \div BitsPerWord) - 1
WordOf(pg) == pg \div BitsPerWord
PageData == Keys \X Pages
EmptyBitmap == [pg \in Pages |-> FALSE]
NoReq == [key |-> NoPage, page |-> 0, offset |-> 0]

\* The word of the bitmap that holds bit pg is zero.
WordIsZero(bm, w) == \A pg \in Pages : WordOf(pg) = w => ~bm[pg]

\* entry->lru_node while the entry is not on the list: NoNode when it was
\* never linked since HASH_ENTER (NULL in fresh shared memory, or the
\* pointers of whatever entry the recycled element held), otherwise the
\* neighbours it had when dlist_delete unlinked it, which dlist_delete
\* leaves in the node.  "head" is the list's sentinel.
NoNode == "none"
LruRefs == Keys \cup {"head"}

Entry == [offset : Slots, access_count : Nat, bitmap : [Pages -> BOOLEAN],
          node : {NoNode} \cup (LruRefs \X LruRefs)]

\* hash_search(..., HASH_REMOVE) and the dlist operations.  Detach is
\* dlist_delete of a node the code has on the list, or, in lfc_evict, of one
\* whose delete DeleteDefined shows to change nothing; on any other node the
\* code crashes or corrupts the list, and the model takes no step.
HashRemove(h, k) == Restrict(h, DOMAIN h \ {k})
PushTail(l, k) == Append(l, k)
PushHead(l, k) == Cons(k, l)
Detach(l, k) == Remove(l, k)

\* The neighbours of k on list l.
Neighbours(l, k) ==
  LET i == CHOOSE i \in 1 .. Len(l) : l[i] = k
  IN <<IF i = 1 THEN "head" ELSE l[i - 1], IF i = Len(l) THEN "head" ELSE l[i + 1]>>

\* dlist_delete(&entry->lru_node) is defined: the node is on the list, or
\* it holds the neighbours it was unlinked from and they are still adjacent,
\* so that rewriting their links changes nothing.  Otherwise the code
\* dereferences NULL or corrupts the list, which the model does not follow.
DeleteDefined(l, k) ==
  \/ \E i \in 1 .. Len(l) : l[i] = k
  \/ LET nb == hash[k].node
         s == <<"head">> \o l \o <<"head">>
     IN nb # NoNode /\ \E i \in 1 .. Len(s) - 1 : s[i] = nb[1] /\ s[i + 1] = nb[2]

\* A process that has pinned an entry and is between its two lock sections.
InFlight(p) == pc[p] \in {"write_copy", "write_release", "read_copy", "read_release"}

\* The processes that run SQL, and so local_cache_pages: not the startup
\* process.
Backends == Procs \ Evictors

\* Bug: local_cache_pages releases lfc_lock after its first pass.
SharedHolders_bug == {}

\* The processes holding lfc_lock in LW_SHARED mode across steps: those
\* between the two passes of local_cache_pages.  LWLockAcquire(lfc_lock,
\* LW_EXCLUSIVE) waits until this set is empty.
SharedHolders == {q \in Procs : pc[q] = "lcp_fill"}

\* The pages whose bit is set, over every entry of the hash.
ResidentPages(h) == {kp \in (DOMAIN h) \X Pages : h[kp[1]].bitmap[kp[2]]}
Writing(p) == pc[p] \in {"write_copy", "write_release"}

\* Per-page I/O is serialised by the buffer manager above the cache: a page
\* is loaded or written out through one shared buffer, under
\* BM_IO_IN_PROGRESS, so no two processes call in for the same page at once.
PageIOFree(k, pg) ==
  \A q \in Procs : InFlight(q) => <<req[q].key, req[q].page>> # <<k, pg>>

Init ==
  /\ hash = [k \in {} |-> 0]
  /\ lru = << >>
  /\ size = 0
  /\ used = 0
  /\ limit = [p \in Procs |-> InitLimit]
  /\ slab = [o \in Slots |-> [pg \in Pages |-> Zero]]
  /\ pc = [p \in Procs |-> "idle"]
  /\ req = [p \in Procs |-> NoReq]
  /\ readVal = [p \in Procs |-> NoPage]
  /\ npages = [p \in Procs |-> 0]

(***************************************************************************)
(* Helpers of lfc_read / lfc_write.  Each X_bug operator just before a     *)
(* helper is that helper with one plausible coding error; they are not     *)
(* used by Spec and exist to show what the properties catch.               *)
(***************************************************************************)
\* Bug: the test of the page's bit in the bitmap is left out.
IsCached_bug(k, pg) == k \in DOMAIN hash

\* The tag is in the hash and the page's bit is set (lfc_read, contains).
IsCached(k, pg) == k \in DOMAIN hash /\ hash[k].bitmap[pg]

\* Bug: the entry is pinned without unlinking it from the LRU list.
Pin_bug(k) ==
  /\ hash' = [hash EXCEPT ![k].access_count = @ + 1]
  /\ lru' = lru

\* if (entry->access_count++ == 0) dlist_delete(&entry->lru_node);
\* dlist_delete leaves the node's own pointers as they were.
Pin(k) ==
  /\ hash' = [hash EXCEPT ![k].access_count = @ + 1,
                          ![k].node = IF hash[k].access_count = 0 /\ k \in ToSet(lru)
                                      THEN Neighbours(lru, k) ELSE @]
  /\ lru' = IF hash[k].access_count = 0 THEN Detach(lru, k) ELSE lru

\* Bug: the entry is relinked whatever its pin count drops to.
Unpin_bug(k, bits) ==
  /\ hash' = [hash EXCEPT ![k].access_count = @ - 1,
                          ![k].bitmap = [pg \in Pages |-> @[pg] \/ pg \in bits]]
  /\ lru' = PushTail(lru, k)

\* if (--entry->access_count == 0) dlist_push_tail(&lfc_ctl->lru, ...);
\* followed, in the same lock section of lfc_write, by setting the bits of
\* the pages just written (none for lfc_read).
Unpin(k, bits) ==
  /\ hash' = [hash EXCEPT ![k].access_count = @ - 1,
                          ![k].bitmap = [pg \in Pages |-> @[pg] \/ pg \in bits]]
  /\ lru' = IF hash[k].access_count = 1 THEN PushTail(lru, k) ELSE lru

\* Bug: the new entry's bitmap is not cleared and keeps the bits of the
\* recycled hash element (here: a full chunk).
NewEntry_bug(o) ==
  [offset |-> o, access_count |-> 1, bitmap |-> [pg \in Pages |-> TRUE],
   node |-> NoNode]

\* entry->access_count = 1; memset(entry->bitmap, 0, ...);
NewEntry(o) ==
  [offset |-> o, access_count |-> 1, bitmap |-> EmptyBitmap, node |-> NoNode]

\* Bug: the victim's slot is taken but the victim stays in the hash.
StealVictim_bug(k) ==
  LET victim == Head(lru) IN
  /\ hash' = (k :> NewEntry(hash[victim].offset)) @@ hash
  /\ lru' = Tail(lru)
  /\ UNCHANGED <<size, used>>

\* Cache overflow: pop the LRU head and take its slot.
StealVictim(k) ==
  LET victim == Head(lru) IN
  /\ hash' = (k :> NewEntry(hash[victim].offset)) @@ HashRemove(hash, victim)
  /\ lru' = Tail(lru)
  /\ UNCHANGED <<size, used>>

\* Bug: the new chunk is counted as used but lfc_ctl->size is not advanced.
AllocateSlot_bug(k) ==
  /\ size < SizeBound
  /\ hash' = (k :> NewEntry(size)) @@ hash
  /\ size' = size
  /\ used' = used + 1
  /\ lru' = lru

\* Allocate a new chunk at the end of the slab.
AllocateSlot(k) ==
  /\ size < SizeBound
  /\ hash' = (k :> NewEntry(size)) @@ hash
  /\ size' = size + 1
  /\ used' = used + 1
  /\ lru' = lru

\* Bug: the shrink loop forgets lfc_ctl->used -= 1.
Shrink_bug(newSize) ==
  LET n == IF newSize < used THEN Min({used - newSize, Len(lru)}) ELSE 0
      victims == ToSet(SubSeq(lru, 1, n))
  IN /\ hash' = Restrict(hash, DOMAIN hash \ victims)
     /\ lru' = SubSeq(lru, n + 1, Len(lru))
     /\ slab' = [o \in Slots |->
                  IF \E v \in victims : hash[v].offset = o
                  THEN [pg \in Pages |-> Zero] ELSE slab[o]]
     /\ used' = used

\* Bug: the loop condition is off by one and stops one chunk early.
ShrinkShort_bug(newSize) ==
  LET n == IF newSize + 1 < used THEN Min({used - newSize - 1, Len(lru)})
           ELSE 0
      victims == ToSet(SubSeq(lru, 1, n))
  IN /\ hash' = Restrict(hash, DOMAIN hash \ victims)
     /\ lru' = SubSeq(lru, n + 1, Len(lru))
     /\ slab' = [o \in Slots |->
                  IF \E v \in victims : hash[v].offset = o
                  THEN [pg \in Pages |-> Zero] ELSE slab[o]]
     /\ used' = used - n

\* The loop of lfc_change_limit_hook: while new_size < used and the LRU is
\* not empty, pop the head, punch a hole in its chunk and drop it.
Shrink(newSize) ==
  LET n == IF newSize < used THEN Min({used - newSize, Len(lru)}) ELSE 0
      victims == ToSet(SubSeq(lru, 1, n))
  IN /\ hash' = Restrict(hash, DOMAIN hash \ victims)
     /\ lru' = SubSeq(lru, n + 1, Len(lru))
     /\ slab' = [o \in Slots |->
                  IF \E v \in victims : hash[v].offset = o
                  THEN [pg \in Pages |-> Zero] ELSE slab[o]]
     /\ used' = used - n
(***************************************************************************)
(* lfc_write(k, pg): admit or pin under the lock, copy the page, unpin     *)
(* and set the page's bit under the lock.                                  *)
(***************************************************************************)
WriteAdmit(p, k, pg) ==
  /\ pc[p] = "idle"
  /\ SharedHolders = {}
  /\ limit[p] # 0
  /\ PageIOFree(k, pg)
  /\ IF k \in DOMAIN hash
     THEN /\ Pin(k)
          /\ UNCHANGED <<size, used>>
     ELSE IF used >= limit[p] /\ lru # << >>
          THEN StealVictim(k)
          ELSE AllocateSlot(k)
  \* entry->offset is read after the lock is released, but it cannot change
  \* while the entry is pinned; req.offset is that value
  /\ req' = [req EXCEPT ![p] = [key |-> k, page |-> pg,
                                offset |-> hash'[k].offset]]
  /\ pc' = [pc EXCEPT ![p] = "write_copy"]
  /\ UNCHANGED <<limit, slab, readVal, npages>>

WriteCopy(p) ==
  /\ pc[p] = "write_copy"
  /\ slab' = [slab EXCEPT ![req[p].offset][req[p].page] =
                            <<req[p].key, req[p].page>>]
  /\ pc' = [pc EXCEPT ![p] = "write_release"]
  /\ UNCHANGED <<hash, lru, size, used, limit, req, readVal, npages>>

WriteRelease(p) ==
  LET k == req[p].key IN
  /\ pc[p] = "write_release"
  /\ SharedHolders = {}
  \* the bit is set only if the cache is still enabled in this process
  /\ Unpin(k, IF limit[p] # 0 THEN {req[p].page} ELSE {})
  /\ pc' = [pc EXCEPT ![p] = "idle"]
  /\ req' = [req EXCEPT ![p] = NoReq]
  /\ readVal' = [readVal EXCEPT ![p] = NoPage]
  /\ UNCHANGED <<size, used, limit, slab, npages>>

\* Bug: the entry is pushed at the head without being unlinked first.
Demote_bug(l, k) == PushHead(l, k)

\* dlist_delete(&entry->lru_node); dlist_push_head(&lfc_ctl->lru, ...);
Demote(l, k) == PushHead(Detach(l, k), k)

(***************************************************************************)
(* lfc_read(k, pg): a hit pins the entry under the lock, the page is      *)
(* copied out without it and the entry is unpinned under the lock.  A     *)
(* miss returns false and changes nothing.                                 *)
(***************************************************************************)
ReadPin(p, k, pg) ==
  /\ pc[p] = "idle"
  /\ SharedHolders = {}
  /\ limit[p] # 0
  /\ PageIOFree(k, pg)
  /\ IsCached(k, pg)
  /\ Pin(k)
  /\ req' = [req EXCEPT ![p] = [key |-> k, page |-> pg,
                                offset |-> hash[k].offset]]
  /\ pc' = [pc EXCEPT ![p] = "read_copy"]
  /\ UNCHANGED <<size, used, limit, slab, readVal, npages>>

ReadCopy(p) ==
  /\ pc[p] = "read_copy"
  /\ readVal' = [readVal EXCEPT ![p] = slab[req[p].offset][req[p].page]]
  /\ pc' = [pc EXCEPT ![p] = "read_release"]
  /\ UNCHANGED <<hash, lru, size, used, limit, slab, req, npages>>

ReadRelease(p) ==
  /\ pc[p] = "read_release"
  /\ SharedHolders = {}
  /\ Unpin(req[p].key, {})
  /\ pc' = [pc EXCEPT ![p] = "idle"]
  /\ req' = [req EXCEPT ![p] = NoReq]
  /\ readVal' = [readVal EXCEPT ![p] = NoPage]
  /\ UNCHANGED <<size, used, limit, slab, npages>>

(***************************************************************************)
(* lfc_evict(k, pg), called by the startup process from the redo filter.  *)
(* When the word holding the bit becomes zero the code scans the bitmap    *)
(* for a non-zero word; has_remaining_pages is only ever set to true, so   *)
(* when every word is zero it is read uninitialised: either value may come *)
(* out of the build.  A chunk found empty is unlinked and pushed at the    *)
(* LRU head, whatever its pin count; for a pinned chunk the unlink works   *)
(* on the stale pointers Pin left (DeleteDefined).                         *)
(***************************************************************************)
Evict(p, k, pg) ==
  /\ pc[p] = "idle"
  /\ SharedHolders = {}
  /\ p \in Evictors
  /\ limit[p] # 0
  /\ PageIOFree(k, pg)
  /\ k \in DOMAIN hash
  /\ LET bm == [hash[k].bitmap EXCEPT ![pg] = FALSE]
         allZero == \A w \in Words : WordIsZero(bm, w)
     IN /\ hash' = [hash EXCEPT ![k].bitmap = bm]
        /\ IF WordIsZero(bm, WordOf(pg)) /\ allZero
           THEN \E has_remaining_pages \in BOOLEAN :
                  IF has_remaining_pages THEN lru' = lru
                  ELSE /\ DeleteDefined(lru, k)
                       /\ lru' = Demote(lru, k)
           ELSE lru' = lru
  /\ UNCHANGED <<size, used, limit, slab, pc, req, readVal, npages>>

(***************************************************************************)
(* A reload of neon.file_cache_size_limit in process p: the check hook     *)
(* refuses values above neon.max_file_cache_size, the assign hook shrinks  *)
(* the cache under the lock.  Processes reload between statements only.    *)
(***************************************************************************)
(***************************************************************************)
(* local_cache_pages, the SQL function: under one LW_SHARED hold of       *)
(* lfc_lock, a first pass counts the pages whose bit is set and sizes     *)
(* fctx->record by it, a second pass writes one record per such page.     *)
(* The records are returned one per later call, from that array.           *)
(***************************************************************************)
LocalCachePagesCount(p) ==
  /\ pc[p] = "idle"
  /\ p \in Backends
  /\ npages' = [npages EXCEPT ![p] = Cardinality(ResidentPages(hash))]
  /\ pc' = [pc EXCEPT ![p] = "lcp_fill"]
  /\ UNCHANGED <<hash, lru, size, used, limit, slab, req, readVal>>

LocalCachePagesFill(p) ==
  /\ pc[p] = "lcp_fill"
  /\ pc' = [pc EXCEPT ![p] = "idle"]
  /\ npages' = [npages EXCEPT ![p] = 0]
  /\ UNCHANGED <<hash, lru, size, used, limit, slab, req, readVal>>

\* lfc_check_limit_hook: the value may not exceed lfc_max_size.
CheckLimit(newval) == newval <= MaxSize

ChangeLimit(p, newval) ==
  /\ pc[p] = "idle"
  /\ SharedHolders = {}
  /\ CheckLimit(newval)
  /\ limit' = [limit EXCEPT ![p] = newval]
  /\ Shrink(newval)
  /\ UNCHANGED <<size, pc, req, readVal, npages>>

Next ==
  \/ \E p \in Procs, k \in Keys, pg \in Pages :
        WriteAdmit(p, k, pg) \/ ReadPin(p, k, pg) \/ Evict(p, k, pg)
  \/ \E p \in Procs : WriteCopy(p) \/ WriteRelease(p)
                      \/ ReadCopy(p) \/ ReadRelease(p)
                      \/ LocalCachePagesCount(p) \/ LocalCachePagesFill(p)
  \/ \E p \in Procs, v \in 0..MaxSize : ChangeLimit(p, v)

Spec == Init /\ [][Next]_vars

\* The rest of a call that has pinned its entry: the memcpy and the second
\* lock section are straight-line code, and LWLockAcquire is granted once
\* the holder leaves its (short) section, so a pinned call finishes; so
\* does the second pass of local_cache_pages, which holds the lock shared.
Finish(p) ==
  \/ WriteCopy(p) \/ WriteRelease(p) \/ ReadCopy(p) \/ ReadRelease(p)
  \/ LocalCachePagesFill(p)

FairSpec == Spec /\ \A p \in Procs : WF_vars(Finish(p))

(***************************************************************************)
(* Properties                                                              *)
(***************************************************************************)
TypeOK ==
  /\ DOMAIN hash \subseteq Keys
  /\ \A k \in DOMAIN hash : hash[k] \in Entry
  /\ lru \in Seq(Keys)
  /\ size \in 0..SizeBound /\ used \in 0..size
  /\ limit \in [Procs -> 0..MaxSize]
  /\ slab \in [Slots -> [Pages -> PageData \cup {Zero}]]
  /\ pc \in [Procs -> {"idle", "write_copy", "write_release",
                        "read_copy", "read_release", "lcp_fill"}]
  /\ readVal \in [Procs -> PageData \cup {Zero, NoPage}]
  /\ npages \in [Procs -> 0 .. Cardinality(PageData)]

\* I1/I2: lfc_ctl->used counts the entries of the hash, every entry's slot
\* was handed out by size++, and no two entries share a slot, across
\* admissions that steal a victim's slot and shrinks that drop entries.
SlotAccounting ==
  /\ used = Cardinality(DOMAIN hash)
  /\ \A k \in DOMAIN hash : hash[k].offset < size
  /\ IsInjective([k \in DOMAIN hash |-> hash[k].offset])

\* I3: the LRU list links each entry at most once, and exactly the entries
\* whose access_count is zero: lfc_write and lfc_change_limit_hook take
\* their victims from its head assuming they are unpinned.
LRUIffUnpinned ==
  /\ IsInjective(lru)
  /\ ToSet(lru) = {k \in DOMAIN hash : hash[k].access_count = 0}

\* I4: a process between the two lock sections of lfc_read or lfc_write
\* holds a pin: its entry is still in the hash with the slot it computed
\* the copy address from, and the entry's access_count is exactly the
\* number of such processes.
PinsAreHeld ==
  /\ \A p \in Procs : InFlight(p) =>
        /\ req[p].key \in DOMAIN hash
        /\ hash[req[p].key].offset = req[p].offset
  /\ \A k \in DOMAIN hash :
        hash[k].access_count =
          Cardinality({p \in Procs : InFlight(p) /\ req[p].key = k})

\* The unlocked memcpy of lfc_write never overlaps another process's
\* memcpy of the same page of the slab.
NoSlabRace ==
  \A p, q \in Procs :
    (p # q /\ Writing(p) /\ InFlight(q)) =>
      <<req[p].offset, req[p].page>> # <<req[q].offset, req[q].page>>

\* I5: a page whose bit is set holds the data lfc_write stored for that very
\* page, although slots are reused by other chunks and punched by shrinks.
CachedPagesHoldTheirData ==
  \A k \in DOMAIN hash : \A pg \in Pages :
    hash[k].bitmap[pg] => slab[hash[k].offset][pg] = <<k, pg>>

\* Every slot handed out lies inside the slab lfc_shmem_startup mapped:
\* lfc_max_size MB, i.e. MaxSize chunks.  The code never reuses the slots of
\* chunks dropped by a shrink and never bounds size++.
SlabWithinCapacity ==
  \A k \in DOMAIN hash : hash[k].offset < MaxSize

\* P4: when lfc_change_limit_hook returns, the chunks in use fit the new
\* limit, or every chunk left is pinned by a process inside lfc_read or
\* lfc_write.  The loop stops when the LRU list is empty, so this holds only
\* if the list still links every unpinned chunk after any sequence of
\* admissions, pins, unpins, evictions and earlier shrinks.
ShrinkReachesLimit ==
  [][\A p \in Procs, v \in 0..MaxSize :
       ChangeLimit(p, v) =>
         \/ used' <= v
         \/ \A k \in DOMAIN hash' : hash'[k].access_count > 0]_vars

\* P4 and the soft limit of spec.md: used may exceed the limit every process
\* has set only temporarily, while chunks are pinned; once the processes
\* leave lfc_read and lfc_write, used is back within the limit (unless the
\* limit is changed again).  The admission of lfc_write grows used past the
\* limit when the LRU is empty, and only lfc_change_limit_hook lowers it.
SoftLimitIsTemporary ==
  \A L \in 0..MaxSize :
    (used > L /\ \A p \in Procs : limit[p] = L)
      ~> (\/ used <= L
          \/ \E p \in Procs : limit[p] # L
          \/ \E p \in Procs : InFlight(p))

\* local_cache_pages sizes fctx->record by the pages its first pass counts
\* and writes one record per page its second pass finds, asserting the two
\* agree: no lfc_write, lfc_evict or shrink may set or clear a bit between
\* the passes, or the second pass writes past the array.
RecordsFitCount ==
  [][\A p \in Procs :
       LocalCachePagesFill(p) => Cardinality(ResidentPages(hash)) = npages[p]]_vars

\* P1: a hit of lfc_read copies out the page that was asked for.
ReadReturnsRequestedPage ==
  \A p \in Procs :
    pc[p] = "read_release" => readVal[p] = <<req[p].key, req[p].page>>

=============================================================================
