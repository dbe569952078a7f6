# TLA+ models of the Neon local file cache and page-store client

This directory holds TLA+ models of the two C files under `src/pgxn/neon/`:

- `file_cache.c`: the local file cache (LFC);
- `libpagestore.c`: the page-store client, with its shard map and shard connections.

Each module is checked with TLC. `PROJECT.json` lists, in machine-readable form:

- the components and whether each is modelled;
- the runs and their mutants;
- the map from every definition to the source lines it models;
- the findings, and the hazards of the code.

## The system

**Local file cache (`file_cache.c`).** The cache lives in shared memory and is shared by every backend and by the startup process.

- **State.** A hash maps a chunk tag to a `FileCacheEntry`, which holds:
  - `offset`, the chunk's slot in the slab;
  - `access_count`, the pin count;
  - `bitmap`, the pages of the chunk that are cached.

  An intrusive LRU list holds the unpinned entries; its head is the next victim. The control block keeps `size` (slots handed out) and `used` (entries). A single exclusive `lfc_lock` guards all of it.
- **Pinning.** `lfc_read` and `lfc_write` pin the entry under the lock: the count goes up and the entry is unlinked from the LRU. They then copy the page without the lock, and finally unpin under the lock, relinking the entry at the LRU tail when the count drops to 0.
- **Admission.** `lfc_write` admits a new chunk by stealing the LRU head's slot when `used` has reached the limit. Otherwise it allocates `offset = size++`. The limit is soft: when every chunk is pinned, the cache grows past it.
- **Eviction.** `lfc_evict` is called only by the startup process's redo filter. It clears one page's bit and may move the chunk to the LRU head.
- **Introspection.** The SQL function `local_cache_pages` takes `lfc_lock` in shared mode. It counts the pages whose bit is set, allocates that many records, and fills them in a second pass over the hash. It then releases the lock and returns one record per call.
- **Shrinking.** `lfc_change_limit_hook` is the assign hook of `neon.file_cache_size_limit`. It pops LRU victims, punches holes in their slots and decrements `used`.

**Shard map (`libpagestore.c`).**

- **Writer.** The postmaster parses `neon.pageserver_connstring` into a `ShardMap` and copies it into shared memory under a seqlock (`AssignPageserverConnstring`): it bumps `begin_update_counter`, `memcpy`s the map, then bumps `end_update_counter`.
- **Reader.** A backend's `load_shard_map` loads both counters, then `num_shards` and one connection string. It retries unless the two counters are equal and both unchanged.
- **Reset.** When the counter a backend sees differs from its `pagestore_local_counter`, the backend drops all its connections.
- **Routing.** `get_shard_number` routes a block to `hash % num_shards`.

**Shard connections (`libpagestore.c`).** Each backend has its own connection per shard.

- **Send.** `pageserver_send` first drops a connection whose status is bad. If no connection is left, it reconnects in a loop, `while (!pageserver_connect(...)) n_reconnect_attempts++`. Each attempt logs at LOG until `max_reconnect_attempts` is reached and raises ERROR after that. It then writes the request.
- **Receive and flush.** `pageserver_receive` and `pageserver_flush` disconnect the shard on any error.
- **Disconnect.** `pageserver_disconnect` first resets the prefetch queue with `prefetch_on_ps_disconnect`, an external function, and then closes the shard. The prefetch reset uses `api.disconnect`, which is `pageserver_disconnect_shard` without a reset, to close every other shard that had requests in flight. The comment above `pageserver_disconnect` says so.

**How the parts interact.**

- The LFC and the page-store client share no state.
- The shard map and the connections meet in `load_shard_map`, which drops every connection when the map changed. `pageserver_connect` calls it, and so does `get_shard_number`, before each request is routed.
- `pageserver_send` does not call it. On an established connection, it writes at once. A map installed between `get_shard_number` and `pageserver_send` is therefore not seen by that send (run `psstore_b4`).

## Modules

| Module | Models | State (code) | Actions (code) |
|---|---|---|---|
| `LFC` | file_cache.c | `hash` (lfc_hash), `lru` (lfc_ctl->lru), `size`, `used`, `limit[p]` (each process's lfc_size_limit), `slab` (page data per slot), `pc`/`req`/`readVal` (each process's position inside an operation), `npages[p]` (the count of `local_cache_pages`'s first pass) | `WriteAdmit`/`WriteCopy`/`WriteRelease` (lfc_write's three lock sections), `ReadPin`/`ReadCopy`/`ReadRelease` (lfc_read), `Evict` (lfc_evict), `ChangeLimit` (lfc_change_limit_hook, guarded by `CheckLimit`, the check hook), `LocalCachePagesCount`/`LocalCachePagesFill` (the two passes of local_cache_pages) |
| `ShardMap` | the shard map and load_shard_map | `begin`, `end`, `shmap`, `history` (the maps installed so far), the postmaster's `wpc`/`wnew`/`wleft`, each backend's `rpc`, loads, counters and fields read, `local` (pagestore_local_counter), `conns` | `WriterBegin`/`WriterCopy`/`WriterEnd`, `Call`, `Load`, `RecheckBegin`, `RecheckEnd`/`Retry`, `Finish` (error check, disconnect loop, connect), `Disconnect` |
| `LFCCache` | what the LFC promises (spec.md 4.A-4.D) | `cached` (the pages `lfc_cache_contains` reports), `busy[p]` (the page each process reads or writes) | `BeginWrite` (may drop unused chunks), `BeginRead` (only a cached page), `End`, `EvictPage`, `DropChunks` (never a chunk in use) |
| `ConnstringParse` | neon.pageserver_connstring in the postmaster | `guc` (the accepted value), `shmap` (the map installed), `tried`/`taken` (the last value offered and the check hook's verdict) | `Reload` (check hook, then AssignPageserverConnstring's parse); `ParseShardMap` is a RECURSIVE operator following the loop |
| `PageStore` | one backend's client composed with the postmaster's map installs | the variables of `PageServerConn` (through `Conn == INSTANCE PageServerConn`), `maps` (the maps installed; the last is in shared memory), `local` (pagestore_local_counter as an index into `maps`), `addr[s]` (the address connection `s` was opened to), `routed` (the shard `get_shard_number` returned), `callMap` (history: the map installed when the current send was called) | `Install` (AssignPageserverConnstring), `RouteCall` (get_shard_number: `Conn!RouteWith(Changed)`), `Send` (`Conn!SendBegin`), `Connect` (`Conn!ConnectWith` with the real map: the shard-past-num_shards ERROR exactly when it applies, and the address of the map loaded), `SendStep` (the reconnect loop's next turn, or the write), `ConnStep` (receive, flush and a page server breaking the connection) |
| `PageServerConn` | connections of one backend | `conn[s]` (none/ok/bad), `wire[s]` (requests in flight), `pending` (the prefetch queue), `n` (n_reconnect_attempts), `freed` (PQfinish calls on a failed connection) | `SendBegin`, `ConnectAttempt`, `RetryConnect`, `SendPut`, `Receive`, `ReceiveFail`, `FlushFail`, `Route` (get_shard_number's map reload), and the environment step `ServerBreak` |

Each action is a whole section of code between two lock operations, or between two loads or stores of shared memory. A helper called inside a section (`Pin`, `Unpin`, `StealVictim`, `AllocateSlot`, `Shrink`, `Demote`, `Disconnect`, `ResetConnections`, ...) is part of the action that calls it.

Each mapped helper is preceded by a `_bug` variant: the mutant that the check substitutes for it.

The MC modules (`MCLFC`, `MCShardMap`, `MCPageServerConn`, `MCPageStore`) declare model values, name the sets that the cfgs use, and define symmetry sets. `MCLFC` also holds the refinement mapping to `LFCCache`:

- `CachedPages` is the set of `<<key, page>>` whose chunk is in the hash with the page's bit set.
- `Busy[p]` is the page of `p`'s `lfc_read` or `lfc_write` from the pin to the unpin.
- `Cache == INSTANCE LFCCache WITH cached <- CachedPages, busy <- Busy, None <- NoPage`, and `CacheSpec == Cache!Spec`.

Under this mapping:

- `WriteAdmit` is `BeginWrite`, dropping the victim chunk when it steals one;
- `ReadPin` is `BeginRead`;
- `WriteRelease` and `ReadRelease` are `End`;
- `Evict` is `EvictPage`, and `ChangeLimit` is `DropChunks`;
- the two unlocked copies are stuttering steps.

### Abstractions

- **LFC.**
  - A page's data is the pair `<<key, page>>` that was written to it, and `Zero` stands for a punched hole.
  - A bitmap word holds `BitsPerWord` bits, which is 1 in the cfgs: with two pages per chunk, both the "this word is zero" branch and the "another word is non-zero" branch of `lfc_evict` occur.
  - The lock is the atomicity of each action, except for the shared hold of `local_cache_pages`, which spans its two passes. `SharedHolders` is the set of backends between the passes, and every exclusive section (`WriteAdmit`, `WriteRelease`, `ReadPin`, `ReadRelease`, `Evict`, `ChangeLimit`) waits until it is empty.
  - The records of `local_cache_pages` are not modelled, only their number. Their fields are read under the same lock that `CachedPagesHoldTheirData` already covers.
  - `entry->lru_node` of an entry that is off the list is `node`: `NoNode` when it was never linked since `HASH_ENTER`, otherwise the neighbours that `dlist_delete` left in it. `lfc_evict`'s `dlist_delete` runs only when it is defined (`DeleteDefined`): the node is linked, or its stale neighbours are still adjacent, so that the rewrite changes nothing. On any other node the code dereferences NULL or corrupts the list. The model does not follow that, and `Evict` takes no step there.
  - `PageIOFree(k, pg)` assumes what the buffer manager guarantees: two processes never do I/O on the same page at the same time. It is an environment assumption, not code, so it is not mapped.
- **Shard map.**
  - A connection string is a model value and a connection is the string it was opened to.
  - The `memcpy` stores one field per step, in any order.
  - With `WeakLoadOrder`, a try may load the map before the counters, as a weakly ordered CPU may do, since `pg_atomic_read_u64` implies no barrier.
- **PageServerConn.**
  - A request is a number.
  - Each page-server call ends in any of its outcomes. A change of the shard map is a nondeterministic choice in `ConnectAttempt` and in `Route`; `ShardMap` covers the map itself. In `ConnectAttempt`, the ERROR for a shard past `num_shards` leaves the connections alone, because it is raised before the disconnect loop.
  - `RouteWith(changed)` and `ConnectWith(changed, outcome)` take the map change as a parameter. `Route` and `ConnectAttempt` choose it freely, and `PageStore` passes the real comparison of `pagestore_local_counter` with the installed map.
  - The prefetch queue is outside this repository. Its contract is modelled from spec.md 4.H and the comment above `pageserver_disconnect`: `PendingShards` and the reset in `Drop`.
- **PageStore.**
  - The backend reads an installed map in one step. `ShardMap`'s `ConsistentSnapshot` (run `shardmap_x86`) shows that the seqlock gives exactly that on a CPU that keeps load order. Composing the multi-step reader instead would multiply the two state spaces for no new behaviour.
  - Installs happen at any step of the backend, because the postmaster runs concurrently with it.

## Runs

| Run | cfg | Expect | What it shows |
|---|---|---|---|
| lfc_primary | MCLFC_primary.cfg | pass | Two backends write and read three chunks of two pages, interleaved at every lock release, while either reloads the limit (0..2 chunks). Either backend may also call `local_cache_pages`. Seven invariants hold, the cache implements `LFCCache`, every shrink meets P4, and the two passes of `local_cache_pages` agree (157k states, under 2 minutes). The cfg's `VIEW PrimaryView` leaves out the entries' stale `lru_node` pointers, which only `lfc_evict` reads and nothing on a primary runs. |
| lfc_redo | MCLFC_redo.cfg | pass | The startup process alone writes, reads and evicts, with both values of the uninitialised `has_remaining_pages`. The LRU still holds exactly the unpinned entries, the bitmaps stay right, and the cache implements `LFCCache`. |
| lfc_soft_limit | MCLFC_soft.cfg | violation | With a limit of one chunk, one backend holds a pin while the other admits a second chunk past the limit. After both return, `used` stays at 2 for ever (11 steps, then stuttering). |
| lfc_evict_pinned | MCLFC_evict_pinned.cfg | violation | On a hot standby, a backend's `lfc_write` admits a chunk with one page, and its second `lfc_write`, of the chunk's other page, pins the chunk. The startup process then evicts the chunk's only set page. The `dlist_delete` through the pinned node's stale pointers changes nothing, and `dlist_push_head` links the pinned chunk into the LRU (5 steps). |
| lfc_slab_capacity | MCLFC_capacity.cfg | violation | The sequence is: write 2 chunks, lower the limit to 0, raise it to 2, write again. `size` then passes the slab's capacity (10 steps). |
| shardmap_x86 | MCShardMap_x86.cfg | pass | Loads happen in program order while the postmaster installs two new maps of up to two shards. Every accepted copy is an installed map, connections follow the current map, and every call returns (120k states). |
| shardmap_weak_order | MCShardMap_weak.cfg | violation | When loads may be reordered, a backend loads the old map's `num_shards` before an update and the new counters after it. The recheck passes, so it accepts a pairing of `num_shards` and counter that no installed map had. |
| shardmap_route_empty | MCShardMap_route.cfg | violation | The connection string is non-empty at start (otherwise the neon smgr is not installed) and is reloaded to `""`. The next `get_shard_number` computes `hash % 0`. |
| connstring_parse | MCConnstringParse.cfg | pass | Every string of up to five characters over `a`, `b` and `,` is offered to a reload, with at most two shards of two characters. The check hook refuses exactly the strings whose fields do not fit, and the installed map is the list of fields of the accepted value (24k states). |
| psstore | MCPageStore.cfg | pass | One backend has two shards and up to three requests in flight. Meanwhile the postmaster installs one different map over two addresses: a shard moves, the map shrinks or grows. Whatever the page servers do, three things hold: every open connection goes to its shard's address in the map last loaded, responses stay aligned with the prefetch queue, and every send returns (752k states, about 1 minute). This run replaces a run of `PageServerConn` alone, whose map changes were free choices. |
| psstore_b4 | MCPageStore_b4.cfg | violation | The trace is: route shard 0 under map 1, connect it to `a1`, route again, the postmaster installs map 2 (shard 0 at `a2`), then `pageserver_send` writes on the `a1` connection. spec.md B4 and scenario 5 say the next call closes the old connections. |
| psconn_double_free | MCPageServerConn_free.cfg | violation | The sequence is: two failed attempts at LOG, then a handshake failure at ERROR. The failure frees the connection twice. |

### Properties

- **LFC.**
  - `SlotAccounting`: `used` counts the entries, and offsets are below `size` and distinct.
  - `LRUIffUnpinned`: the LRU holds exactly the entries with `access_count = 0`, each once.
  - `PinsAreHeld`: every operation in flight holds a pin on its entry, and the offset it copies is still that entry's.
  - `NoSlabRace`: a writer's slot and page are used by no other operation in flight.
  - `CachedPagesHoldTheirData`: a set bit means that the slot holds that page.
  - `ReadReturnsRequestedPage`: a read returns the page it asked for.
  - `RecordsFitCount` (action property): the second pass of `local_cache_pages` finds as many pages as the first pass counted and sized the record array for. It holds only because the shared lock is kept across both passes. Releasing it after the count lets a write release set a bit in between, and the second pass then writes past the array.
  - `SlabWithinCapacity`: offsets stay below `neon.max_file_cache_size`.
  - `CacheSpec`: the cache implements `LFCCache` under the mapping above. The steps that drop chunks (a steal, a shrink) never drop one that a process is reading or writing, and a read starts only on a cached page.
  - `ShrinkReachesLimit` (action property, P4): when `lfc_change_limit_hook` returns, `used` is within the new limit, or every chunk left is pinned.
  - `SoftLimitIsTemporary` (liveness): while every process has limit `L` and nothing is pinned, `used` does not stay above `L`.
- **ShardMap.**
  - `ConsistentSnapshot`: what `load_shard_map` accepts is exactly the map that its `end_update_counter` names.
  - `ConnectionsFollowMap`: every open connection goes to the address its shard has in the backend's current map.
  - `RouteHasShards`: the modulus of `get_shard_number` is non-zero.
  - `LoadShardMapReturns`: every call of `load_shard_map` returns (liveness).
- **ConnstringParse.**
  - `MapMatchesConnstring`: the installed map equals `Reference(guc)`. That is the comma-separated fields of the value, with a trailing empty field dropped, refused when there are more than `MaxShards` fields or a field of `ConnStrSize` characters or more. The last verdict of the check hook equals the reference's verdict on the value offered.
- **PageServerConn.**
  - `ResponsesMatchRequests`: for every shard, the prefetch queue's entries equal the requests in flight on its connection, in order.
  - `NoDoubleFree`: a failed connection is freed at most once.
  - `SendReturns`: every `pageserver_send` returns (liveness).
- **PageStore.**
  - `ConnectionsFollowLoadedMap`: every open connection goes to the address its shard has in the map that the backend last loaded. It fails if a map load moves `pagestore_local_counter` without dropping the connections, or if the shard ERROR is raised after the counter moves.
  - `ResponsesMatchRequests`: the same alignment as in `PageServerConn`, now with map-driven resets.
  - `SendReturns`: every `pageserver_send` returns while maps change.
  - `SendsFollowInstalledMap` (action property, violation run): a request is written only to the shard's address in the map installed when `pageserver_send` was called, or in a later map.

Each property of a passing run has a mutant listed in `PROJECT.json`. The mutant replaces one mapped helper by its `_bug` variant, and TLC then finds that property violated. For example:

- dropping `used -= 1` from the shrink breaks `SlotAccounting`;
- leaving the victim in the hash breaks `NoSlabRace`;
- dropping the begin-counter recheck breaks `ConsistentSnapshot`;
- resetting the queue without closing the other shards breaks `ResponsesMatchRequests`;
- not counting a failed attempt breaks `SendReturns`;
- relinking an entry at every unpin breaks `CacheSpec`: a later steal drops a chunk in use;
- stopping the shrink loop one chunk early breaks `ShrinkReachesLimit`;
- releasing `lfc_lock` between the passes of `local_cache_pages` breaks `RecordsFitCount`.

### Bounds

- **LFC: Keys = 3 chunks, 2 pages per chunk, MaxSize = 2 chunks, SizeBound = 3 slots.**
  - Three keys and two slots make admission steal a victim.
  - A limit range of 0..2 makes a shrink empty the cache or drop one chunk.
  - Two backends are enough for one to hold a pin while the other steals, shrinks or reads.
  - `SizeBound` caps `size++` one slot past the capacity, which is exactly enough to show that it goes past.
- **ShardMap: MaxShards = 2, two addresses, two updates.**
  - Two updates are enough for a reader to straddle an update and to see the counter move twice.
  - One backend is enough: backends share nothing in this protocol except the map. A two-backend run of the same cfg exceeds 9 million states.
- **ConnstringParse: strings up to 5 characters, MaxShards = 2, ConnStrSize = 3.** Five characters are enough for three fields (too many shards), a field of three characters (too long), a trailing comma after two fields, and empty fields in the middle (`a,,b`).
- **PageServerConn (run `psconn_double_free`): two shards, MaxInFlight = 3, MaxReconnect = 2.**
  - A budget of 2 gives two LOG attempts before the ERROR one.
  - Request numbers wrap modulo `MaxInFlight + 1`.
- **PageStore: two shards, two addresses, MaxUpdates = 1, MaxInFlight = 3, MaxReconnect = 1.**
  - The install may be any map other than the first. A shard can therefore move to the other address, and the map can shrink to one shard (so the shard ERROR occurs) or grow to two.
  - The install can happen at any step of the backend, including between a route and its send. The stale write needs just one install.
  - A second install (a move and a move back) takes the run to 2 million states and more than 3 minutes with the liveness check.
  - A budget of 1 makes both the LOG path and the ERROR path of the reconnect loop occur.

### Fairness

- **LFC.** `lfc_primary` and `lfc_redo` check only safety. `lfc_soft_limit` uses `FairSpec`, with weak fairness of `Finish(p)`: the copy and release steps of a call that holds a pin, and the second pass of `local_cache_pages`. That code is a `memcpy` and a short lock section, so it finishes. Admissions and reloads get no fairness, because nothing forces a backend to issue another call.
- **ShardMap.** It assumes weak fairness of the postmaster's copy and end steps: `AssignPageserverConnstring` is straight-line code once begun. It also assumes weak fairness of each backend's steps inside `load_shard_map`.
- **ConnstringParse.** Its run checks only safety.
- **PageStore.** It assumes weak fairness of `Connect \/ SendStep`, the backend's steps inside `pageserver_send`, as `PageServerConn` does. The postmaster's installs and the page servers get no fairness. Weak fairness of `Connect` also assumes that each wait of the handshake ends. The code waits with timeout -1, so a page server that accepts the connection and never answers blocks the backend for ever (hazard at libpagestore.c's `WaitEventSetWait`).
- **PageServerConn.** It assumes weak fairness of the backend's steps inside `pageserver_send`. Each connect attempt may fail for ever, so termination comes from the budget alone. Weak fairness of the handshake step does assume that each of its waits returns. The code waits with timeout -1, which does not guarantee this.

## Not modelled

- **The free-memory monitor.** `FileCacheMonitorMain` is never registered, because `lfc_free_space_watermark` is never assigned.
- **`lfc_cache_contains`.** It is read-only within one shared lock hold. The pages it reports are `ResidentPages(hash)`, the set the refinement maps to `LFCCache`'s cached pages.
- **The disabled cache.** With `neon.max_file_cache_size = 0`, `lfc_init` returns before it installs the shared memory, and no shared state exists to model. `local_cache_pages` then dereferences the NULL `lfc_lock` and `lfc_hash`, against spec.md B1. This is listed as a hazard.
- **GUC definitions and module start-up.**
- **The message codec.**
- **Timing.** This covers backoff sleeps and `last_connect_time`.
- **The capacity of the shared hash.** It overflows only with more pinning processes than `lfc_size + 1`, and a shared dynahash may then grow into spare shared memory.
- **The early return of `lfc_change_limit_hook`** for processes without shared memory and for parallel workers.
  - A parallel worker's hook first runs with the default value 0 and then with the leader's value. Both are skipped, so the worker never shrinks, and in the meantime its limit only disables its own calls.
  - Modelled as a process, the worker would differ from a backend only in that its reloads change nothing shared. No property tells that apart from a backend that does not reload.
- **Which processes may take an LWLock.** The postmaster runs `lfc_change_limit_hook` too; see the hazards in `PROJECT.json`.

- **The reconnect budget per call.** `n_reconnect_attempts` is reset only after a successful connect. So after the ERROR that ends one `pageserver_send`, the next call raises on its first failure. spec.md 4.H speaks of consecutive failures, which is what the code does. A per-call reading would be a different design, not a property of this code. `SendReturns` checks termination.

## Open questions

- Whether the reconnect budget is meant to be per call or per run of consecutive failures (spec.md 4.H).
- Whether `pageserver_send` should reload the shard map on an established connection. Run `psstore_b4` shows that it does not, which contradicts spec.md B4.
