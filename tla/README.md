# Codo: a TLA+ verification project

Codo is a C11 HTTP server with an embedded B-tree storage engine, a todo REST
API with a read cache, and a TCP load balancer. This directory models the parts
of it whose correctness depends on interleavings, failures and the order of
steps, checks them with TLC on small instances, and proves the central ones
with TLAPS for every instance. Paths below are relative to `src/`.

## The system

| Part | State | Operations | What is hard about it |
| --- | --- | --- | --- |
| Todo handlers (`api/src/todo_handlers.c`) | rows in the B-tree, id counter, write lock | create, get, update, delete, list | 16 pool threads run them at once; a transaction isolates nothing and has no undo, so a handler is a sequence of separate storage and cache calls |
| Owner index (`api/src/todo_index.c`) | `<user, id>` entries in the same B-tree | insert, delete, scan, startup reconcile | two writes per todo, either of which may fail |
| Read cache (`common/src/lru.c`) | hash chains and recency list over heap nodes, generation counter | get, put, fill, invalidate | two linked structures that must agree; fills that race writes |
| Storage pool (`common/src/thread_pool.c`) | FIFO per priority, mutex, condition, shutdown flags | create, submit, pop, destroy | lost wake-ups, shutdown against parked workers, starvation |
| Event loop (`server/src/worker.c`) | connections, epoll interest, `offloaded` flag, list lock | accept, read, write, offload, hand-back, idle sweep, drain | edge-triggered events, a connection owned by two threads in turn, pipelining |
| Server lifecycle (`server/src/server.c`, `main.c`) | running flags | signal, stop, cleanup | order of joins and frees |
| Buffer pool, log, engine (`storage/src/pager.c`, `wal.c`, `txn.c`, `engine.c`) | frames, pins, page locks, WAL buffer, data file, page allocator | page get, release, evict, allocate; log append and flush; commit; checkpoint; start | pins and locks taken under different mutexes, failing I/O, crashes without replay |
| B-tree (`storage/src/btree.c`, `db.c`) | pages of sorted entries, sibling chain | insert, search, delete, scan, split | splits that cascade, and splits that fail half way |
| Load balancer (`balancer/src`) | relay buffers, epoll interest, backend health and counts | accept, relay, close, select | several events per connection in one batch, half-close, passive health |

The parts meet in four places. The event loop hands a request to the pool and
gets the connection back through the `offloaded` flag and the list lock. The
pool's threads run the todo handlers, which share the B-tree, the index and the
cache. The B-tree works on pages that the buffer pool may evict as soon as they
are not pinned. Shutdown takes the loops, the pool, the connections and the
engine down in that order.

## Modules

| Module | Models | State and actions |
| --- | --- | --- |
| `LruCache` | the cache as a value: `val`, recency `order`, `generation` | `Get`, `Put`, `Fill`, `Invalidate`, one operator per call |
| `LruSpec` | the contract of `common/include/lru.h` | what a lookup may return, what a write, a refill and a removal do |
| `LruTable` | the cache as pointers | operators named after the C functions; each call holds `cache->lock` and is one step |
| `TodoApi` | the handlers | one step per `db_*` and `lru_*` call; `call[t].step` names the next call of thread `t`, its other fields are the handler's locals |
| `TodoHistory` | `TodoApi` with history variables | what has been deleted, what a listing should show |
| `PoolSpec` | what the pool promises its users | `Submit`, `Start`, `Finish`, `Close` |
| `ThreadPool` | the pool | the threads' positions; a pop that finds nothing holds the mutex across two steps, because the shutdown flag is set without it |
| `EventLoop` | one event loop with its clients, the pool (as `PoolSpec`) and the main thread | an event is one step up to the points where another thread can interfere |
| `Wal` | the log as a value: buffer, file, next LSN | `write_wal_record`, `flush_wal_buffer`: the set of results of a call |
| `Storage` | buffer pool, page locks, allocator, transactions, checkpoint, exit, crash, start | one step per page request, page lock, log record, change, release; `thread[t]` holds the pages a thread has pinned and what it is about to do |
| `Btree` | the tree's pages | `Insert`, `InsertFails`, `Delete`; the recursion of `btree_split_node` and `insert_separator` as operators on a tree value |
| `Selection` | backend health and the four selection strategies | operators on `lb->backends` |
| `Balancer` | the balancer's event loop with its peers | `EpollWait` takes a batch, one action per handler dispatches an event |
| `LruCacheProofs`, `TodoApiProofs`, `TodoCoherence`, `TodoIndexProofs`, `ThreadPoolProofs`, `EventLoopProofs`, `BalancerProofs` | proofs | |
| `MC*` | instances for TLC (symmetry, hash function, sizes, setups) | |

How they compose:

* `EventLoop` uses the pool through `PoolSpec`, which `ThreadPool` is checked and
  proved to implement.
* `TodoApi` uses `LruCache`; `LruTable` extends it and is checked to implement
  `LruSpec` through the abstraction function `AsValue`.
* The B-tree appears three times, each time with another part abstracted.
  `TodoApi` has it as a map whose calls may fail. `Btree` has the entries and the
  splits, with `get_page` failing at any call. `Storage` has the page requests,
  locks, pins and log records of the same operations step by step, with a page
  as the set of changes made to it and the descent visiting any page in use.
* `Storage` uses `Wal`, `Balancer` uses `Selection`.

A definition with a comment `Mutant ...` in front of it is a deliberately wrong
variant. No specification uses it; it serves to show that the properties notice
the mistake.

### Abstractions

* A todo is its owner and its content; ids are numbers and JSON is not modelled.
  A request that fails validation is answered before it touches any state and is
  left out. In `TodoApi` so are the commit and abort records, which write no row.
* In `TodoApi` the engine's calls are atomic, as the tree and page locks make
  them for one key. `db_insert` holds the tree lock exclusively and waits for the
  scans; `db_search` and `db_delete` share it with them. A scan visits one key per
  step.
* `Faults` names the calls that may fail. In `TodoApi`: `begin` (memory for a
  transaction), `search`, `insert`, `restore` (the insert that undoes a failed
  PUT), `delete`, `malloc` (memory in `lru_put` and `lru_fill`). In `Storage`:
  `memory`, `read`, `evict` and `checkpoint` (writes of pages), `wal` (writes of
  the log). In `Balancer`: the calls of `lb_handle_new_connection`. In
  `EventLoop`: `epoll_ctl` and `thread_pool_submit`.
* `KnownIdsOnly` says whether clients name an id only once its POST has been
  answered. Ids are consecutive, so a client can guess one.
* Initial states of `TodoApi` are every set of rows and every owner, with the
  index in step with them or unavailable, as the reconcile leaves it. When it is
  unavailable nothing reads the index, so it starts empty. Rows of
  accounts that never existed have no owner.
* In `EventLoop` a request is some incomplete pieces and the one that completes
  it. The socket, epoll's ready list and the client are external. `epoll_ctl`
  reports again what is already true when it arms a socket. A client that asked
  for an upgrade waits for the 101 before it sends frames, and keeps fewer frames
  unread than the read buffer holds. The keep-alive timeout of 30 s is taken not
  to elapse between publishing a connection and adding it to epoll.
* In `Wal` and `Storage` what `write` has accepted survives the death of the
  process, so `fsync` is not modelled; a crash is one of the process. A write that
  fails may have written a part. Frames are kept in order of last access instead
  of by index with a clock reading.
* In `Btree` a key is a number and a value the bytes its pair takes. `db_insert`
  holds `tree_lock` exclusively and `db_delete` changes one leaf under its lock,
  so each is one step.
* In `Balancer` a connection is a slot of memory that a later connection can get
  again while events point to it. Peers send 1, 2, 3 ...; the header's bytes are 0.
  Time is left out: an unhealthy backend may become due for recovery at any
  selection.

## Runs

State counts are distinct states. Deadlock is checked except in the `Pool` and
`Loop*` runs, where a pool that has been freed and a server that has stopped are
meant to do nothing more.

| Run | Instance | Shows | States |
| --- | --- | --- | --- |
| `LruTable` | 4 keys, 3 in one bucket, capacity 3, 4 nodes, 2 values | both structures agree after every call; the contract of `lru.h` | 7,961 |
| `TodoCore` | 3 threads, 1 user, 2 contents, 2 ids, capacity 1; inserts, restores, deletes and searches fail | `CacheCoherent` | 1,938,558 |
| `TodoHandlers` | 2 threads, 1 user, 2 ids; begins, inserts and memory fail | rows and index in step, listings on both paths show every untouched todo, the deleted stays deleted, every request ends | 141,233 |
| `Pool` | 2 workers, 2 submitters, 3 tasks, 2 priorities | no lost wake-up, exact size, freed only when unused, implements `PoolSpec`; destruction ends; reads are served; writes are when reads let up | 11,737 |
| `LoopOwnership` | 2 connections, 2 requests each, failing `epoll_ctl` and submit | ownership, batches, no leak | 2,687,044 |
| `LoopLiveness` | 1 connection, 3 pieces, HTTP and WebSocket | requests and frames answered, dead peers dropped, server stopped | 100,886 |
| `Storage` | 2 threads, 2 frames, 3 pages, 2 transactions, one restart; page writes and memory fail | the pool is consistent, a page holds still under its readers, its newest contents can be read, no page in use is handed out, the log is ahead of the file and has what was committed | 2,163,089 |
| `Btree` | 6 keys, leaves of three pairs, nodes of two separators, 9 pages, one failing operation | search and scan find exactly what is stored, insertions are refused only for duplicates, an interrupted split loses no pair | 52,768 |
| `Balancer` | relaying 3 and 2 bytes behind a header; two silent connections; each strategy with weights 2 and 1 | bytes in order, events reach their connection, counts, health and weights right, responses complete, ended connections released | 315,661 |

Why the bounds are enough for the cases that matter:

* Races in the handlers need a writer, a reader and a third thread that changes
  what the reader relied on, so `TodoCore` has three. One user suffices because
  ownership only ends handlers early. `TodoHandlers`, with history and liveness,
  has two threads: a listing against a writer, or two writers.
* With capacity 1 and two ids every store of the other id evicts. In `LruTable`
  one key more than the capacity makes evictions happen while three keys in a
  bucket make removals happen at the head, inside and at the end of a chain.
* A lost wake-up needs two parked workers and two pushes; a third task lets a
  running worker take the one meant for another.
* A read buffer of three pieces gets full in `LoopLiveness`; two connections are
  needed for an event of one to free the other.
* In `Storage` two frames for three pages make every third page an eviction, and
  two threads pin both frames. A log buffer of two records is flushed by the
  third. An old file of two pages has the root and one leaf; the third page comes
  from a split.
* In `Btree` pairs of a third of a page and separators of half a page make six
  keys a tree of three levels, in which a leaf's split has to split its parent
  and the root. `MaxCalls` is more than the page requests of the deepest
  insertion before its last one.
* In `Balancer` the peer sends more than a buffer (2) and the header holds up the
  first chunk. Weights 3, 2, 1 and 2, 1, 1 under `round_robin` and two connections
  under `least_conn` have been checked as well, without liveness, with the same
  result.
* `MaxGeneration`, `MaxSent`, `MaxId`, `MaxChange`, `MaxTxn`, `MaxRestart` and
  `MaxFaults` keep the instances finite. New work stops at the bound and what is
  in progress ends normally.

### Fairness

`TodoApi` assumes that a pool thread inside a handler keeps running, and
`ThreadPool` that runnable threads are scheduled, tasks return and the owner
proceeds. `EventLoop` assumes it of the loop (whose `epoll_wait` times out after
a second), the pool threads and the main thread. `Balancer` assumes that its loop
keeps taking and dispatching batches and that a peer that is sent
something reads it or goes away. Otherwise nothing is assumed of clients and backends, of signals, or of spurious
wake-ups. `WritersFinish` has a hypothesis because the engine's `tree_lock` has
the default attributes, under which overlapping scans may keep an insert out for
ever (`storage/src/engine.c:82`); `LowerServedInLulls` has one because reads are
always served first. `Storage` and `Btree` are checked for safety only.

## Disagreements with the comments

Three runs are expected to end in a violation. Each checks one sentence of a
comment against the code.

| Run | The comment | What happens |
| --- | --- | --- |
| `TodoSnapshot` | `api/src/todo_handlers.c:42` "one listing is a consistent snapshot" | a listing misses a todo that a PUT is replacing |
| `StorageLogFault` | `storage/src/wal.c:40` "so the next flush does not re-append the already-written prefix" | a flush that fails after a partial write is repeated from the start of the buffer, so records are in the log twice |
| `LoopRearm` | `server/src/worker.c:300` "The worker's free paths take the same lock" | `drain_worker_connections` frees without the lock while the pool thread re-arms |

Cases in which a property needs a hypothesis, met while modelling:

* `CacheCoherent` needs `KnownIdsOnly`: a DELETE of a new id between the create's
  commit and its `lru_put` (`api/src/todo_handlers.c:537`) leaves the deleted todo
  in the cache. The same client can leave an index entry without a row.
* `CacheCoherent` needs memory in `lru_put` (`common/src/lru.c:278`): otherwise the
  old value stays and nobody looks at the result.
* `StoredTodosListed` needs the row delete of a DELETE to succeed
  (`api/src/todo_handlers.c:756`): otherwise the todo is stored, unlisted and
  reported deleted, where the comment at :745 has it "both stored and listed".
* `LogAheadOfFile` needs the log's writes to succeed: `write_page_to_disk` writes
  the page even if the flush before it failed (`storage/src/pager.c:95`).
* `SearchFindsStored` and `InsertRefusesOnlyDuplicates` are about trees without a
  torn split. After one, `db_search` misses the upper half; `NothingLost` says
  that the leaf chain, which scans walk, still has it.
* `AllocatedIsFree` and `LatestReadable` are about a restart after an exit whose
  checkpoint wrote every page. After a crash there is no replay
  (`storage/src/engine.c:154` says so).
* `ResponseIsComplete` is about responses that end in order. A backend that resets
  while an earlier chunk is unsent has no `EPOLLIN` in its interest set, so what
  is readable is dropped (`balancer/src/balancer.c:174` wants it read first).
* `storage/src/txn.c:98` says that abort closes only transactions that wrote
  nothing; `api/src/todo_handlers.c:688` aborts after a delete. Nothing is undone
  either way, as `TodoApi` and `Storage` have it.

## Proofs

| Theorem | States | From |
| --- | --- | --- |
| `LruCacheProofs!StoreFacts` (and `PutFacts`, `FillFacts`, `InvalidateFacts`) | a store keeps the cache well formed and within capacity, caches the value, and changes other keys only by dropping them | `CapacityAssumption` and the distinctness of `NoValue` |
| `TodoApiProofs!TypeCorrect` | `Spec => []TypeOK` | the named assumptions of `TodoApi` |
| `TodoCoherence!CacheStaysCoherent` | `Spec => []CacheCoherent` if `KnownIdsOnly` and `"malloc" \notin Faults` | the above |
| `TodoIndexProofs!StoredStaysListed` | `Spec => []StoredTodosListed` if `KnownIdsOnly` and neither `"delete"` nor `"restore"` is in `Faults` | the same |
| `TodoIndexProofs!EntriesKeepRows` | `Spec => []EntriesHaveRows` under the same conditions | the same |
| `ThreadPoolProofs!NoLostWakeup` | `Spec => []ParkedOnlyWhenCovered` | finitely many workers, `None` distinct, at least one priority |
| `ThreadPoolProofs!SizeStaysExact` | `Spec => []SizeIsExact` | the same |
| `ThreadPoolProofs!FreedPoolIsUnused` | `Spec => []FreedIsUnused` | the same |
| `ThreadPoolProofs!PoolImplementsPromise` | `Spec => KeepsPromise`, the refinement of `PoolSpec` | the same |
| `EventLoopProofs!OffloadedStaysKept` | `Spec => []OffloadedIsKept` | `NoConnAssumption` |
| `EventLoopProofs!BatchStaysLive` | `Spec => []BatchIsLive` | the same |
| `EventLoopProofs!ListsStayExact` | `Spec => []ListsAreExact`, the part of `NothingLeaks` about the worker's lists | the same |
| `BalancerProofs!EventsNeverStray` | `Spec => []EventsReachTheirConnection` | `BalancerAssumption` |
| `BalancerProofs!CountsStayExact` | `Spec => []ConnectionsCounted` | the same |
| `BalancerProofs!HealthStaysExact` | `Spec => []HealthFollowsFailures` | the same |

**The cache.** `TypeOK` says that the cache is well formed, so its proof rests on
the facts about the cache operators, which are proved once for an arbitrary cache
and carried over to the instance in `TodoApi`.

`CacheCoherent` is not inductive: it says nothing of the readers that have read a
row and have not filled the cache yet. `CoherenceInv` adds, per thread,

* that a reader about to fill with the current generation holds the stored value
  or one that a writer is replacing (`FillFresh`);
* what the rows and the cache hold for the id of each POST, PUT and DELETE in
  progress, the latter two under the write lock (`CreateStored`, `WriterStored`);
* that ids not handed out are unused, and that nobody else works on the id of a
  POST in progress (`UnusedIds`, `CreatesApart`), which is where `KnownIdsOnly`
  is needed.

A writer bumps the generation only after it has changed the row, so a fill may
still win while the row is being replaced; that is why `CacheCoherent` admits the
previous value until the writer's own cache call. The proof has one lemma per
handler, resting on lemmas for the three kinds of effect a step can have: none on
rows and cache (`QuietStep`), one on a row (`RowStep`), one on the cache
(`CacheStep`). It covers every fault but `malloc`.

**The index.** Both properties are about ids no handler is working on, so they say
nothing in the middle of a handler. `IndexInv` says what the index shows for an id
at each position of the handler that works on it (`Indexed`): the row as stored,
the row a PUT has deleted and will put back, or nothing, between the two writes of
a POST or a DELETE. `RowFits` adds what that handler relies on (a DELETE's row is
still there, a PUT's is not once it has deleted it), and `MutatorsApart` that no
two handlers change one id: PUT and DELETE hold the lock, and the id of a POST is
not known to anybody else. Each handler then has to leave the id `InStep`, on its
error paths as well. The two conditions on faults are where the code looks at no
result or has nothing left to try: both deletes of a DELETE, the delete that undoes
a POST, and the insert that undoes a PUT.

**The pool.** No single one of its invariants is inductive; `PoolInv` adds

* that a worker holds the mutex across a step only while it decides to wait, with
  the queue empty (`Deciders`), so that nothing is pushed between its test and its
  wait;
* that a task is in one place, with one submitter, in one slot of the queues or
  with one worker (`TasksApart`), without which a pop might leave a copy behind
  and the size would not be the number of tasks;
* that nobody submits to a pool being created or destroyed (`SubmitsInTime`).

The argument about wake-ups counts: a push adds one task and moves one parked
worker, if there is one, to those on their way; a pop takes one of each; no other
step lowers the number on their way while the queue is not empty and no shutdown
has begun. What the queues hold after a push and a pop is proved once
(`PushQueues`, `PopQueues`), including that `Served` exists when the size is not
0, which is the only use of well-founded induction (`LeastNumber`). For the
refinement each push, pop, return and free is mapped to the step of `PoolSpec` of
the same task, and the other steps are shown to be hidden.

**The event loop.** `LoopInv` adds to the three properties

* that a connection the pool has is parked: its socket is armed for nothing, so a
  batch has at most a hang-up for it, which the loop ignores while `offloaded` is
  set (`PoolOwns`), and the list lock is held by pool threads only;
* how far the loop and the main thread can be apart (`Phases`): the drain starts
  after the loop's last batch, the pool is destroyed after the loop has exited, and
  what was deferred is freed when the pool has nothing left.

It needs no types of the buffers, only which fields a connection has (`Shapes`),
because ownership does not depend on what is read or written.

**The balancer.** `BalancerInv` adds that backends and connections have their
fields and that events name slots (`SoundBackends`, `SoundConns`). A closed
connection keeps its slot until the batch is over, so an accept in the same batch
takes another one; a count changes with the set of slots it is the cardinality of.
No strategy touches health or counts, which is proved for each of the four.

Only model-checked:

* all liveness properties: they rest on fairness, which this prover does not handle;
* `LruTable` and `Btree`, whose definitions are recursive;
* `Storage`;
* the balancer's `StreamsIntact`, `ResponseIsComplete` and `WeightsBalanced` (a sum
  over the backends);
* the field types in `NothingLeaks`;
* the history properties of `TodoHistory`.

## Not modelled, and why

* Rate limiter (`server/src/rate_limit.c`): one table behind one mutex. What could
  be wrong is the arithmetic of its doubles, which TLC has no numbers for. The
  clock is read outside the lock, so an older reading can be applied after a newer
  one; that changes by how much a bucket is refilled and nothing else.
* Accounts, JWT, API keys: a registration is one `db_insert`, whose duplicate test
  decides between two of one name and is in `Btree`; logins and tokens only read.
  If the startup scan stops early the id counters may be below stored ids
  (`server/src/user_auth.c:500`, `api/src/todo_handlers.c:800`); the models start
  after a scan that succeeded.
* The startup reconcile's sorted merge: it runs before any request. `TodoApi`
  starts from the states it leaves.
* Listing filters, pages and `X-Total-Count`: pure functions of the rows read.
* HTTP framing, 100-continue, the PROXY header's text, the WebSocket decoder, JSON
  scanning: byte formats out of TLC's reach. `EventLoop` takes from them whether a
  request is complete, partial, malformed or an upgrade; `Balancer` takes the
  header's length.
* Work stealing in the pool: off in the server, and no code fills a local queue.
* Failing allocations of connection buffers and the server's startup error paths.
* Metrics, configuration, TLS, compression, static file types, the secure memory
  arena: no state that a decision depends on, read once at startup, or wrappers of
  libraries.
