------------------------------ MODULE TodoApi -------------------------------
(***************************************************************************)
(* The todo REST handlers of api/src/todo_handlers.c, run by the storage   *)
(* pool's threads against three pieces of shared state: the todo rows of   *)
(* the btree, the owner index of api/src/todo_index.c kept in the same     *)
(* btree, and the read cache of common/src/lru.c.                          *)
(*                                                                         *)
(* Every call into the engine (db_insert, db_delete, db_search) and every  *)
(* call into the cache is one step; between two of them any other thread   *)
(* may run, since a transaction gives no isolation.  A request that fails  *)
(* its validation is answered before it touches anything and is left out,  *)
(* as are the commit and abort of a transaction, which write no row.       *)
(***************************************************************************)
EXTENDS Integers, FiniteSets, Sequences

CONSTANTS
    Thread,         \* storage pool threads, each running one handler at a time
    User,           \* authenticated identities (conn->auth_user_id)
    Data,           \* the title and completed flag of a request body
    Null,           \* no row, no user, no thread
    MaxId,          \* bound on the ids handed out
    MaxGeneration,  \* bound on the cache writes, to keep the instance finite
    CacheCapacity,  \* TODO_CACHE_CAPACITY; 0 when the cache could not be created
    Faults,         \* the calls that may fail for want of memory, pages or I/O
    KnownIdsOnly    \* clients name an id only once its POST has been answered

FaultKinds == {"begin", "search", "insert", "restore", "delete", "malloc"}

ASSUME MaxIdAssumption == MaxId \in Nat
ASSUME MaxGenerationAssumption == MaxGeneration \in Nat
ASSUME CacheCapacityAssumption == CacheCapacity \in Nat
ASSUME FaultsAssumption == Faults \subseteq FaultKinds
ASSUME KnownIdsOnlyAssumption == KnownIdsOnly \in BOOLEAN

Id == 1 .. MaxId

(***************************************************************************)
(* A stored todo: its owner and its content.  A row written before         *)
(* accounts existed has no owner and belongs to nobody.                    *)
(***************************************************************************)
Todo == [user : User \cup {Null}, data : Data]

ASSUME NullAssumption == Null \notin Todo \cup User \cup Data \cup Thread

Cache == INSTANCE LruCache
           WITH Key <- Id, Value <- Todo, NoValue <- Null, Capacity <- CacheCapacity

VARIABLES
    rows,           \* the todo row stored under each id
    idx,            \* the owner index entries, as <<user, id>> pairs
    g_index_ready,  \* did the startup reconcile bring idx in step with rows?
    g_next_todo_id, \* the id counter
    g_todo_cache,   \* the read cache
    lock,           \* the thread holding g_todo_write_lock
    call,           \* each thread's position in its handler, and its locals
    listing         \* the locals of a collection GET

vars == <<rows, idx, g_index_ready, g_next_todo_id, g_todo_cache, lock, call, listing>>

-----------------------------------------------------------------------------
(***************************************************************************)
(* Handlers in progress.  step is the next call the handler makes; a       *)
(* thread without a request is idle.                                       *)
(***************************************************************************)
CreateSteps == {"create_row", "create_index", "create_undo", "create_cache"}
GetSteps    == {"get_generation", "get_row", "get_fill"}
UpdateSteps == {"update_search", "update_delete", "update_insert", "update_restore",
                "update_drop", "update_cache"}
DeleteSteps == {"delete_search", "delete_index", "delete_row", "delete_drop"}
ListSteps   == {"list_index", "list_rows", "list_all", "list_answer"}
WriterSteps == UpdateSteps \cup DeleteSteps
Steps       == {"idle"} \cup CreateSteps \cup GetSteps \cup WriterSteps \cup ListSteps

Calls == [step : Steps, user : User \cup {Null}, id : 0 .. MaxId,
          data : Data \cup {Null}, row : Todo \cup {Null}, generation : Nat]

Idle == [step |-> "idle", user |-> Null, id |-> 0, data |-> Null, row |-> Null,
         generation |-> 0]

Listings == [cursor : 0 .. MaxId, ids : SUBSET Id, out : SUBSET Id]

NoListing == [cursor |-> 0, ids |-> {}, out |-> {}]

At(t, step) == call[t].step = step
IdOf(t)     == call[t].id
NewTodo(t)  == [user |-> call[t].user, data |-> call[t].data]
Owned(row, user) == row # Null /\ row.user = user

Goto(t, step) == call' = [call EXCEPT ![t].step = step]
Answer(t)     == call' = [call EXCEPT ![t] = Idle]
Request(t, step, user, id, data) ==
    call' = [call EXCEPT ![t] = [Idle EXCEPT !.step = step, !.user = user,
                                             !.id = id, !.data = data]]

(***************************************************************************)
(* New PUTs and DELETEs stop once MaxGeneration writes reached the cache.  *)
(***************************************************************************)
WritesLeft == g_todo_cache.generation < MaxGeneration

MayFail(kind) == kind \in Faults

(***************************************************************************)
(* Ids whose POST is still in progress, and the ids a client may name.     *)
(***************************************************************************)
Creating == {IdOf(t) : t \in {s \in Thread : call[s].step \in CreateSteps}}

Addressable ==
    IF KnownIdsOnly THEN {i \in Id : i < g_next_todo_id} \ Creating ELSE Id

-----------------------------------------------------------------------------
(***************************************************************************)
(* The engine as the handlers see it.  db_insert takes the tree lock       *)
(* exclusively and so waits for the scans in progress; db_search and       *)
(* db_delete share it with them.  db_insert refuses a key already there,   *)
(* db_delete one that is not.                                              *)
(***************************************************************************)
TreeUnshared == \A t \in Thread : call[t].step \notin {"list_index", "list_all"}

InsertRow(id, row) ==
    TreeUnshared /\ rows[id] = Null /\ rows' = [rows EXCEPT ![id] = row]
InsertRowFails(id, kind) ==
    TreeUnshared /\ (rows[id] # Null \/ MayFail(kind)) /\ UNCHANGED rows

DeleteRow(id) == rows[id] # Null /\ rows' = [rows EXCEPT ![id] = Null]
DeleteRowFails(id) == (rows[id] = Null \/ MayFail("delete")) /\ UNCHANGED rows

IndexInsert(user, id) ==
    TreeUnshared /\ <<user, id>> \notin idx /\ idx' = idx \cup {<<user, id>>}
IndexInsertFails(user, id) ==
    TreeUnshared /\ (<<user, id>> \in idx \/ MayFail("insert")) /\ UNCHANGED idx

IndexDelete(user, id) == idx' = idx \ {<<user, id>>}
IndexDeleteFails == MayFail("delete") /\ UNCHANGED idx

CachePut(id, todo) ==
    \/ g_todo_cache' = Cache!Put(g_todo_cache, id, todo)
    \/ MayFail("malloc") /\ g_todo_cache' = Cache!PutWithoutMemory(g_todo_cache)

-----------------------------------------------------------------------------
(***************************************************************************)
(* POST /api/todos: todo_create_handler.  It never takes the write lock.   *)
(***************************************************************************)
CreateRequest(t) ==
    /\ At(t, "idle")
    /\ g_next_todo_id \in Id
    /\ g_next_todo_id' = g_next_todo_id + 1
    /\ \/ \E u \in User, d \in Data : Request(t, "create_row", u, g_next_todo_id, d)
       \/ MayFail("begin") /\ UNCHANGED call
    /\ UNCHANGED <<rows, idx, g_index_ready, g_todo_cache, lock, listing>>

CreateRow(t) ==
    /\ At(t, "create_row")
    /\ \/ InsertRow(IdOf(t), NewTodo(t))
          /\ Goto(t, IF g_index_ready THEN "create_index" ELSE "create_cache")
       \/ InsertRowFails(IdOf(t), "insert") /\ Answer(t)
    /\ UNCHANGED <<idx, g_index_ready, g_next_todo_id, g_todo_cache, lock, listing>>

\* Mutant of CreateIndex: a row whose index entry failed is not undone.
CreateIndexForgiving(t) ==
    /\ At(t, "create_index")
    /\ \/ IndexInsert(call[t].user, IdOf(t))
       \/ IndexInsertFails(call[t].user, IdOf(t))
    /\ Goto(t, "create_cache")
    /\ UNCHANGED <<rows, g_index_ready, g_next_todo_id, g_todo_cache, lock, listing>>

CreateIndex(t) ==
    /\ At(t, "create_index")
    /\ \/ IndexInsert(call[t].user, IdOf(t)) /\ Goto(t, "create_cache")
       \/ IndexInsertFails(call[t].user, IdOf(t)) /\ Goto(t, "create_undo")
    /\ UNCHANGED <<rows, g_index_ready, g_next_todo_id, g_todo_cache, lock, listing>>

CreateUndo(t) ==
    /\ At(t, "create_undo")
    /\ DeleteRow(IdOf(t)) \/ DeleteRowFails(IdOf(t))
    /\ Answer(t)
    /\ UNCHANGED <<idx, g_index_ready, g_next_todo_id, g_todo_cache, lock, listing>>

CreateCache(t) ==
    /\ At(t, "create_cache")
    /\ CachePut(IdOf(t), NewTodo(t))
    /\ Answer(t)
    /\ UNCHANGED <<rows, idx, g_index_ready, g_next_todo_id, lock, listing>>

-----------------------------------------------------------------------------
(***************************************************************************)
(* GET /api/todos/{id}: todo_get_handler.  A hit is answered from the      *)
(* cache, to its owner or as missing; a miss reads the row and fills.      *)
(***************************************************************************)
GetRequest(t) ==
    /\ At(t, "idle")
    /\ \E u \in User, i \in Addressable :
          /\ g_todo_cache' = Cache!Get(g_todo_cache, i)
          /\ IF Cache!Found(g_todo_cache, i) = Null
             THEN Request(t, "get_generation", u, i, Null)
             ELSE UNCHANGED call
    /\ UNCHANGED <<rows, idx, g_index_ready, g_next_todo_id, lock, listing>>

GetGeneration(t) ==
    /\ At(t, "get_generation")
    /\ \/ call' = [call EXCEPT ![t].step = "get_row",
                               ![t].generation = g_todo_cache.generation]
       \/ MayFail("begin") /\ Answer(t)
    /\ UNCHANGED <<rows, idx, g_index_ready, g_next_todo_id, g_todo_cache, lock, listing>>

GetRow(t) ==
    /\ At(t, "get_row")
    /\ \/ /\ rows[IdOf(t)] # Null
          /\ call' = [call EXCEPT ![t].step = "get_fill", ![t].row = rows[IdOf(t)]]
       \/ (rows[IdOf(t)] = Null \/ MayFail("search")) /\ Answer(t)
    /\ UNCHANGED <<rows, idx, g_index_ready, g_next_todo_id, g_todo_cache, lock, listing>>

GetFill(t) ==
    /\ At(t, "get_fill")
    /\ \/ g_todo_cache' = Cache!Fill(g_todo_cache, IdOf(t), call[t].row,
                                     call[t].generation)
       \/ MayFail("malloc") /\ UNCHANGED g_todo_cache
    /\ Answer(t)
    /\ UNCHANGED <<rows, idx, g_index_ready, g_next_todo_id, lock, listing>>

-----------------------------------------------------------------------------
(***************************************************************************)
(* PUT /api/todos/{id}: todo_update_handler.  The write lock is held from  *)
(* the first step to the answer, whichever way the handler leaves.         *)
(***************************************************************************)
Unlock(t) == lock' = Null /\ Answer(t)

\* Mutant of UpdateRequest: the PUT does not wait for the write lock.
UpdateRequestUnlocked(t) ==
    /\ At(t, "idle")
    /\ WritesLeft
    /\ \E u \in User, i \in Addressable, d \in Data : Request(t, "update_search", u, i, d)
    /\ UNCHANGED <<rows, idx, g_index_ready, g_next_todo_id, g_todo_cache, lock, listing>>

UpdateRequest(t) ==
    /\ At(t, "idle")
    /\ WritesLeft
    /\ lock = Null
    /\ lock' = t
    /\ \E u \in User, i \in Addressable, d \in Data : Request(t, "update_search", u, i, d)
    /\ UNCHANGED <<rows, idx, g_index_ready, g_next_todo_id, g_todo_cache, listing>>

(***************************************************************************)
(* The search both writers start with: a transaction that cannot begin, a  *)
(* missing row and somebody else's row all end the handler.                *)
(***************************************************************************)
SearchOwned(t, next) ==
    /\ \/ /\ Owned(rows[IdOf(t)], call[t].user)
          /\ call' = [call EXCEPT ![t].step = next, ![t].row = rows[IdOf(t)]]
          /\ UNCHANGED lock
       \/ /\ \/ ~Owned(rows[IdOf(t)], call[t].user)
             \/ MayFail("begin")
             \/ MayFail("search")
          /\ Unlock(t)
    /\ UNCHANGED <<rows, idx, g_index_ready, g_next_todo_id, g_todo_cache, listing>>

UpdateSearch(t) == At(t, "update_search") /\ SearchOwned(t, "update_delete")

UpdateDelete(t) ==
    /\ At(t, "update_delete")
    /\ \/ DeleteRow(IdOf(t)) /\ Goto(t, "update_insert") /\ UNCHANGED lock
       \/ DeleteRowFails(IdOf(t)) /\ Unlock(t)
    /\ UNCHANGED <<idx, g_index_ready, g_next_todo_id, g_todo_cache, listing>>

UpdateInsert(t) ==
    /\ At(t, "update_insert")
    /\ \/ InsertRow(IdOf(t), NewTodo(t)) /\ Goto(t, "update_cache")
       \/ InsertRowFails(IdOf(t), "insert") /\ Goto(t, "update_restore")
    /\ UNCHANGED <<idx, g_index_ready, g_next_todo_id, g_todo_cache, lock, listing>>

\* Mutant of UpdateRestore: the path that restores the row forgets to unlock.
UpdateRestoreKeepsLock(t) ==
    /\ At(t, "update_restore")
    /\ \/ InsertRow(IdOf(t), call[t].row) /\ Answer(t)
       \/ InsertRowFails(IdOf(t), "restore") /\ Goto(t, "update_drop")
    /\ UNCHANGED <<idx, g_index_ready, g_next_todo_id, g_todo_cache, lock, listing>>

UpdateRestore(t) ==
    /\ At(t, "update_restore")
    /\ \/ InsertRow(IdOf(t), call[t].row) /\ Unlock(t)
       \/ InsertRowFails(IdOf(t), "restore") /\ Goto(t, "update_drop") /\ UNCHANGED lock
    /\ UNCHANGED <<idx, g_index_ready, g_next_todo_id, g_todo_cache, listing>>

DropCached(t) ==
    /\ g_todo_cache' = Cache!Invalidate(g_todo_cache, IdOf(t))
    /\ Unlock(t)
    /\ UNCHANGED <<rows, idx, g_index_ready, g_next_todo_id, listing>>

UpdateDrop(t) == At(t, "update_drop") /\ DropCached(t)

UpdateCache(t) ==
    /\ At(t, "update_cache")
    /\ CachePut(IdOf(t), NewTodo(t))
    /\ Unlock(t)
    /\ UNCHANGED <<rows, idx, g_index_ready, g_next_todo_id, listing>>

-----------------------------------------------------------------------------
(***************************************************************************)
(* DELETE /api/todos/{id}: todo_delete_handler.  The results of both       *)
(* storage deletes are ignored.                                            *)
(***************************************************************************)
DeleteRequest(t) ==
    /\ At(t, "idle")
    /\ WritesLeft
    /\ lock = Null
    /\ lock' = t
    /\ \E u \in User, i \in Addressable : Request(t, "delete_search", u, i, Null)
    /\ UNCHANGED <<rows, idx, g_index_ready, g_next_todo_id, g_todo_cache, listing>>

\* Mutant of DeleteSearch: the DELETE leaves the index entry behind.
DeleteSearchRowOnly(t) == At(t, "delete_search") /\ SearchOwned(t, "delete_row")

DeleteSearch(t) ==
    /\ At(t, "delete_search")
    /\ SearchOwned(t, IF g_index_ready THEN "delete_index" ELSE "delete_row")

DeleteIndex(t) ==
    /\ At(t, "delete_index")
    /\ IndexDelete(call[t].user, IdOf(t)) \/ IndexDeleteFails
    /\ Goto(t, "delete_row")
    /\ UNCHANGED <<rows, g_index_ready, g_next_todo_id, g_todo_cache, lock, listing>>

DeleteTodo(t) ==
    /\ At(t, "delete_row")
    /\ DeleteRow(IdOf(t)) \/ DeleteRowFails(IdOf(t))
    /\ Goto(t, "delete_drop")
    /\ UNCHANGED <<idx, g_index_ready, g_next_todo_id, g_todo_cache, lock, listing>>

DeleteDrop(t) == At(t, "delete_drop") /\ DropCached(t)

-----------------------------------------------------------------------------
(***************************************************************************)
(* GET /api/todos: todo_list_handler, without filter or page.  The scan    *)
(* holds the tree lock shared for its whole length, visiting one key at a  *)
(* time in key order; the rows of an index scan are read afterwards, one   *)
(* db_search each.                                                         *)
(***************************************************************************)
ListRequest(t) ==
    /\ At(t, "idle")
    /\ \E u \in User : Request(t, IF g_index_ready THEN "list_index" ELSE "list_all", u, 0, Null)
    /\ UNCHANGED <<rows, idx, g_index_ready, g_next_todo_id, g_todo_cache, lock, listing>>

\* Mutant of LowestAfter: the scan resumes at its cursor instead of behind it.
LowestFrom(t, S) == {i \in S : /\ i >= listing[t].cursor
                               /\ \A j \in S : j >= listing[t].cursor => i <= j}

LowestAfter(t, S) == {i \in S : /\ i > listing[t].cursor
                                /\ \A j \in S : j > listing[t].cursor => i <= j}

Visit(t, i, ids, out) ==
    listing' = [listing EXCEPT ![t] = [cursor |-> i, ids |-> ids, out |-> out]]

ScanFails(t) == MayFail("search") /\ listing' = [listing EXCEPT ![t] = NoListing] /\ Answer(t)

ListIndex(t) ==
    /\ At(t, "list_index")
    /\ LET left == LowestAfter(t, {i \in Id : <<call[t].user, i>> \in idx}) IN
       \/ \E i \in left : /\ Visit(t, i, listing[t].ids \cup {i}, {})
                          /\ UNCHANGED call
       \/ left = {} /\ Visit(t, 0, listing[t].ids, {}) /\ Goto(t, "list_rows")
       \/ ScanFails(t)
    /\ UNCHANGED <<rows, idx, g_index_ready, g_next_todo_id, g_todo_cache, lock>>

\* Mutant of Emitted: each row overwrites the ones written before it.
EmittedAlone(t, i) == IF Owned(rows[i], call[t].user) THEN {i} ELSE {}

Emitted(t, i) ==
    listing[t].out \cup (IF Owned(rows[i], call[t].user) THEN {i} ELSE {})

ListRows(t) ==
    /\ At(t, "list_rows")
    /\ LET left == LowestAfter(t, listing[t].ids) IN
       \/ \E i \in left : /\ \/ Visit(t, i, listing[t].ids, Emitted(t, i))
                             \/ MayFail("search") /\ Visit(t, i, listing[t].ids, listing[t].out)
                          /\ UNCHANGED call
       \/ left = {} /\ Goto(t, "list_answer") /\ UNCHANGED listing
    /\ UNCHANGED <<rows, idx, g_index_ready, g_next_todo_id, g_todo_cache, lock>>

ListAll(t) ==
    /\ At(t, "list_all")
    /\ LET left == LowestAfter(t, {i \in Id : rows[i] # Null}) IN
       \/ \E i \in left : Visit(t, i, {}, Emitted(t, i)) /\ UNCHANGED call
       \/ left = {} /\ Goto(t, "list_answer") /\ UNCHANGED listing
       \/ ScanFails(t)
    /\ UNCHANGED <<rows, idx, g_index_ready, g_next_todo_id, g_todo_cache, lock>>

ListAnswer(t) ==
    /\ At(t, "list_answer")
    /\ listing' = [listing EXCEPT ![t] = NoListing]
    /\ Answer(t)
    /\ UNCHANGED <<rows, idx, g_index_ready, g_next_todo_id, g_todo_cache, lock>>

-----------------------------------------------------------------------------
(***************************************************************************)
(* todo_api_init: the reconcile has brought the index in step with the     *)
(* rows, or has failed and left it unavailable; the counter starts above   *)
(* the highest id stored and the cache is empty.                           *)
(***************************************************************************)
OwnerPairs == {<<rows[i].user, i>> : i \in {j \in Id : rows[j] # Null /\ rows[j].user # Null}}

Init ==
    /\ rows \in [Id -> Todo \cup {Null}]
    /\ g_next_todo_id \in 1 .. MaxId + 1
    /\ \A i \in Id : /\ i >= g_next_todo_id => rows[i] = Null
                     /\ i = g_next_todo_id - 1 => rows[i] # Null
    /\ g_index_ready \in BOOLEAN
    /\ idx = IF g_index_ready THEN OwnerPairs ELSE {}
    /\ g_todo_cache = Cache!Empty
    /\ lock = Null
    /\ call = [t \in Thread |-> Idle]
    /\ listing = [t \in Thread |-> NoListing]

Create(t) == CreateRow(t) \/ CreateIndex(t) \/ CreateUndo(t) \/ CreateCache(t)
GetTodo(t) == GetGeneration(t) \/ GetRow(t) \/ GetFill(t)
Update(t) == \/ UpdateSearch(t) \/ UpdateDelete(t) \/ UpdateInsert(t)
             \/ UpdateRestore(t) \/ UpdateDrop(t) \/ UpdateCache(t)
Delete(t) == DeleteSearch(t) \/ DeleteIndex(t) \/ DeleteTodo(t) \/ DeleteDrop(t)
ListTodos(t) == ListIndex(t) \/ ListRows(t) \/ ListAll(t) \/ ListAnswer(t)

Accept(t) == \/ CreateRequest(t) \/ GetRequest(t) \/ UpdateRequest(t)
             \/ DeleteRequest(t) \/ ListRequest(t)
Step(t) == Create(t) \/ GetTodo(t) \/ Update(t) \/ Delete(t) \/ ListTodos(t)

Next == \E t \in Thread : Accept(t) \/ Step(t)

Spec == Init /\ [][Next]_vars

(***************************************************************************)
(* A pool thread that is in a handler keeps running.                       *)
(***************************************************************************)
FairSpec == Spec /\ \A t \in Thread : WF_vars(Step(t))

-----------------------------------------------------------------------------
(***************************************************************************)
(* Every variable stays in its type, and the cache keeps its shape.        *)
(***************************************************************************)
TypeOK ==
    /\ rows \in [Id -> Todo \cup {Null}]
    /\ idx \subseteq (User \X Id)
    /\ g_index_ready \in BOOLEAN
    /\ g_next_todo_id \in 1 .. MaxId + 1
    /\ Cache!WellFormed(g_todo_cache)
    /\ lock \in Thread \cup {Null}
    /\ call \in [Thread -> Calls]
    /\ listing \in [Thread -> Listings]

(***************************************************************************)
(* The value of id that the writer now holding the lock has taken out of   *)
(* storage and not yet replaced in the cache.                              *)
(***************************************************************************)
Superseding == {"update_insert", "update_restore", "update_drop", "update_cache", "delete_drop"}

Superseded(id, v) ==
    \E t \in Thread : /\ call[t].step \in Superseding
                       /\ IdOf(t) = id
                       /\ call[t].row = v

(***************************************************************************)
(* The cache never serves a value that is not the stored one, except for   *)
(* the previous value of a row whose PUT or DELETE is still in progress:   *)
(* "Writes keep the cache in step" (the comment on g_todo_cache).          *)
(***************************************************************************)
CacheCoherent ==
    \A i \in Id : LET v == g_todo_cache.val[i] IN
        v # Null => v = rows[i] \/ Superseded(i, v)

Busy(id) == \E t \in Thread : call[t].step \in CreateSteps \cup WriterSteps /\ IdOf(t) = id

(***************************************************************************)
(* A stored todo that no handler is working on is in its owner's index, so *)
(* that no listing hides it (the comment on g_todo_write_lock).            *)
(***************************************************************************)
StoredTodosListed ==
    g_index_ready =>
        \A i \in Id : rows[i] # Null /\ rows[i].user # Null /\ ~Busy(i)
                          => <<rows[i].user, i>> \in idx

(***************************************************************************)
(* An index entry that no handler is working on has its row: a stale one   *)
(* is "only reachable if a crash landed between the two writes" (the       *)
(* comment in list_from_index).                                            *)
(***************************************************************************)
EntriesHaveRows ==
    \A e \in idx : ~Busy(e[2]) => Owned(rows[e[2]], e[1])

(***************************************************************************)
(* Every GET is answered, of one todo or of the collection: readers take   *)
(* no lock that a writer can keep from them for ever.                      *)
(***************************************************************************)
ReadersFinish ==
    \A t \in Thread : (call[t].step \in GetSteps \cup ListSteps) ~> At(t, "idle")

(***************************************************************************)
(* The write lock is released again on every path through PUT and DELETE,  *)
(* once listings leave the tree lock to the writers: the engine's rwlock   *)
(* has the default attributes, so a stream of overlapping scans may keep   *)
(* db_insert waiting for ever.                                             *)
(***************************************************************************)
WritersFinish == <>[]TreeUnshared => (lock # Null ~> lock = Null)
=============================================================================
