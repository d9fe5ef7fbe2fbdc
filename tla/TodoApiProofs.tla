--------------------------- MODULE TodoApiProofs ----------------------------
(***************************************************************************)
(* Theorems about TodoApi, for every number of threads, users, ids and     *)
(* cache entries.                                                          *)
(***************************************************************************)
EXTENDS TodoApi, TLAPS

CacheProofs == INSTANCE LruCacheProofs
    WITH Key <- Id, Value <- Todo, NoValue <- Null, Capacity <- CacheCapacity

(***************************************************************************)
(* The theorems of LruCacheProofs, for the cache of TodoApi.               *)
(***************************************************************************)
LEMMA SameWellFormed == \A c : Cache!WellFormed(c) <=> CacheProofs!WellFormed(c)
BY DEF Cache!WellFormed, CacheProofs!WellFormed, Cache!Caches, CacheProofs!Caches,
       Cache!Distinct, CacheProofs!Distinct, Cache!Occurs, CacheProofs!Occurs,
       Cache!Holds, CacheProofs!Holds

\* The two instances of LruCache define the same Store.
LEMMA SameStore == \A c, k, v : Cache!Store(c, k, v) = CacheProofs!Store(c, k, v)
BY DEF Cache!Store, CacheProofs!Store, Cache!PushBack, CacheProofs!PushBack,
       Cache!Holds, CacheProofs!Holds, Cache!EvictLru, CacheProofs!EvictLru,
       Cache!Touch, CacheProofs!Touch, Cache!Drop, CacheProofs!Drop,
       Cache!Place, CacheProofs!Place, Cache!Without, CacheProofs!Without

\* The cache todo_api_init creates is well formed and holds nothing.
LEMMA CacheEmpty == Cache!WellFormed(Cache!Empty) /\ Cache!Empty.val = [i \in Id |-> Null]
<1>1. Cache!Empty = CacheProofs!Empty
  BY DEF Cache!Empty, CacheProofs!Empty
<1>2. CacheProofs!WellFormed(CacheProofs!Empty)
  BY CacheProofs!EmptyFacts, CacheCapacityAssumption, NullAssumption
<1> QED BY <1>1, <1>2, SameWellFormed DEF Cache!Empty

\* A cache that could not be created holds nothing and stays as it is.
LEMMA CacheOff ==
  ASSUME NEW c, Cache!WellFormed(c), ~Cache!CacheOn
  PROVE  \A k \in Id : c.val[k] = Null
<1>1. CacheProofs!WellFormed(c) /\ ~CacheProofs!CacheOn
  BY SameWellFormed DEF Cache!CacheOn, CacheProofs!CacheOn
<1> QED BY <1>1, CacheProofs!OffFacts, CacheCapacityAssumption, NullAssumption

\* A lookup keeps the cache well formed and changes no value.
LEMMA CacheGet ==
  ASSUME NEW c, Cache!WellFormed(c), NEW k \in Id
  PROVE  /\ Cache!WellFormed(Cache!Get(c, k))
         /\ Cache!Get(c, k).val = c.val
         /\ Cache!Get(c, k).generation = c.generation
<1>1. Cache!Get(c, k) = CacheProofs!Get(c, k)
  BY DEF Cache!Get, CacheProofs!Get, Cache!Found, CacheProofs!Found, Cache!CacheOn,
         CacheProofs!CacheOn, Cache!Touch, CacheProofs!Touch, Cache!Place,
         CacheProofs!Place, Cache!Without, CacheProofs!Without
<1> QED BY <1>1, SameWellFormed, CacheProofs!GetFacts, CacheCapacityAssumption, NullAssumption

\* What lru_put does to the cache of the handlers.
LEMMA CachePuts ==
  ASSUME NEW c, Cache!WellFormed(c), NEW k \in Id, NEW v \in Todo, Cache!CacheOn
  PROVE  /\ Cache!WellFormed(Cache!Put(c, k, v))
         /\ Cache!Put(c, k, v).val[k] = v
         /\ \A x \in Id \ {k} : Cache!Put(c, k, v).val[x] \in {c.val[x], Null}
         /\ Cache!Put(c, k, v).generation = c.generation + 1
<1>1. Cache!Put(c, k, v) = CacheProofs!Put(c, k, v) /\ CacheProofs!CacheOn
  BY SameStore DEF Cache!Put, CacheProofs!Put, Cache!CacheOn, CacheProofs!CacheOn,
                   Cache!Bump, CacheProofs!Bump
<1> QED BY <1>1, SameWellFormed, CacheProofs!PutFacts, CacheCapacityAssumption, NullAssumption

\* What lru_put does to it when it finds no memory.
LEMMA CachePutsWithoutMemory ==
  ASSUME NEW c, Cache!WellFormed(c)
  PROVE  Cache!WellFormed(Cache!PutWithoutMemory(c))
<1>1. Cache!PutWithoutMemory(c) = CacheProofs!PutWithoutMemory(c)
  BY DEF Cache!PutWithoutMemory, CacheProofs!PutWithoutMemory, Cache!CacheOn,
         CacheProofs!CacheOn, Cache!Bump, CacheProofs!Bump
<1> QED BY <1>1, SameWellFormed, CacheProofs!PutWithoutMemoryFacts, CacheCapacityAssumption,
           NullAssumption

(***************************************************************************)
(* What lru_fill does to it: nothing unless the generation is still the    *)
(* current one.                                                            *)
(***************************************************************************)
LEMMA CacheFills ==
  ASSUME NEW c, Cache!WellFormed(c), NEW k \in Id, NEW v \in Todo, NEW g \in Nat
  PROVE  /\ Cache!WellFormed(Cache!Fill(c, k, v, g))
         /\ Cache!Fill(c, k, v, g).generation = c.generation
         /\ \A x \in Id \ {k} : Cache!Fill(c, k, v, g).val[x] \in {c.val[x], Null}
         /\ Cache!Fill(c, k, v, g).val[k] =
               IF Cache!CacheOn /\ g = c.generation THEN v ELSE c.val[k]
<1>1. Cache!Fill(c, k, v, g) = CacheProofs!Fill(c, k, v, g)
      /\ Cache!CacheOn = CacheProofs!CacheOn
  BY SameStore DEF Cache!Fill, CacheProofs!Fill, Cache!CacheOn, CacheProofs!CacheOn
<1> QED BY <1>1, SameWellFormed, CacheProofs!FillFacts, CacheCapacityAssumption, NullAssumption

\* What lru_invalidate does to it.
LEMMA CacheInvalidates ==
  ASSUME NEW c, Cache!WellFormed(c), NEW k \in Id, Cache!CacheOn
  PROVE  /\ Cache!WellFormed(Cache!Invalidate(c, k))
         /\ Cache!Invalidate(c, k).val = [c.val EXCEPT ![k] = Null]
         /\ Cache!Invalidate(c, k).generation = c.generation + 1
<1>1. Cache!Invalidate(c, k) = CacheProofs!Invalidate(c, k) /\ CacheProofs!CacheOn
  BY DEF Cache!Invalidate, CacheProofs!Invalidate, Cache!CacheOn, CacheProofs!CacheOn,
         Cache!Bump, CacheProofs!Bump, Cache!Holds, CacheProofs!Holds, Cache!Drop,
         CacheProofs!Drop, Cache!Place, CacheProofs!Place,
         Cache!Without, CacheProofs!Without
<1> QED BY <1>1, SameWellFormed, CacheProofs!InvalidateFacts, CacheCapacityAssumption,
           NullAssumption

-----------------------------------------------------------------------------
(***************************************************************************)
(* Type correctness.  The type of a handler's locals depends on how far it *)
(* has come: an id and a user once it has a request, a row once it has     *)
(* read one.                                                               *)
(***************************************************************************)
RowSteps == {"get_fill", "update_delete", "update_insert", "update_restore",
             "update_drop", "update_cache", "delete_index", "delete_row", "delete_drop"}

LocalsFit(c) ==
    /\ c.step # "idle" => c.user \in User
    /\ c.step \in CreateSteps \cup UpdateSteps => c.data \in Data
    /\ c.step \in CreateSteps \cup GetSteps \cup WriterSteps => c.id \in Id
    /\ c.step \in RowSteps => c.row \in Todo

LocalsOK == \A t \in Thread : LocalsFit(call[t])

TypeInv == TypeOK /\ LocalsOK

\* A put of a todo keeps the cache well formed.
LEMMA CachePutType ==
  ASSUME TypeOK, NEW i \in Id, NEW todo \in Todo, CachePut(i, todo)
  PROVE  Cache!WellFormed(g_todo_cache')
<1>1. Cache!WellFormed(g_todo_cache)
  BY DEF TypeOK
<1>2. CASE Cache!CacheOn
  BY <1>1, <1>2, CachePuts, CachePutsWithoutMemory DEF CachePut
<1>3. CASE ~Cache!CacheOn
  <2>1. Cache!Put(g_todo_cache, i, todo) = g_todo_cache
    BY <1>3 DEF Cache!Put
  <2> QED BY <1>1, <2>1, CachePutsWithoutMemory DEF CachePut
<1> QED BY <1>2, <1>3

\* An invalidation keeps it well formed.
LEMMA InvalidateType ==
  ASSUME TypeOK, NEW i \in Id
  PROVE  Cache!WellFormed(Cache!Invalidate(g_todo_cache, i))
<1>1. Cache!WellFormed(g_todo_cache)
  BY DEF TypeOK
<1>2. CASE Cache!CacheOn
  BY <1>1, <1>2, CacheInvalidates, ZenonT(40)
<1>3. CASE ~Cache!CacheOn
  BY <1>1, <1>3 DEF Cache!Invalidate
<1> QED BY <1>2, <1>3

\* The row a POST or PUT writes is a todo.
LEMMA NewTodoType ==
  ASSUME TypeInv, NEW t \in Thread, call[t].step \in CreateSteps \cup UpdateSteps
  PROVE  NewTodo(t) \in Todo
BY DEF TypeInv, TypeOK, LocalsOK, LocalsFit, NewTodo, Todo, Calls, CreateSteps, UpdateSteps

(***************************************************************************)
(* The three ways a step changes the locals of its thread.                 *)
(***************************************************************************)
LEMMA AnswerType ==
  ASSUME TypeInv, NEW t \in Thread, Answer(t)
  PROVE  call' \in [Thread -> Calls] /\ LocalsOK'
<1>1. Idle \in Calls /\ LocalsFit(Idle)
  BY MaxIdAssumption DEF Idle, Calls, Steps, LocalsFit, CreateSteps, GetSteps, WriterSteps,
     UpdateSteps, DeleteSteps, RowSteps
<1> QED BY <1>1 DEF Answer, TypeInv, TypeOK, LocalsOK

\* Starting a request keeps the locals of the threads in their types.
LEMMA RequestType ==
  ASSUME TypeInv, NEW t \in Thread, NEW step \in Steps \ RowSteps, NEW u \in User,
         NEW i \in 0 .. MaxId, NEW d \in Data \cup {Null}, Request(t, step, u, i, d),
         step \in CreateSteps \cup UpdateSteps => d \in Data,
         step \in CreateSteps \cup GetSteps \cup WriterSteps => i \in Id
  PROVE  call' \in [Thread -> Calls] /\ LocalsOK'
<1> DEFINE c == [Idle EXCEPT !.step = step, !.user = u, !.id = i, !.data = d]
<1>1. c \in Calls /\ c.step = step /\ c.user = u /\ c.id = i /\ c.data = d
  BY ZenonT(40) DEF Idle, Calls
<1>2. c \in Calls /\ LocalsFit(c)
  BY <1>1 DEF LocalsFit
<1> HIDE DEF c
<1>3. call' = [call EXCEPT ![t] = c]
  BY DEF Request, c
<1> QED BY <1>2, <1>3 DEF TypeInv, TypeOK, LocalsOK

\* So does moving on to the next call of a handler.
LEMMA GotoType ==
  ASSUME TypeInv, NEW t \in Thread, NEW step \in Steps, Goto(t, step),
         LocalsFit([call[t] EXCEPT !.step = step])
  PROVE  call' \in [Thread -> Calls] /\ LocalsOK'
<1>1. call[t] \in Calls
  BY DEF TypeInv, TypeOK
<1>2. [call[t] EXCEPT !.step = step] \in Calls
  BY <1>1 DEF Calls
<1> QED BY <1>2 DEF Goto, TypeInv, TypeOK, LocalsOK

\* The types hold in the initial states.
LEMMA TypeInit == Init => TypeInv
<1> SUFFICES ASSUME Init PROVE TypeInv
  OBVIOUS
<1>1. idx \subseteq User \X Id
  BY DEF Init, OwnerPairs, Todo, Id
<1>2. Cache!WellFormed(g_todo_cache)
  BY CacheEmpty DEF Init
<1>3. call \in [Thread -> Calls] /\ LocalsOK
  BY MaxIdAssumption DEF Init, Calls, Idle, Steps, LocalsOK, LocalsFit, CreateSteps, GetSteps,
     WriterSteps, UpdateSteps, DeleteSteps, RowSteps
<1>4. listing \in [Thread -> Listings]
  BY MaxIdAssumption DEF Init, Listings, NoListing
<1> QED BY <1>1, <1>2, <1>3, <1>4 DEF TypeInv, TypeOK, Init

\* They hold after a handler kept the row it read among its locals.
LEMMA ReadRowType ==
  ASSUME TypeInv, NEW t \in Thread, NEW step \in Steps \cap RowSteps,
         call' = [call EXCEPT ![t].step = step, ![t].row = rows[call[t].id]],
         call[t].id \in Id, call[t].user \in User, rows[call[t].id] # Null,
         step \in CreateSteps \cup UpdateSteps => call[t].data \in Data
  PROVE  call' \in [Thread -> Calls] /\ LocalsOK'
<1> DEFINE c == [call[t] EXCEPT !.step = step, !.row = rows[call[t].id]]
<1>1. call[t] \in Calls /\ rows[call[t].id] \in Todo
  BY DEF TypeInv, TypeOK
<1>2. c \in Calls /\ c.step = step /\ c.user = call[t].user /\ c.id = call[t].id
      /\ c.row = rows[call[t].id] /\ c.data = call[t].data
  BY <1>1, ZenonT(40) DEF Calls
<1>3. LocalsFit(c)
  BY <1>1, <1>2 DEF LocalsFit
<1>4. call' = [call EXCEPT ![t] = c]
  BY ZenonT(60)
<1> HIDE DEF c
<1> QED BY <1>2, <1>3, <1>4, ZenonT(60) DEF TypeInv, TypeOK, LocalsOK

(***************************************************************************)
(* Moving on inside a handler keeps the locals the handler already has.    *)
(***************************************************************************)
LEMMA AdvanceType ==
  ASSUME TypeInv, NEW t \in Thread, NEW step \in Steps, Goto(t, step),
         \/ call[t].step \in CreateSteps /\ step \in CreateSteps
         \/ call[t].step \in RowSteps \cap UpdateSteps /\ step \in UpdateSteps
         \/ call[t].step \in RowSteps \cap DeleteSteps /\ step \in DeleteSteps
         \/ call[t].step \in ListSteps /\ step \in ListSteps
  PROVE  call' \in [Thread -> Calls] /\ LocalsOK'
<1>1. call[t] \in Calls /\ LocalsFit(call[t])
  BY DEF TypeInv, TypeOK, LocalsOK
<1>2. [call[t] EXCEPT !.step = step] \in Calls
      /\ [call[t] EXCEPT !.step = step] = [step |-> step, user |-> call[t].user,
              id |-> call[t].id, data |-> call[t].data, row |-> call[t].row,
              generation |-> call[t].generation]
  BY <1>1 DEF Calls
<1>3. LocalsFit([call[t] EXCEPT !.step = step])
  BY <1>1, <1>2 DEF LocalsFit, CreateSteps, GetSteps, WriterSteps, UpdateSteps, DeleteSteps,
     ListSteps, RowSteps
<1> QED BY <1>3, GotoType

\* Every step of a POST keeps the types.
LEMMA TypeCreate ==
  ASSUME TypeInv, NEW t \in Thread, CreateRequest(t) \/ Create(t)
  PROVE  TypeInv'
<1> USE DEF At, IdOf
<1>1. CASE CreateRequest(t)
  <2>1. CASE UNCHANGED call
    BY <1>1, <2>1, MaxIdAssumption DEF CreateRequest, LocalsOK, Id, TypeInv, TypeOK
  <2>2. ASSUME NEW u \in User, NEW d \in Data, Request(t, "create_row", u, g_next_todo_id, d)
        PROVE  call' \in [Thread -> Calls] /\ LocalsOK'
    <3>1. g_next_todo_id \in Id /\ g_next_todo_id \in 0 .. MaxId
      BY <1>1 DEF CreateRequest, Id
    <3>2. "create_row" \in Steps \ RowSteps
      BY DEF Steps, RowSteps, CreateSteps
    <3> QED BY <2>2, <3>1, <3>2, RequestType, SMTT(60)
  <2> QED BY <1>1, <2>1, <2>2, MaxIdAssumption DEF CreateRequest, Id, TypeInv, TypeOK
<1>2. ASSUME call[t].step \in CreateSteps
      PROVE  NewTodo(t) \in Todo /\ call[t].id \in Id /\ call[t].user \in User
  BY <1>2, NewTodoType DEF CreateSteps, TypeInv, LocalsOK, LocalsFit
<1>3. CASE CreateRow(t)
  <2>1. call' \in [Thread -> Calls] /\ LocalsOK'
    BY <1>3, AdvanceType, AnswerType, SMTT(60) DEF CreateRow, CreateSteps, Steps
  <2> QED BY <1>2, <1>3, <2>1, SMTT(60) DEF CreateRow, CreateSteps, InsertRow, InsertRowFails, TypeInv, TypeOK
<1>4. CASE CreateIndex(t)
  <2>1. call' \in [Thread -> Calls] /\ LocalsOK'
    BY <1>4, AdvanceType, SMTT(60) DEF CreateIndex, CreateSteps, Steps
  <2> QED BY <1>2, <1>4, <2>1, SMTT(60) DEF CreateIndex, CreateSteps, IndexInsert, IndexInsertFails,
             TypeInv, TypeOK
<1>5. CASE CreateUndo(t)
  BY <1>5, AnswerType, SMTT(60) DEF CreateUndo, DeleteRow, DeleteRowFails, TypeInv, TypeOK
<1>6. CASE CreateCache(t)
  <2>1. NewTodo(t) \in Todo /\ call[t].id \in Id
    BY <1>2, <1>6, SMTT(60) DEF CreateCache, CreateSteps
  <2>2. Cache!WellFormed(g_todo_cache')
    BY <1>6, <2>1, CachePutType DEF CreateCache, TypeInv
  <2> QED BY <1>6, <2>2, AnswerType, SMTT(60) DEF CreateCache, TypeInv, TypeOK
<1> QED BY <1>1, <1>3, <1>4, <1>5, <1>6 DEF Create

\* Every step of a GET of one todo keeps the types.
LEMMA TypeGet ==
  ASSUME TypeInv, NEW t \in Thread, GetRequest(t) \/ GetTodo(t)
  PROVE  TypeInv'
<1> USE DEF At, IdOf
<1>0. call[t] \in Calls /\ LocalsFit(call[t]) /\ Cache!WellFormed(g_todo_cache)
  BY DEF TypeInv, TypeOK, LocalsOK
<1>1. CASE GetRequest(t)
  <2> PICK u \in User, i \in Addressable :
          /\ g_todo_cache' = Cache!Get(g_todo_cache, i)
          /\ IF Cache!Found(g_todo_cache, i) = Null
             THEN Request(t, "get_generation", u, i, Null)
             ELSE UNCHANGED call
    BY <1>1 DEF GetRequest
  <2>1. i \in Id /\ i \in 0 .. MaxId
    BY DEF Addressable, Id
  <2>2. Cache!WellFormed(g_todo_cache')
    BY <1>0, <2>1, CacheGet
  <2>3. "get_generation" \in Steps \ RowSteps
    BY DEF Steps, RowSteps, GetSteps
  <2>4. "get_generation" \notin CreateSteps \cup UpdateSteps
    BY SMTT(60) DEF CreateSteps, UpdateSteps
  <2>5. call' \in [Thread -> Calls] /\ LocalsOK'
    BY <2>1, <2>3, <2>4, RequestType DEF TypeInv, TypeOK, LocalsOK
  <2> QED BY <1>1, <2>2, <2>5, SMTT(60) DEF GetRequest, TypeInv, TypeOK
<1>2. CASE GetGeneration(t)
  <2>1. g_todo_cache.generation \in Nat
    BY <1>0 DEF Cache!WellFormed, Cache!Caches
  <2>2. ASSUME call' = [call EXCEPT ![t].step = "get_row",
                                    ![t].generation = g_todo_cache.generation]
        PROVE  call' \in [Thread -> Calls] /\ LocalsOK'
    <3> DEFINE c == [call[t] EXCEPT !.step = "get_row", !.generation = g_todo_cache.generation]
    <3>1. c \in Calls /\ c.step = "get_row" /\ c.user = call[t].user /\ c.id = call[t].id
      BY <1>0, <2>1, ZenonT(40) DEF Calls, Steps, GetSteps
    <3>2. LocalsFit(c)
      BY <1>0, <1>2, <3>1 DEF GetGeneration, LocalsFit, GetSteps, CreateSteps, UpdateSteps, RowSteps
    <3>3. call' = [call EXCEPT ![t] = c]
      BY <2>2, ZenonT(40)
    <3> HIDE DEF c
    <3> QED BY <3>1, <3>2, <3>3 DEF TypeInv, TypeOK, LocalsOK
  <2> QED BY <1>2, <2>2, AnswerType DEF GetGeneration, TypeInv, TypeOK
<1>3. CASE GetRow(t)
  <2>1. ASSUME call' = [call EXCEPT ![t].step = "get_fill", ![t].row = rows[call[t].id]],
               rows[call[t].id] # Null
        PROVE  call' \in [Thread -> Calls] /\ LocalsOK'
    <3>1. call[t].id \in Id /\ call[t].user \in User
      BY <1>0, <1>3 DEF GetRow, LocalsFit, GetSteps
    <3>2. "get_fill" \in Steps \cap RowSteps /\ "get_fill" \notin CreateSteps \cup UpdateSteps
      BY DEF Steps, RowSteps, GetSteps, CreateSteps, UpdateSteps
    <3> QED BY <2>1, <3>1, <3>2, ReadRowType, ZenonT(40)
  <2> QED BY <1>3, <2>1, AnswerType DEF GetRow, TypeInv, TypeOK
<1>4. CASE GetFill(t)
  <2>1. call[t].id \in Id /\ call[t].row \in Todo /\ call[t].generation \in Nat
    BY <1>0, <1>4, SMTT(60) DEF GetFill, LocalsFit, GetSteps, RowSteps, Calls
  <2>2. Cache!WellFormed(g_todo_cache')
    BY <1>0, <1>4, <2>1, CacheFills DEF GetFill
  <2> QED BY <1>4, <2>2, AnswerType, SMTT(60) DEF GetFill, TypeInv, TypeOK
<1> QED BY <1>1, <1>2, <1>3, <1>4 DEF GetTodo

\* The ownership check that PUT and DELETE share keeps the types.
LEMMA TypeSearchOwned ==
  ASSUME TypeInv, NEW t \in Thread, call[t].step \in {"update_search", "delete_search"},
         NEW step \in Steps \cap RowSteps, SearchOwned(t, step),
         step \in CreateSteps \cup UpdateSteps => call[t].step = "update_search"
  PROVE  TypeInv'
<1> USE DEF IdOf
<1>1. /\ call[t].id \in Id
      /\ call[t].user \in User
      /\ call[t].step = "update_search" => call[t].data \in Data
  BY DEF TypeInv, LocalsOK, LocalsFit, WriterSteps, UpdateSteps, DeleteSteps
<1>2. call' \in [Thread -> Calls] /\ LocalsOK'
  BY <1>1, ReadRowType, AnswerType, SMTT(60) DEF SearchOwned, Owned, Unlock
<1> QED BY <1>2 DEF SearchOwned, Unlock, TypeInv, TypeOK

\* The invalidation that PUT and DELETE share keeps the types.
LEMMA TypeDropCached ==
  ASSUME TypeInv, NEW t \in Thread, call[t].step \in WriterSteps, DropCached(t)
  PROVE  TypeInv'
<1>1. call[t].id \in Id
  BY DEF TypeInv, LocalsOK, LocalsFit
<1>2. Cache!WellFormed(g_todo_cache')
  BY <1>1, InvalidateType DEF DropCached, IdOf, TypeInv
<1> QED BY <1>2, AnswerType, SMTT(60) DEF DropCached, Unlock, TypeInv, TypeOK

\* Every step of a PUT keeps the types.
LEMMA TypeUpdate ==
  ASSUME TypeInv, NEW t \in Thread, UpdateRequest(t) \/ Update(t)
  PROVE  TypeInv'
<1> USE DEF At, IdOf
<1>1. CASE UpdateRequest(t)
  <2> PICK u \in User, i \in Addressable, d \in Data : Request(t, "update_search", u, i, d)
    BY <1>1 DEF UpdateRequest
  <2>1. i \in Id /\ i \in 0 .. MaxId
    BY DEF Addressable, Id
  <2>2. "update_search" \in Steps \ RowSteps
    BY DEF Steps, RowSteps, WriterSteps, UpdateSteps
  <2>3. call' \in [Thread -> Calls] /\ LocalsOK'
    BY <2>1, <2>2, RequestType
  <2> QED BY <1>1, <2>3, SMTT(60) DEF UpdateRequest, TypeInv, TypeOK
<1>2. CASE UpdateSearch(t)
  BY <1>2, TypeSearchOwned DEF UpdateSearch, Steps, RowSteps, WriterSteps, UpdateSteps
<1>3. ASSUME call[t].step \in UpdateSteps
      PROVE  NewTodo(t) \in Todo /\ call[t].id \in Id
  BY <1>3, NewTodoType DEF WriterSteps, TypeInv, LocalsOK, LocalsFit
<1>4. CASE UpdateDelete(t)
  <2>1. call' \in [Thread -> Calls] /\ LocalsOK'
    BY <1>4, AdvanceType, AnswerType DEF UpdateDelete, Unlock, Steps, WriterSteps, UpdateSteps, RowSteps
  <2> QED BY <1>4, <2>1, SMTT(60) DEF UpdateDelete, DeleteRow, DeleteRowFails, Unlock, TypeInv, TypeOK
<1>5. CASE UpdateInsert(t)
  <2>1. call' \in [Thread -> Calls] /\ LocalsOK'
    BY <1>5, AdvanceType DEF UpdateInsert, Steps, WriterSteps, UpdateSteps, RowSteps
  <2> QED BY <1>3, <1>5, <2>1, SMTT(60) DEF UpdateInsert, UpdateSteps, InsertRow, InsertRowFails, TypeInv, TypeOK
<1>6. CASE UpdateRestore(t)
  <2>1. call' \in [Thread -> Calls] /\ LocalsOK'
    BY <1>6, AdvanceType, AnswerType, SMTT(60) DEF UpdateRestore, Unlock, Steps, WriterSteps, UpdateSteps, RowSteps
  <2>2. call[t].row \in Todo
    BY <1>6 DEF UpdateRestore, RowSteps, TypeInv, LocalsOK, LocalsFit
  <2> QED BY <1>6, <2>1, <2>2 DEF UpdateRestore, InsertRow, InsertRowFails, Unlock, TypeInv, TypeOK
<1>7. CASE UpdateDrop(t)
  BY <1>7, TypeDropCached DEF UpdateDrop, WriterSteps, UpdateSteps
<1>8. CASE UpdateCache(t)
  <2>1. Cache!WellFormed(g_todo_cache')
    BY <1>3, <1>8, CachePutType, SMTT(60) DEF UpdateCache, UpdateSteps, TypeInv
  <2> QED BY <1>8, <2>1, AnswerType DEF UpdateCache, Unlock, TypeInv, TypeOK
<1> QED BY <1>1, <1>2, <1>4, <1>5, <1>6, <1>7, <1>8, SMTT(60) DEF Update

\* Every step of a DELETE keeps the types.
LEMMA TypeDelete ==
  ASSUME TypeInv, NEW t \in Thread, DeleteRequest(t) \/ Delete(t)
  PROVE  TypeInv'
<1> USE DEF At, IdOf
<1>1. CASE DeleteRequest(t)
  <2> PICK u \in User, i \in Addressable : Request(t, "delete_search", u, i, Null)
    BY <1>1 DEF DeleteRequest
  <2>1. i \in Id /\ i \in 0 .. MaxId
    BY DEF Addressable, Id
  <2>2. "delete_search" \in Steps \ RowSteps /\ "delete_search" \notin CreateSteps \cup UpdateSteps
    BY DEF Steps, RowSteps, WriterSteps, DeleteSteps, CreateSteps, UpdateSteps
  <2>3. call' \in [Thread -> Calls] /\ LocalsOK'
    BY <2>1, <2>2, RequestType
  <2> QED BY <1>1, <2>3, SMTT(60) DEF DeleteRequest, TypeInv, TypeOK
<1>2. CASE DeleteSearch(t)
  BY <1>2, TypeSearchOwned DEF DeleteSearch, Steps, RowSteps, WriterSteps, DeleteSteps,
     CreateSteps, UpdateSteps
<1>3. CASE DeleteIndex(t)
  <2>1. call' \in [Thread -> Calls] /\ LocalsOK'
    BY <1>3, AdvanceType DEF DeleteIndex, Steps, WriterSteps, DeleteSteps, RowSteps
  <2> QED BY <1>3, <2>1 DEF DeleteIndex, IndexDelete, IndexDeleteFails, TypeInv, TypeOK
<1>4. CASE DeleteTodo(t)
  <2>1. call' \in [Thread -> Calls] /\ LocalsOK'
    BY <1>4, AdvanceType DEF DeleteTodo, Steps, WriterSteps, DeleteSteps, RowSteps
  <2> QED BY <1>4, <2>1 DEF DeleteTodo, DeleteRow, DeleteRowFails, TypeInv, TypeOK
<1>5. CASE DeleteDrop(t)
  BY <1>5, TypeDropCached DEF DeleteDrop, WriterSteps, DeleteSteps
<1> QED BY <1>1, <1>2, <1>3, <1>4, <1>5 DEF Delete

\* Every step of a listing keeps the types.
LEMMA TypeList ==
  ASSUME TypeInv, NEW t \in Thread, ListRequest(t) \/ ListTodos(t)
  PROVE  TypeInv'
<1> USE DEF At, IdOf
<1>0. listing[t] \in Listings
  BY DEF TypeInv, TypeOK
<1>1. CASE ListRequest(t)
  <2> PICK u \in User, step \in {"list_index", "list_all"} : Request(t, step, u, 0, Null)
    BY <1>1 DEF ListRequest
  <2>1. step \in Steps \ RowSteps
        /\ step \notin CreateSteps \cup UpdateSteps \cup GetSteps \cup WriterSteps
    BY DEF Steps, RowSteps, ListSteps, CreateSteps, UpdateSteps, GetSteps, WriterSteps, DeleteSteps
  <2>2. call' \in [Thread -> Calls] /\ LocalsOK'
    BY <2>1, RequestType, MaxIdAssumption, SMTT(60)
  <2> QED BY <1>1, <2>2, SMTT(60) DEF ListRequest, TypeInv, TypeOK
<1>2. ASSUME NEW i \in 0 .. MaxId, NEW ids \in SUBSET Id, NEW out \in SUBSET Id, Visit(t, i, ids, out)
      PROVE  listing' \in [Thread -> Listings]
  BY <1>2 DEF Visit, Listings, TypeInv, TypeOK
<1>3. ASSUME listing' = [listing EXCEPT ![t] = NoListing]
      PROVE  listing' \in [Thread -> Listings]
  BY <1>3, MaxIdAssumption DEF NoListing, Listings, TypeInv, TypeOK
<1>4. ASSUME NEW S \in SUBSET Id, NEW i \in LowestAfter(t, S)
      PROVE  i \in Id /\ i \in 0 .. MaxId
  BY <1>4, SMTT(60) DEF LowestAfter, Id
<1>5. CASE ListIndex(t)
  <2> DEFINE mine == {i \in Id : <<call[t].user, i>> \in idx}
  <2>1. call' \in [Thread -> Calls] /\ LocalsOK'
    BY <1>5, AdvanceType, AnswerType, ZenonT(40) DEF ListIndex, ScanFails, Steps, ListSteps, TypeInv, TypeOK, LocalsOK
  <2>2. listing' \in [Thread -> Listings]
    <3>0. mine \in SUBSET Id /\ listing[t].ids \in SUBSET Id
      BY <1>0 DEF Listings
    <3>1. CASE \E i \in LowestAfter(t, mine) : Visit(t, i, listing[t].ids \cup {i}, {})
      <4> HIDE DEF mine
      <4> PICK i \in LowestAfter(t, mine) : Visit(t, i, listing[t].ids \cup {i}, {})
        BY <3>1
      <4>1. i \in Id /\ i \in 0 .. MaxId
        BY <1>4, <3>0
      <4> QED BY <1>2, <3>0, <4>1, SMTT(60)
    <3>2. CASE Visit(t, 0, listing[t].ids, {})
      <4>1. 0 \in 0 .. MaxId /\ {} \in SUBSET Id
        BY MaxIdAssumption
      <4> QED BY <1>2, <3>0, <3>2, <4>1
    <3> QED BY <1>3, <1>5, <3>1, <3>2, ZenonT(60) DEF ListIndex, ScanFails
  <2> QED BY <1>5, <2>1, <2>2 DEF ListIndex, TypeInv, TypeOK
<1>6. ASSUME NEW i \in Id PROVE Emitted(t, i) \in SUBSET Id
  BY <1>0, <1>6 DEF Emitted, Listings
<1>7. CASE ListRows(t)
  <2>1. call' \in [Thread -> Calls] /\ LocalsOK'
    BY <1>7, AdvanceType DEF ListRows, Steps, ListSteps, TypeInv, TypeOK, LocalsOK
  <2>2. listing' \in [Thread -> Listings]
    <3>1. CASE \E i \in LowestAfter(t, listing[t].ids) :
                  \/ Visit(t, i, listing[t].ids, Emitted(t, i))
                  \/ Visit(t, i, listing[t].ids, listing[t].out)
      BY <1>0, <1>2, <1>4, <1>6, <3>1, ZenonT(40) DEF Listings
    <3> QED BY <1>7, <3>1 DEF ListRows, TypeInv, TypeOK
  <2> QED BY <1>7, <2>1, <2>2 DEF ListRows, TypeInv, TypeOK
<1>8. CASE ListAll(t)
  <2>1. call' \in [Thread -> Calls] /\ LocalsOK'
    BY <1>8, AdvanceType, AnswerType, ZenonT(40) DEF ListAll, ScanFails, Steps, ListSteps, TypeInv, TypeOK, LocalsOK
  <2>2. listing' \in [Thread -> Listings]
    <3>1. CASE \E i \in LowestAfter(t, {j \in Id : rows[j] # Null}) : Visit(t, i, {}, Emitted(t, i))
      BY <1>0, <1>2, <1>4, <1>6, <3>1
    <3> QED BY <1>3, <1>8, <3>1 DEF ListAll, ScanFails, TypeInv, TypeOK
  <2> QED BY <1>8, <2>1, <2>2 DEF ListAll, TypeInv, TypeOK
<1>9. CASE ListAnswer(t)
  BY <1>3, <1>9, AnswerType DEF ListAnswer, TypeInv, TypeOK
<1> QED BY <1>1, <1>5, <1>7, <1>8, <1>9 DEF ListTodos

\* The types hold when nothing changes.
LEMMA TypeStutter == TypeInv /\ UNCHANGED vars => TypeInv'
BY DEF TypeInv, TypeOK, LocalsOK, vars

(***************************************************************************)
(* Every variable of TodoApi keeps its type; the cache keeps its table and *)
(* its recency list in step and never exceeds its capacity.                *)
(***************************************************************************)
THEOREM TypeCorrect == Spec => []TypeOK
<1>1. TypeInv /\ [Next]_vars => TypeInv'
  BY TypeCreate, TypeGet, TypeUpdate, TypeDelete, TypeList, TypeStutter DEF Next, Accept, Step
<1>2. TypeInv => TypeOK
  BY DEF TypeInv
<1> QED BY TypeInit, <1>1, <1>2, PTL DEF Spec
=============================================================================
