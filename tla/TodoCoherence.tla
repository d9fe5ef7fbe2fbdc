--------------------------- MODULE TodoCoherence ----------------------------
(***************************************************************************)
(* The read cache never serves a value that is not stored, for every       *)
(* number of threads, users, ids and cache entries: the proof that         *)
(* CacheCoherent is an invariant of TodoApi when clients name only ids     *)
(* whose POST has been answered and every lru_put finds memory.            *)
(***************************************************************************)
EXTENDS TodoApiProofs

(***************************************************************************)
(* The inductive invariant.  TodoSteps are the steps that work on one id.  *)
(***************************************************************************)
TodoSteps == CreateSteps \cup GetSteps \cup WriterSteps

(***************************************************************************)
(* An id not handed out yet has neither a row nor a cached value, and      *)
(* nobody else works on the id of a POST.                                  *)
(***************************************************************************)
UnusedIds ==
    \A i \in Id : i >= g_next_todo_id => rows[i] = Null /\ g_todo_cache.val[i] = Null

CreatesApart ==
    \A s, t \in Thread : s # t /\ call[s].step \in CreateSteps /\ call[t].step \in TodoSteps
                            => call[s].id # call[t].id

(***************************************************************************)
(* What storage and cache hold for the id of each POST, PUT and DELETE,    *)
(* the latter two under the write lock.                                    *)
(***************************************************************************)
CreateStored(t) ==
    call[t].step \in CreateSteps =>
        /\ g_todo_cache.val[call[t].id] = Null
        /\ rows[call[t].id] = IF call[t].step = "create_row" THEN Null ELSE NewTodo(t)

WriterStored(t) ==
    /\ call[t].step \in WriterSteps => lock = t
    /\ call[t].step \in {"update_delete", "delete_index", "delete_row"}
          => rows[call[t].id] = call[t].row
    /\ call[t].step \in {"update_insert", "update_restore", "update_drop"}
          => rows[call[t].id] = Null
    /\ call[t].step = "update_cache" => rows[call[t].id] = NewTodo(t)

(***************************************************************************)
(* A GET about to fill with the current generation has read the stored     *)
(* value, or one that a PUT or DELETE is replacing right now.              *)
(***************************************************************************)
Current(id, v) == v = rows[id] \/ Superseded(id, v)

FillFresh(t) ==
    /\ call[t].generation <= g_todo_cache.generation
    /\ Cache!CacheOn /\ call[t].step = "get_fill" /\ call[t].generation = g_todo_cache.generation
          => Current(call[t].id, call[t].row)

ThreadInv(t) ==
    /\ call[t].step \in TodoSteps => call[t].id < g_next_todo_id
    /\ CreateStored(t) /\ WriterStored(t) /\ FillFresh(t)

CoherenceInv ==
    /\ UnusedIds /\ CreatesApart /\ CacheCoherent
    /\ \A t \in Thread : ThreadInv(t)

-----------------------------------------------------------------------------
(***************************************************************************)
(* What the steps of a handler do to its locals, field by field.           *)
(***************************************************************************)
OthersKept(t) == \A s \in Thread \ {t} : call'[s] = call[s]

\* The locals after a thread moves on within its handler.
LEMMA GotoFacts ==
  ASSUME TypeInv, NEW t \in Thread, NEW step \in Steps, Goto(t, step)
  PROVE  /\ OthersKept(t)
         /\ call'[t].step = step /\ call'[t].user = call[t].user
         /\ call'[t].id = call[t].id /\ call'[t].data = call[t].data
         /\ call'[t].row = call[t].row /\ call'[t].generation = call[t].generation
<1>1. call[t] \in Calls
  BY DEF TypeInv, TypeOK
<1> QED BY <1>1 DEF Goto, TypeInv, TypeOK, Calls, OthersKept

\* The locals after a thread answers.
LEMMA AnswerFacts ==
  ASSUME TypeInv, NEW t \in Thread, Answer(t)
  PROVE  OthersKept(t) /\ call'[t].step = "idle" /\ call'[t].generation = 0
BY DEF Answer, Idle, TypeInv, TypeOK, OthersKept

\* The locals after a thread starts a request.
LEMMA RequestFacts ==
  ASSUME TypeInv, NEW t \in Thread, NEW step \in Steps, NEW u \in User, NEW i \in 0 .. MaxId,
         NEW d \in Data \cup {Null}, Request(t, step, u, i, d)
  PROVE  /\ OthersKept(t)
         /\ call'[t].step = step /\ call'[t].user = u /\ call'[t].id = i
         /\ call'[t].data = d /\ call'[t].generation = 0
<1> DEFINE c == [Idle EXCEPT !.step = step, !.user = u, !.id = i, !.data = d]
<1>1. c.step = step /\ c.user = u /\ c.id = i /\ c.data = d /\ c.generation = 0
  BY DEF Idle
<1> HIDE DEF c
<1>2. call' = [call EXCEPT ![t] = c]
  BY DEF Request, c
<1> QED BY <1>1, <1>2 DEF TypeInv, TypeOK, OthersKept

\* The locals after a GET has read the generation or the row.
LEMMA ReadFacts ==
  ASSUME TypeInv, NEW t \in Thread, NEW step \in Steps,
         call' = [call EXCEPT ![t].step = step, ![t].row = rows[call[t].id]]
  PROVE  /\ OthersKept(t)
         /\ call'[t].step = step /\ call'[t].user = call[t].user
         /\ call'[t].id = call[t].id /\ call'[t].data = call[t].data
         /\ call'[t].row = rows[call[t].id] /\ call'[t].generation = call[t].generation
<1>1. call[t] \in Calls
  BY DEF TypeInv, TypeOK
<1> QED BY <1>1 DEF TypeInv, TypeOK, Calls, OthersKept

\* A thread working on a todo names an id.
LEMMA TodoIds ==
  ASSUME TypeInv, NEW t \in Thread, call[t].step \in TodoSteps
  PROVE  call[t].id \in Id
BY DEF TypeInv, LocalsOK, LocalsFit, TodoSteps

\* The types of the state, as the proofs below use them.
LEMMA StateTypes ==
  ASSUME TypeInv
  PROVE  /\ rows \in [Id -> Todo \cup {Null}]
         /\ g_todo_cache.val \in [Id -> Todo \cup {Null}]
         /\ g_todo_cache.generation \in Nat
         /\ g_next_todo_id \in Nat
         /\ \A s \in Thread : call[s].generation \in Nat
BY MaxIdAssumption DEF TypeInv, TypeOK, Cache!WellFormed, Cache!Caches, Calls

(***************************************************************************)
(* A value being replaced stays one while its writer has not answered.     *)
(***************************************************************************)
LEMMA SupersededKept ==
  ASSUME NEW t \in Thread, OthersKept(t), NEW i, NEW v, Superseded(i, v),
         \/ i # call[t].id
         \/ call[t].step \notin Superseding
         \/ call'[t].step \in Superseding /\ call'[t].id = call[t].id /\ call'[t].row = call[t].row
  PROVE  Superseded(i, v)'
BY DEF OthersKept, Superseded, IdOf

(***************************************************************************)
(* A step that changes neither a row nor a cached value nor the generation *)
(* keeps the invariant if its own thread does.                             *)
(***************************************************************************)
Quiet == rows' = rows /\ g_todo_cache'.val = g_todo_cache.val
         /\ g_todo_cache'.generation = g_todo_cache.generation

(***************************************************************************)
(* A step that touches neither rows nor cache keeps the invariant if the   *)
(* thread that took it does.                                               *)
(***************************************************************************)
LEMMA QuietStep ==
  ASSUME TypeInv, CoherenceInv, NEW t \in Thread, OthersKept(t), Quiet,
         TypeInv', g_next_todo_id' >= g_next_todo_id, lock' = lock \/ lock \in {Null, t},
         call[t].step \in Superseding =>
            call'[t].step \in Superseding /\ call'[t].id = call[t].id /\ call'[t].row = call[t].row,
         ThreadInv(t)', CreatesApart'
  PROVE  CoherenceInv'
<1>1. ASSUME NEW i, NEW v, Superseded(i, v) PROVE Superseded(i, v)'
  BY <1>1, SupersededKept
<1>2. CacheCoherent'
  BY <1>1 DEF CoherenceInv, CacheCoherent, Quiet
<1>3. UnusedIds'
  BY StateTypes, TypeInv' DEF CoherenceInv, UnusedIds, Quiet, Id, TypeInv, TypeOK
<1>4. ASSUME NEW s \in Thread, s # t PROVE ThreadInv(s)'
  <2>1. call'[s] = call[s] /\ ThreadInv(s) /\ NewTodo(s)' = NewTodo(s)
    BY <1>4 DEF OthersKept, CoherenceInv, NewTodo
  <2>2. call[s].step \in WriterSteps => lock' = s
    BY <1>4, <2>1, NullAssumption DEF ThreadInv, WriterStored
  <2>3. CreateStored(s)' /\ WriterStored(s)'
    BY <2>1, <2>2 DEF ThreadInv, CreateStored, WriterStored, Quiet
  <2>4. FillFresh(s)'
    BY <1>1, <2>1 DEF ThreadInv, FillFresh, Current, Quiet
  <2>5. call[s].step \in TodoSteps => call[s].id < g_next_todo_id'
    BY <2>1, TodoIds, StateTypes, TypeInv' DEF ThreadInv, Id, TypeInv, TypeOK
  <2> QED BY <2>1, <2>3, <2>4, <2>5 DEF ThreadInv
<1> QED BY <1>2, <1>3, <1>4 DEF CoherenceInv

(***************************************************************************)
(* Who else may be working on the id of a POST, PUT or DELETE: only GETs,  *)
(* and those only if it is not a POST.                                     *)
(***************************************************************************)
LEMMA AloneOnId ==
  ASSUME TypeInv, CoherenceInv, NEW t \in Thread, call[t].step \in CreateSteps \cup WriterSteps,
         NEW s \in Thread, s # t
  PROVE  /\ call[s].step \in CreateSteps => call[s].id \in Id \ {call[t].id}
         /\ call[s].step \in WriterSteps => /\ call[t].step \in CreateSteps
                                            /\ call[s].id \in Id \ {call[t].id}
         /\ call[s].step \in GetSteps /\ call[t].step \in CreateSteps
               => call[s].id \in Id \ {call[t].id}
<1>1. call[s].step \in TodoSteps => call[s].id \in Id
  BY TodoIds
<1>2. call[s].step \in WriterSteps => call[t].step \in CreateSteps
  BY DEF CoherenceInv, ThreadInv, WriterStored
<1> QED BY <1>1, <1>2 DEF CoherenceInv, CreatesApart, TodoSteps

(***************************************************************************)
(* A value that another thread is replacing is still being replaced after  *)
(* a step of this one.                                                     *)
(***************************************************************************)
LEMMA OthersSupersede ==
  ASSUME NEW t \in Thread, OthersKept(t), NEW i, i # call[t].id, NEW v, Superseded(i, v)
  PROVE  Superseded(i, v)'
BY SupersededKept

(***************************************************************************)
(* A step that writes the row of its own id keeps the invariant if its own *)
(* thread does and no GET is left with a value that is no longer current.  *)
(***************************************************************************)
LEMMA RowStep ==
  ASSUME TypeInv, CoherenceInv, NEW t \in Thread, OthersKept(t), TypeInv',
         call[t].step \in CreateSteps \cup WriterSteps,
         NEW id \in Id, id = call[t].id, NEW w, rows' = [rows EXCEPT ![id] = w],
         UNCHANGED <<g_todo_cache, g_next_todo_id>>, lock' = lock \/ lock \in {Null, t},
         call[t].step \in WriterSteps =>
            \A v \in Todo : Current(id, v) => Current(id, v)',
         ThreadInv(t)', CreatesApart'
  PROVE  CoherenceInv'
<1>1. id < g_next_todo_id
  BY TodoIds DEF CoherenceInv, ThreadInv, TodoSteps
<1>2. \A i \in Id \ {id} : rows'[i] = rows[i]
  BY <1>1, StateTypes
<1>3. ASSUME NEW i \in Id, NEW v \in Todo, Current(i, v), i # id \/ call[t].step \in WriterSteps
      PROVE  Current(i, v)'
  <2>1. CASE i = id
    BY <1>3, <2>1
  <2>2. CASE i # id
    BY <1>2, <1>3, <2>2, OthersSupersede DEF Current
  <2> QED BY <2>1, <2>2
<1>4. CacheCoherent'
  <2> SUFFICES ASSUME NEW i \in Id, g_todo_cache.val[i] # Null
               PROVE  Current(i, g_todo_cache.val[i])'
    BY DEF CacheCoherent, Current
  <2>1. g_todo_cache.val[i] \in Todo /\ Current(i, g_todo_cache.val[i])
    BY StateTypes DEF CoherenceInv, CacheCoherent, Current
  <2>2. i = id => call[t].step \in WriterSteps
    BY DEF CoherenceInv, ThreadInv, CreateStored
  <2> QED BY <1>3, <2>1, <2>2
<1>5. UnusedIds'
  BY <1>1, <1>2, StateTypes DEF CoherenceInv, UnusedIds, Id
<1>6. ASSUME NEW s \in Thread, s # t PROVE ThreadInv(s)'
  <2>1. call'[s] = call[s] /\ ThreadInv(s) /\ NewTodo(s)' = NewTodo(s)
    BY <1>6 DEF OthersKept, CoherenceInv, NewTodo
  <2>2. call[s].step \in WriterSteps => lock' = s
    BY <1>6, <2>1, NullAssumption DEF ThreadInv, WriterStored
  <2>3. call[s].step \in CreateSteps \cup WriterSteps => rows'[call[s].id] = rows[call[s].id]
    BY <1>2, <1>6, AloneOnId
  <2>4. CreateStored(s)' /\ WriterStored(s)'
    BY <2>1, <2>2, <2>3, ZenonT(60) DEF ThreadInv, CreateStored, WriterStored, WriterSteps, UpdateSteps, DeleteSteps
  <2>5. call[s].step = "get_fill" => call[s].id \in Id /\ call[s].row \in Todo
           /\ (call[s].id # id \/ call[t].step \in WriterSteps)
    BY <1>6, TodoIds, AloneOnId DEF TodoSteps, GetSteps, TypeInv, LocalsOK, LocalsFit, RowSteps
  <2>6. FillFresh(s)'
    BY <1>3, <2>1, <2>5 DEF ThreadInv, FillFresh
  <2> QED BY <2>1, <2>4, <2>6 DEF ThreadInv
<1> QED BY <1>4, <1>5, <1>6 DEF CoherenceInv

(***************************************************************************)
(* The step that ends a POST, PUT or DELETE by writing the cache leaves    *)
(* the stored value there or none, and outdates every fill in progress.    *)
(***************************************************************************)
LEMMA CacheStep ==
  ASSUME TypeInv, CoherenceInv, NEW t \in Thread, OthersKept(t), TypeInv',
         call[t].step \in CreateSteps \cup WriterSteps, call'[t].step = "idle",
         call'[t].generation = 0,
         UNCHANGED <<rows, g_next_todo_id>>, lock' = lock \/ lock \in {Null, t},
         g_todo_cache'.val[call[t].id] \in {Null, rows[call[t].id]},
         \A i \in Id \ {call[t].id} : g_todo_cache'.val[i] \in {Null, g_todo_cache.val[i]},
         g_todo_cache'.generation >= g_todo_cache.generation,
         Cache!CacheOn => g_todo_cache'.generation > g_todo_cache.generation
  PROVE  CoherenceInv'
<1> DEFINE id == call[t].id
<1>1. id \in Id /\ id < g_next_todo_id
  BY TodoIds DEF CoherenceInv, ThreadInv, TodoSteps
<1> HIDE DEF id
<1>2. CacheCoherent'
  BY OthersSupersede DEF CoherenceInv, CacheCoherent, id
<1>3. UnusedIds'
  BY <1>1, StateTypes DEF CoherenceInv, UnusedIds, Id, id
<1>4. CreatesApart'
  BY DEF CoherenceInv, CreatesApart, OthersKept, TodoSteps, CreateSteps, GetSteps, WriterSteps,
     UpdateSteps, DeleteSteps
<1>5. ASSUME NEW s \in Thread, s # t PROVE ThreadInv(s)'
  <2>1. call'[s] = call[s] /\ ThreadInv(s) /\ NewTodo(s)' = NewTodo(s)
    BY <1>5 DEF OthersKept, CoherenceInv, NewTodo
  <2>2. call[s].step \in WriterSteps => lock' = s
    BY <1>5, <2>1, NullAssumption DEF ThreadInv, WriterStored
  <2>3. call[s].step \in CreateSteps => g_todo_cache'.val[call[s].id] \in {Null, g_todo_cache.val[call[s].id]}
    BY <1>5, AloneOnId
  <2>4. CreateStored(s)' /\ WriterStored(s)'
    BY <2>1, <2>2, <2>3 DEF ThreadInv, CreateStored, WriterStored
  <2>5. FillFresh(s)'
    <3>1. g_todo_cache'.generation \in Nat
      BY TypeInv' DEF TypeInv, TypeOK, Cache!WellFormed, Cache!Caches
    <3> QED BY <2>1, <3>1, StateTypes DEF ThreadInv, FillFresh
  <2> QED BY <2>1, <2>4, <2>5 DEF ThreadInv
<1>6. ThreadInv(t)'
  <2>1. g_todo_cache'.generation \in Nat
    BY TypeInv' DEF TypeInv, TypeOK, Cache!WellFormed, Cache!Caches
  <2> QED BY <2>1 DEF ThreadInv, CreateStored, WriterStored, FillFresh, TodoSteps, CreateSteps, GetSteps,
     WriterSteps, UpdateSteps, DeleteSteps
<1> QED BY <1>2, <1>3, <1>4, <1>5, <1>6 DEF CoherenceInv

(***************************************************************************)
(* What lru_put and lru_invalidate do, whether there is a cache or not.    *)
(***************************************************************************)
LEMMA CachePutEffect ==
  ASSUME TypeInv, NEW i \in Id, NEW v \in Todo, g_todo_cache' = Cache!Put(g_todo_cache, i, v)
  PROVE  /\ g_todo_cache'.val[i] \in {Null, v}
         /\ \A j \in Id \ {i} : g_todo_cache'.val[j] \in {Null, g_todo_cache.val[j]}
         /\ g_todo_cache'.generation >= g_todo_cache.generation
         /\ Cache!CacheOn => g_todo_cache'.generation > g_todo_cache.generation
<1>1. Cache!WellFormed(g_todo_cache) /\ g_todo_cache.generation \in Nat
  BY StateTypes DEF TypeInv, TypeOK
<1>2. CASE Cache!CacheOn
  BY <1>1, <1>2, CachePuts
<1>3. CASE ~Cache!CacheOn
  BY <1>1, <1>3, CacheOff DEF Cache!Put
<1> QED BY <1>2, <1>3

\* What an invalidation leaves in the cache.
LEMMA InvalidateEffect ==
  ASSUME TypeInv, NEW i \in Id, g_todo_cache' = Cache!Invalidate(g_todo_cache, i)
  PROVE  /\ g_todo_cache'.val[i] = Null
         /\ \A j \in Id \ {i} : g_todo_cache'.val[j] \in {Null, g_todo_cache.val[j]}
         /\ g_todo_cache'.generation >= g_todo_cache.generation
         /\ Cache!CacheOn => g_todo_cache'.generation > g_todo_cache.generation
<1>1. Cache!WellFormed(g_todo_cache) /\ g_todo_cache.generation \in Nat
      /\ g_todo_cache.val \in [Id -> Todo \cup {Null}]
  BY StateTypes DEF TypeInv, TypeOK
<1>2. CASE Cache!CacheOn
  <2>1. g_todo_cache'.val = [g_todo_cache.val EXCEPT ![i] = Null]
        /\ g_todo_cache'.generation = g_todo_cache.generation + 1
    BY <1>1, <1>2, CacheInvalidates
  <2> QED BY <1>1, <2>1
<1>3. CASE ~Cache!CacheOn
  BY <1>1, <1>3, CacheOff DEF Cache!Invalidate
<1> QED BY <1>2, <1>3

(***************************************************************************)
(* A step of a thread that stays on its id, or leaves it, keeps POSTs      *)
(* apart.                                                                  *)
(***************************************************************************)
LEMMA ApartKept ==
  ASSUME CoherenceInv, NEW t \in Thread, OthersKept(t),
         call'[t].step \in TodoSteps =>
            /\ call[t].step \in TodoSteps /\ call'[t].id = call[t].id
            /\ call'[t].step \in CreateSteps => call[t].step \in CreateSteps
  PROVE  CreatesApart'
BY DEF CoherenceInv, CreatesApart, OthersKept, TodoSteps

(***************************************************************************)
(* A quiet step after which its thread works on no todo: an answer, or a   *)
(* step of a listing.                                                      *)
(***************************************************************************)
LEMMA OutsideStep ==
  ASSUME TypeInv, CoherenceInv, NEW t \in Thread, OthersKept(t), Quiet, TypeInv',
         g_next_todo_id' >= g_next_todo_id, lock' = lock \/ lock \in {Null, t},
         call[t].step \notin Superseding, call'[t].step \notin TodoSteps,
         call'[t].generation \in {0, call[t].generation}
  PROVE  CoherenceInv'
<1>1. ThreadInv(t)'
  <2>1. call'[t].generation <= g_todo_cache'.generation
    BY StateTypes DEF CoherenceInv, ThreadInv, FillFresh, Quiet
  <2> QED BY <2>1 DEF ThreadInv, CreateStored, WriterStored, FillFresh, TodoSteps, GetSteps,
             WriterSteps, UpdateSteps, DeleteSteps
<1>2. CreatesApart'
  BY ApartKept
<1> QED BY <1>1, <1>2, QuietStep

\* Idle threads and listings work on no single id.
LEMMA IdleSteps == "idle" \notin TodoSteps /\ ListSteps \cap TodoSteps = {}
                   /\ Superseding \subseteq WriterSteps
BY DEF TodoSteps, CreateSteps, GetSteps, WriterSteps, UpdateSteps, DeleteSteps, ListSteps, Superseding

\* Only a PUT or a DELETE replaces a value.
LEMMA SupersedingSteps ==
  ASSUME NEW step, step \in CreateSteps \cup GetSteps \cup ListSteps \cup {"idle"}
  PROVE  step \notin Superseding
BY DEF CreateSteps, GetSteps, ListSteps, Superseding

\* A handler that answers and has changed neither rows nor cache.
LEMMA AnswerStep ==
  ASSUME TypeInv, CoherenceInv, NEW t \in Thread, TypeInv', Quiet, Answer(t),
         UNCHANGED g_next_todo_id, lock' = lock \/ lock \in {Null, t},
         call[t].step \notin Superseding
  PROVE  CoherenceInv'
<1>1. OthersKept(t) /\ call'[t].step = "idle" /\ call'[t].generation \in {0, call[t].generation}
  BY AnswerFacts
<1>2. call'[t].step \notin TodoSteps
  BY <1>1, IdleSteps
<1>3. g_next_todo_id' >= g_next_todo_id
  BY StateTypes
<1> QED BY <1>1, <1>2, <1>3, OutsideStep

\* A request that is answered at once, or a listing that goes on.
LEMMA SameStep ==
  ASSUME TypeInv, CoherenceInv, NEW t \in Thread, TypeInv', Quiet, UNCHANGED call,
         g_next_todo_id' \in {g_next_todo_id, g_next_todo_id + 1}, UNCHANGED lock,
         call[t].step \in ListSteps \cup {"idle"}
  PROVE  CoherenceInv'
<1>1. OthersKept(t) /\ call'[t].generation \in {0, call[t].generation}
  BY DEF OthersKept
<1>2. call'[t].step \notin TodoSteps
  BY IdleSteps
<1>3. g_next_todo_id' >= g_next_todo_id
  BY StateTypes
<1>4. call[t].step \notin Superseding
  BY SupersedingSteps
<1> QED BY <1>1, <1>2, <1>3, <1>4, OutsideStep

-----------------------------------------------------------------------------
(***************************************************************************)
(* One lemma for each request.                                             *)
(***************************************************************************)
LEMMA CoherenceCreate ==
  ASSUME TypeInv, CoherenceInv, "malloc" \notin Faults, NEW t \in Thread,
         CreateRequest(t) \/ Create(t)
  PROVE  CoherenceInv'
<1> USE DEF At, IdOf
<1> DEFINE id == call[t].id
<1>0. TypeInv'
  BY TypeCreate
<1>1. CASE CreateRequest(t)
  <2>1. CASE UNCHANGED call
    <3>1. Quiet /\ call[t].step = "idle" /\ UNCHANGED lock
          /\ g_next_todo_id' \in {g_next_todo_id, g_next_todo_id + 1}
      BY <1>1 DEF CreateRequest, Quiet
    <3> QED BY <1>0, <2>1, <3>1, SameStep
  <2>2. ASSUME NEW u \in User, NEW d \in Data, Request(t, "create_row", u, g_next_todo_id, d)
        PROVE  CoherenceInv'
    <3>1. g_next_todo_id \in Id /\ g_next_todo_id \in 0 .. MaxId
      BY <1>1 DEF CreateRequest, Id
    <3>2. /\ OthersKept(t) /\ call'[t].step = "create_row" /\ call'[t].id = g_next_todo_id
          /\ call'[t].generation = 0
      BY <2>2, <3>1, RequestFacts DEF Steps, CreateSteps
    <3>3. Quiet /\ g_next_todo_id' = g_next_todo_id + 1 /\ lock' = lock
      BY <1>1 DEF CreateRequest, Quiet
    <3>4. ThreadInv(t)'
      BY <3>1, <3>2, <3>3, StateTypes DEF ThreadInv, CreateStored, WriterStored, FillFresh,
         CoherenceInv, UnusedIds, Quiet, WriterSteps, UpdateSteps, DeleteSteps, Id
    <3>5. CreatesApart'
      <4>1. \A s \in Thread : call[s].step \in TodoSteps => call[s].id \in Id /\ call[s].id < g_next_todo_id
        BY TodoIds DEF CoherenceInv, ThreadInv
      <4> QED BY <3>2, <4>1, StateTypes DEF CoherenceInv, CreatesApart, OthersKept, TodoSteps, Id
    <3> QED BY <1>0, <1>1, <3>2, <3>3, <3>4, <3>5, QuietStep, StateTypes
            DEF CreateRequest, Superseding
  <2> QED BY <1>1, <2>1, <2>2 DEF CreateRequest
<1>2. ASSUME call[t].step \in CreateSteps
      PROVE  /\ id \in Id /\ id < g_next_todo_id /\ g_todo_cache.val[id] = Null
             /\ call[t].generation <= g_todo_cache.generation /\ NewTodo(t) \in Todo
             /\ rows[id] = IF call[t].step = "create_row" THEN Null ELSE NewTodo(t)
             /\ call[t].step \in TodoSteps /\ call[t].step \notin WriterSteps
  BY <1>2, TodoIds, NewTodoType DEF CoherenceInv, ThreadInv, CreateStored, FillFresh, TodoSteps, CreateSteps,
     WriterSteps, UpdateSteps, DeleteSteps
<1>3. CASE CreateRow(t)
  <2>0. call[t].step \in CreateSteps
    BY <1>3 DEF CreateRow, CreateSteps
  <2>1. CASE InsertRowFails(id, "insert") /\ Answer(t)
    <3>1. Quiet /\ UNCHANGED <<g_next_todo_id, lock>>
      BY <1>3, <2>1 DEF CreateRow, InsertRowFails, Quiet
    <3> QED BY <1>0, <2>0, <2>1, <3>1, AnswerStep, SupersedingSteps
  <2>2. ASSUME InsertRow(id, NewTodo(t)), NEW step \in {"create_index", "create_cache"}, Goto(t, step)
        PROVE  CoherenceInv'
    <3>1. /\ OthersKept(t) /\ call'[t].step = step /\ call'[t].id = id
          /\ call'[t].generation = call[t].generation /\ NewTodo(t)' = NewTodo(t)
      BY <2>2, GotoFacts DEF Steps, CreateSteps, NewTodo
    <3>2. rows' = [rows EXCEPT ![id] = NewTodo(t)] /\ UNCHANGED <<g_todo_cache, g_next_todo_id, lock>>
      BY <1>3, <2>2 DEF CreateRow, InsertRow
    <3>3. ThreadInv(t)'
      BY <1>2, <2>0, <2>2, <3>1, <3>2, StateTypes DEF ThreadInv, CreateStored, WriterStored, FillFresh,
         WriterSteps, UpdateSteps, DeleteSteps
    <3>4. CreatesApart'
      BY <1>2, <2>0, <3>1, ApartKept
    <3> QED BY <1>0, <1>2, <2>0, <3>1, <3>2, <3>3, <3>4, RowStep, ZenonT(40)
  <2> QED BY <1>3, <2>1, <2>2 DEF CreateRow
<1>4. CASE CreateIndex(t)
  <2>0. call[t].step \in CreateSteps /\ call[t].step # "create_row"
    BY <1>4 DEF CreateIndex, CreateSteps
  <2> PICK step \in {"create_cache", "create_undo"} : Goto(t, step)
    BY <1>4 DEF CreateIndex
  <2>1. /\ OthersKept(t) /\ call'[t].step = step /\ call'[t].id = id
        /\ call'[t].generation = call[t].generation /\ NewTodo(t)' = NewTodo(t)
    BY GotoFacts DEF Steps, CreateSteps, NewTodo
  <2>2. Quiet /\ UNCHANGED <<g_next_todo_id, lock>>
    BY <1>4 DEF CreateIndex, Quiet
  <2>3. ThreadInv(t)'
    BY <1>2, <2>0, <2>1, <2>2 DEF ThreadInv, CreateStored, WriterStored, FillFresh,
       WriterSteps, UpdateSteps, DeleteSteps, Quiet
  <2>4. CreatesApart'
    BY <1>2, <2>0, <2>1, ApartKept
  <2> QED BY <1>0, <1>2, <2>0, <2>1, <2>2, <2>3, <2>4, QuietStep, StateTypes, IdleSteps
<1>5. CASE CreateUndo(t)
  <2>0. call[t].step \in CreateSteps
    BY <1>5 DEF CreateUndo, CreateSteps
  <2>1. OthersKept(t) /\ call'[t].step = "idle" /\ call'[t].generation = 0
        /\ UNCHANGED <<g_todo_cache, g_next_todo_id, lock>>
    BY <1>5, AnswerFacts DEF CreateUndo
  <2>2. CASE DeleteRowFails(id)
    <3>1. Quiet /\ Answer(t)
      BY <1>5, <2>1, <2>2 DEF CreateUndo, DeleteRowFails, Quiet
    <3> QED BY <1>0, <2>0, <2>1, <3>1, AnswerStep, SupersedingSteps
  <2>3. CASE DeleteRow(id)
    <3>1. rows' = [rows EXCEPT ![id] = Null]
      BY <2>3 DEF DeleteRow
    <3>2. ThreadInv(t)'
      BY <2>1, StateTypes, IdleSteps DEF ThreadInv, CreateStored, WriterStored, FillFresh, TodoSteps
    <3>3. CreatesApart'
      BY <2>1, ApartKept, IdleSteps
    <3> QED BY <1>0, <1>2, <2>0, <2>1, <3>1, <3>2, <3>3, RowStep, ZenonT(40)
  <2> QED BY <1>5, <2>2, <2>3 DEF CreateUndo
<1>6. CASE CreateCache(t)
  <2>0. call[t].step \in CreateSteps /\ call[t].step # "create_row"
    BY <1>6 DEF CreateCache, CreateSteps
  <2>1. OthersKept(t) /\ call'[t].step = "idle" /\ call'[t].generation = 0
        /\ UNCHANGED <<rows, g_next_todo_id, lock>>
    BY <1>6, AnswerFacts DEF CreateCache
  <2>2. g_todo_cache' = Cache!Put(g_todo_cache, id, NewTodo(t))
    BY <1>6 DEF CreateCache, CachePut, MayFail
  <2> QED BY <1>0, <1>2, <2>0, <2>1, <2>2, CacheStep, CachePutEffect
<1> QED BY <1>1, <1>3, <1>4, <1>5, <1>6 DEF Create

(***************************************************************************)
(* The ids a client may name: handed out, and not the id of a POST that is *)
(* still in progress.                                                      *)
(***************************************************************************)
LEMMA NamedId ==
  ASSUME KnownIdsOnly, TypeInv, NEW i \in Addressable
  PROVE  /\ i \in Id /\ i \in 0 .. MaxId /\ i < g_next_todo_id
         /\ \A s \in Thread : call[s].step \in CreateSteps => call[s].id # i
BY DEF Addressable, Creating, IdOf, Id

\* Starting a GET, PUT or DELETE keeps the invariant.
LEMMA RequestStep ==
  ASSUME TypeInv, CoherenceInv, TypeInv', KnownIdsOnly, NEW t \in Thread, call[t].step = "idle",
         NEW step \in {"get_generation", "update_search", "delete_search"},
         NEW u \in User, NEW i \in Addressable, NEW d \in Data \cup {Null},
         Request(t, step, u, i, d), Quiet, UNCHANGED g_next_todo_id,
         lock' = lock \/ lock = Null, step # "get_generation" => lock' = t
  PROVE  CoherenceInv'
<1>1. OthersKept(t) /\ call'[t].step = step /\ call'[t].id = i /\ call'[t].generation = 0
  BY RequestFacts, NamedId DEF Steps, GetSteps, WriterSteps, UpdateSteps, DeleteSteps
<1>2. ThreadInv(t)'
  BY <1>1, NamedId, StateTypes DEF ThreadInv, CreateStored, WriterStored, FillFresh, Quiet, CreateSteps,
     WriterSteps, UpdateSteps, DeleteSteps
<1>3. CreatesApart'
  BY <1>1, NamedId DEF CoherenceInv, CreatesApart, OthersKept, CreateSteps
<1> QED BY <1>1, <1>2, <1>3, QuietStep, StateTypes DEF Superseding

\* Every step of a GET of one todo keeps the invariant.
LEMMA CoherenceGet ==
  ASSUME TypeInv, CoherenceInv, KnownIdsOnly, NEW t \in Thread, GetRequest(t) \/ GetTodo(t)
  PROVE  CoherenceInv'
<1> USE DEF At, IdOf
<1> DEFINE id == call[t].id
<1>0. TypeInv' /\ Cache!WellFormed(g_todo_cache)
  BY TypeGet DEF TypeInv, TypeOK
<1>1. CASE GetRequest(t)
  <2> PICK u \in User, i \in Addressable :
         /\ g_todo_cache' = Cache!Get(g_todo_cache, i)
         /\ Request(t, "get_generation", u, i, Null) \/ UNCHANGED call
    BY <1>1 DEF GetRequest
  <2>1. Quiet /\ UNCHANGED <<g_next_todo_id, lock>>
    BY <1>0, <1>1, NamedId, CacheGet DEF GetRequest, Quiet
  <2>2. CASE Request(t, "get_generation", u, i, Null)
    <3>1. call[t].step = "idle" /\ Null \in Data \cup {Null}
      BY <1>1, ZenonT(60) DEF GetRequest
    <3>2. "get_generation" \in {"get_generation", "update_search", "delete_search"}
      OBVIOUS
    <3> QED BY <1>0, <2>1, <2>2, <3>1, <3>2, RequestStep
  <2>3. CASE UNCHANGED call
    <3>1. call[t].step = "idle"
      BY <1>1, ZenonT(60) DEF GetRequest
    <3> QED BY <1>0, <2>1, <2>3, <3>1, SameStep, ZenonT(60)
  <2> QED BY <2>2, <2>3
<1>2. ASSUME call[t].step \in GetSteps
      PROVE  /\ id \in Id /\ id < g_next_todo_id /\ call[t].step \in TodoSteps
             /\ call[t].step \notin Superseding
             /\ call[t].generation <= g_todo_cache.generation
  BY <1>2, TodoIds DEF CoherenceInv, ThreadInv, FillFresh, TodoSteps, GetSteps, Superseding
<1>3. CASE GetGeneration(t)
  <2>0. call[t].step \in GetSteps /\ Quiet /\ UNCHANGED <<g_next_todo_id, lock>>
    BY <1>3 DEF GetGeneration, GetSteps, Quiet
  <2>1. CASE Answer(t)
    BY <1>0, <1>2, <2>0, <2>1, AnswerStep
  <2>2. CASE call' = [call EXCEPT ![t].step = "get_row", ![t].generation = g_todo_cache.generation]
    <3>0. call[t] \in Calls
      BY DEF TypeInv, TypeOK
    <3>1. OthersKept(t) /\ call'[t].step = "get_row" /\ call'[t].id = id
          /\ call'[t].generation = g_todo_cache.generation
      BY <2>2, <3>0 DEF Calls, OthersKept, TypeInv, TypeOK
    <3>2. ThreadInv(t)'
      BY <1>2, <2>0, <3>1, StateTypes DEF ThreadInv, CreateStored, WriterStored, FillFresh, Quiet,
         CreateSteps, WriterSteps, UpdateSteps, DeleteSteps
    <3>3. CreatesApart'
      BY <1>2, <2>0, <3>1, ApartKept DEF CreateSteps
    <3> QED BY <1>0, <1>2, <2>0, <3>1, <3>2, <3>3, QuietStep, StateTypes
  <2> QED BY <1>3, <2>1, <2>2 DEF GetGeneration
<1>4. CASE GetRow(t)
  <2>0. call[t].step \in GetSteps /\ Quiet /\ UNCHANGED <<g_next_todo_id, lock>>
    BY <1>4 DEF GetRow, GetSteps, Quiet
  <2>1. CASE Answer(t)
    BY <1>0, <1>2, <2>0, <2>1, AnswerStep
  <2>2. CASE call' = [call EXCEPT ![t].step = "get_fill", ![t].row = rows[id]]
    <3>1. OthersKept(t) /\ call'[t].step = "get_fill" /\ call'[t].id = id
          /\ call'[t].row = rows[id] /\ call'[t].generation = call[t].generation
      BY <2>2, ReadFacts, ZenonT(40) DEF Steps, GetSteps
    <3>2. ThreadInv(t)'
      BY <1>2, <2>0, <3>1, StateTypes DEF ThreadInv, CreateStored, WriterStored, FillFresh, Current, Quiet,
         CreateSteps, WriterSteps, UpdateSteps, DeleteSteps
    <3>3. CreatesApart'
      BY <1>2, <2>0, <3>1, ApartKept DEF CreateSteps
    <3> QED BY <1>0, <1>2, <2>0, <3>1, <3>2, <3>3, QuietStep, StateTypes
  <2> QED BY <1>4, <2>1, <2>2 DEF GetRow
<1>5. CASE GetFill(t)
  <2>0. call[t].step \in GetSteps /\ UNCHANGED <<rows, g_next_todo_id, lock>> /\ Answer(t)
        /\ call[t].row \in Todo /\ call[t].generation \in Nat
    BY <1>5, StateTypes DEF GetFill, GetSteps, TypeInv, LocalsOK, LocalsFit, RowSteps
  <2>1. OthersKept(t) /\ call'[t].step = "idle" /\ call'[t].generation = 0
    BY <2>0, AnswerFacts
  <2>2. CASE UNCHANGED g_todo_cache
    <3>1. Quiet
      BY <2>0, <2>2 DEF Quiet
    <3> QED BY <1>0, <1>2, <2>0, <3>1, AnswerStep
  <2>3. CASE g_todo_cache' = Cache!Fill(g_todo_cache, id, call[t].row, call[t].generation)
    <3>1. /\ g_todo_cache'.generation = g_todo_cache.generation
          /\ \A i \in Id \ {id} : g_todo_cache'.val[i] \in {g_todo_cache.val[i], Null}
          /\ g_todo_cache'.val[id] =
                IF Cache!CacheOn /\ call[t].generation = g_todo_cache.generation
                THEN call[t].row ELSE g_todo_cache.val[id]
      BY <1>0, <1>2, <2>0, <2>3, CacheFills
    <3>2. ASSUME NEW i, NEW v, Superseded(i, v) PROVE Superseded(i, v)'
      BY <1>2, <2>0, <2>1, <3>2, SupersededKept
    <3>3. CacheCoherent'
      <4>1. Cache!CacheOn /\ call[t].generation = g_todo_cache.generation
              => call[t].row = rows[id] \/ Superseded(id, call[t].row)
        BY <1>5 DEF GetFill, CoherenceInv, ThreadInv, FillFresh, Current
      <4> QED BY <2>0, <3>1, <3>2, <4>1 DEF CoherenceInv, CacheCoherent
    <3>4. UnusedIds'
      BY <1>2, <2>0, <3>1, StateTypes DEF CoherenceInv, UnusedIds, Id
    <3>5. CreatesApart'
      BY <2>1, ApartKept, IdleSteps
    <3>6. ThreadInv(t)'
      BY <2>1, <3>1, StateTypes, IdleSteps DEF ThreadInv, CreateStored, WriterStored, FillFresh, TodoSteps,
         WriterSteps, UpdateSteps, DeleteSteps
    <3>7. ASSUME NEW s \in Thread, s # t PROVE ThreadInv(s)'
      <4>1. call'[s] = call[s] /\ ThreadInv(s) /\ NewTodo(s)' = NewTodo(s)
        BY <2>1, <3>7 DEF OthersKept, CoherenceInv, NewTodo
      <4>2. call[s].step \in CreateSteps => call[s].id \in Id \ {id}
        BY <1>2, <2>0, <3>7, TodoIds DEF CoherenceInv, CreatesApart, TodoSteps
      <4>3. CreateStored(s)' /\ WriterStored(s)'
        BY <2>0, <3>1, <4>1, <4>2 DEF ThreadInv, CreateStored, WriterStored
      <4>4. FillFresh(s)'
        BY <2>0, <3>1, <3>2, <4>1, ZenonT(40) DEF ThreadInv, FillFresh, Current
      <4> QED BY <2>0, <4>1, <4>3, <4>4 DEF ThreadInv
    <3> QED BY <3>3, <3>4, <3>5, <3>6, <3>7 DEF CoherenceInv
  <2> QED BY <1>5, <2>2, <2>3 DEF GetFill
<1> QED BY <1>1, <1>3, <1>4, <1>5 DEF GetTodo

(***************************************************************************)
(* What holds for the thread that has the write lock.                      *)
(***************************************************************************)
LEMMA WriterFacts ==
  ASSUME TypeInv, CoherenceInv, NEW t \in Thread, call[t].step \in WriterSteps
  PROVE  /\ call[t].id \in Id /\ call[t].id < g_next_todo_id /\ lock = t
         /\ call[t].step \in TodoSteps /\ call[t].step \notin CreateSteps
         /\ call[t].generation <= g_todo_cache.generation
         /\ \A i, v : Superseded(i, v) => call[t].step \in Superseding /\ v = call[t].row
<1>1. call[t].step \in TodoSteps /\ call[t].step \notin CreateSteps
  BY DEF TodoSteps, CreateSteps, WriterSteps, UpdateSteps, DeleteSteps
<1>2. call[t].id \in Id /\ call[t].id < g_next_todo_id /\ lock = t
      /\ call[t].generation <= g_todo_cache.generation
  BY <1>1, TodoIds DEF CoherenceInv, ThreadInv, WriterStored, FillFresh
<1>3. \A s \in Thread : call[s].step \in Superseding => s = t
  BY <1>2, IdleSteps DEF CoherenceInv, ThreadInv, WriterStored
<1> QED BY <1>1, <1>2, <1>3 DEF Superseded

(***************************************************************************)
(* A PUT or DELETE that goes on without touching the row or the cache.     *)
(***************************************************************************)
LEMMA WriterGoesOn ==
  ASSUME TypeInv, CoherenceInv, NEW t \in Thread, call[t].step \in WriterSteps, TypeInv',
         NEW step \in WriterSteps, Goto(t, step), Quiet, UNCHANGED <<g_next_todo_id, lock>>,
         call[t].step \in Superseding => step \in Superseding,
         \/ call[t].step = "delete_index" /\ step = "delete_row"
         \/ call[t].step = "delete_row" /\ step = "delete_drop"
         \/ /\ call[t].step \in {"update_insert", "update_restore"}
            /\ step \in {"update_restore", "update_drop"}
  PROVE  CoherenceInv'
<1>1. /\ OthersKept(t) /\ call'[t].step = step /\ call'[t].id = call[t].id
      /\ call'[t].row = call[t].row /\ call'[t].generation = call[t].generation
  BY GotoFacts DEF Steps
<1>2. ThreadInv(t)
  BY DEF CoherenceInv
<1>3. ThreadInv(t)'
  BY <1>1, <1>2, WriterFacts, ZenonT(60) DEF ThreadInv, CreateStored, WriterStored, FillFresh, Quiet,
     CreateSteps, WriterSteps, UpdateSteps, DeleteSteps
<1>4. CreatesApart'
  BY <1>1, WriterFacts, ApartKept, ZenonT(60) DEF CreateSteps, WriterSteps, UpdateSteps, DeleteSteps
<1> QED BY <1>1, <1>3, <1>4, QuietStep, StateTypes

\* A PUT or DELETE that answers, and so unlocks, keeps the invariant.
LEMMA WriterLeaves ==
  ASSUME TypeInv, CoherenceInv, NEW t \in Thread, call[t].step \in WriterSteps, TypeInv',
         Unlock(t), Quiet, UNCHANGED g_next_todo_id, call[t].step \notin Superseding
  PROVE  CoherenceInv'
<1>1. lock = t /\ Answer(t)
  BY WriterFacts DEF Unlock
<1> QED BY <1>1, AnswerStep

(***************************************************************************)
(* Taking the row out of storage makes its value a superseded one.         *)
(***************************************************************************)
LEMMA WriterDeletesRow ==
  ASSUME TypeInv, CoherenceInv, NEW t \in Thread, TypeInv',
         NEW step \in {"update_insert", "delete_drop"}, Goto(t, step),
         \/ call[t].step = "update_delete" /\ step = "update_insert"
         \/ call[t].step = "delete_row" /\ step = "delete_drop",
         DeleteRow(call[t].id), UNCHANGED <<g_todo_cache, g_next_todo_id, lock>>
  PROVE  CoherenceInv'
<1>0. call[t].step \in WriterSteps /\ call[t].step \notin Superseding /\ step \in Superseding
      /\ step \in WriterSteps
  BY DEF WriterSteps, UpdateSteps, DeleteSteps, Superseding
<1> PICK id \in Id : id = call[t].id
  BY <1>0, WriterFacts
<1>1. /\ OthersKept(t) /\ call'[t].step = step /\ call'[t].id = id
      /\ call'[t].row = call[t].row /\ call'[t].generation = call[t].generation
  BY <1>0, GotoFacts DEF Steps
<1>2. rows' = [rows EXCEPT ![id] = Null] /\ rows[id] = call[t].row
  BY DEF DeleteRow, CoherenceInv, ThreadInv, WriterStored
<1>3. ASSUME NEW v \in Todo, Current(id, v) PROVE Current(id, v)'
  <2>1. CASE v = rows[id]
    BY <1>0, <1>1, <1>2, <2>1 DEF Current, Superseded, IdOf
  <2>2. CASE Superseded(id, v)
    BY <1>0, <1>1, <2>2, SupersededKept DEF Current
  <2> QED BY <1>3, <2>1, <2>2 DEF Current
<1>4. ThreadInv(t)'
  BY <1>0, <1>1, <1>2, WriterFacts, StateTypes, ZenonT(40) DEF ThreadInv, CreateStored, WriterStored, FillFresh,
     CreateSteps, WriterSteps, UpdateSteps, DeleteSteps
<1>5. CreatesApart'
  BY <1>0, <1>1, WriterFacts, ApartKept DEF CreateSteps
<1> QED BY <1>0, <1>1, <1>2, <1>3, <1>4, <1>5, RowStep, ZenonT(40)

\* The ownership check of PUT and DELETE keeps the invariant.
LEMMA CoherenceSearch ==
  ASSUME TypeInv, CoherenceInv, NEW t \in Thread, call[t].step \in {"update_search", "delete_search"},
         TypeInv', NEW step \in {"update_delete", "delete_index", "delete_row"}, SearchOwned(t, step)
  PROVE  CoherenceInv'
<1> USE DEF IdOf
<1>0. call[t].step \in WriterSteps /\ call[t].step \notin Superseding /\ Quiet
      /\ UNCHANGED g_next_todo_id
  BY DEF WriterSteps, UpdateSteps, DeleteSteps, Superseding, SearchOwned, Quiet
<1>1. CASE Unlock(t)
  BY <1>0, <1>1, WriterLeaves
<1>2. CASE call' = [call EXCEPT ![t].step = step, ![t].row = rows[call[t].id]] /\ UNCHANGED lock
  <2>1. /\ OthersKept(t) /\ call'[t].step = step /\ call'[t].id = call[t].id
        /\ call'[t].row = rows[call[t].id] /\ call'[t].generation = call[t].generation
    BY <1>2, ReadFacts, ZenonT(40) DEF Steps, WriterSteps, UpdateSteps, DeleteSteps
  <2>2. ThreadInv(t)'
    BY <1>0, <1>2, <2>1, WriterFacts DEF ThreadInv, CreateStored, WriterStored, FillFresh, Quiet,
       CreateSteps, WriterSteps, UpdateSteps, DeleteSteps
  <2>3. CreatesApart'
    BY <1>0, <2>1, WriterFacts, ApartKept DEF CreateSteps
  <2> QED BY <1>0, <1>2, <2>1, <2>2, <2>3, QuietStep, StateTypes
<1> QED BY <1>1, <1>2 DEF SearchOwned

\* The invalidation of PUT and DELETE keeps the invariant.
LEMMA CoherenceDrop ==
  ASSUME TypeInv, CoherenceInv, NEW t \in Thread, call[t].step \in WriterSteps, TypeInv',
         DropCached(t)
  PROVE  CoherenceInv'
<1>1. OthersKept(t) /\ call'[t].step = "idle" /\ call'[t].generation = 0 /\ lock = t
      /\ UNCHANGED <<rows, g_next_todo_id>>
  BY AnswerFacts, WriterFacts DEF DropCached, Unlock
<1>2. g_todo_cache' = Cache!Invalidate(g_todo_cache, call[t].id) /\ call[t].id \in Id
  BY WriterFacts DEF DropCached, IdOf
<1> QED BY <1>1, <1>2, InvalidateEffect, CacheStep

\* Every step of a PUT keeps the invariant.
LEMMA CoherenceUpdate ==
  ASSUME TypeInv, CoherenceInv, KnownIdsOnly, "malloc" \notin Faults, NEW t \in Thread,
         UpdateRequest(t) \/ Update(t)
  PROVE  CoherenceInv'
<1> USE DEF At, IdOf
<1>0. TypeInv'
  BY TypeUpdate
<1>1. CASE UpdateRequest(t)
  <2> PICK u \in User, i \in Addressable, d \in Data : Request(t, "update_search", u, i, d)
    BY <1>1 DEF UpdateRequest
  <2>1. call[t].step = "idle" /\ d \in Data \cup {Null} /\ Quiet /\ UNCHANGED g_next_todo_id
        /\ lock = Null /\ lock' = t
    BY <1>1 DEF UpdateRequest, Quiet
  <2>2. "update_search" \in {"get_generation", "update_search", "delete_search"}
    OBVIOUS
  <2> QED BY <1>0, <2>1, <2>2, RequestStep
<1>2. CASE UpdateSearch(t)
  BY <1>0, <1>2, CoherenceSearch DEF UpdateSearch
<1>3. CASE UpdateDelete(t)
  <2>1. call[t].step = "update_delete" /\ call[t].step \in WriterSteps /\ call[t].step \notin Superseding
        /\ UNCHANGED <<g_todo_cache, g_next_todo_id>>
    BY <1>3 DEF UpdateDelete, WriterSteps, UpdateSteps, Superseding
  <2>2. CASE DeleteRow(call[t].id) /\ Goto(t, "update_insert") /\ UNCHANGED lock
    BY <1>0, <2>1, <2>2, WriterDeletesRow
  <2>3. CASE DeleteRowFails(call[t].id) /\ Unlock(t)
    BY <1>0, <2>1, <2>3, WriterLeaves DEF DeleteRowFails, Quiet
  <2> QED BY <1>3, <2>2, <2>3 DEF UpdateDelete
<1>4. CASE UpdateInsert(t)
  <2>1. /\ call[t].step = "update_insert"
        /\ call[t].step \in WriterSteps /\ call[t].step \in Superseding
        /\ UNCHANGED <<g_todo_cache, g_next_todo_id, lock>>
    BY <1>4 DEF UpdateInsert, WriterSteps, UpdateSteps, Superseding
  <2>2. CASE InsertRow(call[t].id, NewTodo(t)) /\ Goto(t, "update_cache")
    <3> PICK id \in Id : id = call[t].id
      BY <2>1, WriterFacts
    <3>1. /\ OthersKept(t) /\ call'[t].step = "update_cache" /\ call'[t].id = id
          /\ call'[t].row = call[t].row /\ call'[t].generation = call[t].generation
          /\ NewTodo(t)' = NewTodo(t)
      BY <2>2, GotoFacts DEF Steps, WriterSteps, UpdateSteps, NewTodo
    <3>2. rows' = [rows EXCEPT ![id] = NewTodo(t)] /\ rows[id] = Null
      BY <2>2 DEF InsertRow
    <3>3. ASSUME NEW v \in Todo, Current(id, v) PROVE Current(id, v)'
      <4>1. Superseded(id, v)
        BY <3>2, <3>3, NullAssumption DEF Current
      <4> QED BY <2>1, <3>1, <4>1, SupersededKept, ZenonT(60) DEF Current, Superseding
    <3>4. ThreadInv(t)'
      BY <2>1, <3>1, <3>2, WriterFacts, StateTypes DEF ThreadInv, CreateStored, WriterStored, FillFresh,
         CreateSteps, WriterSteps, UpdateSteps, DeleteSteps
    <3>5. CreatesApart'
      BY <2>1, <3>1, WriterFacts, ApartKept, ZenonT(40) DEF CreateSteps
    <3> QED BY <1>0, <2>1, <3>1, <3>2, <3>3, <3>4, <3>5, RowStep, ZenonT(40)
  <2>3. CASE InsertRowFails(call[t].id, "insert") /\ Goto(t, "update_restore")
    <3>1. Quiet /\ "update_restore" \in WriterSteps /\ "update_restore" \in Superseding
      BY <2>1, <2>3 DEF InsertRowFails, Quiet, WriterSteps, UpdateSteps, Superseding
    <3> QED BY <1>0, <2>1, <2>3, <3>1, WriterGoesOn, ZenonT(40)
  <2> QED BY <1>4, <2>2, <2>3 DEF UpdateInsert
<1>5. CASE UpdateRestore(t)
  <2>1. /\ call[t].step = "update_restore"
        /\ call[t].step \in WriterSteps /\ call[t].step \in Superseding
        /\ UNCHANGED <<g_todo_cache, g_next_todo_id>>
    BY <1>5 DEF UpdateRestore, WriterSteps, UpdateSteps, Superseding
  <2>2. CASE InsertRow(call[t].id, call[t].row) /\ Unlock(t)
    <3> PICK id \in Id : id = call[t].id
      BY <2>1, WriterFacts
    <3>1. OthersKept(t) /\ call'[t].step = "idle" /\ call'[t].generation = 0 /\ lock = t
      BY <2>1, <2>2, AnswerFacts, WriterFacts DEF Unlock
    <3>2. rows' = [rows EXCEPT ![id] = call[t].row] /\ rows[id] = Null /\ rows'[id] = call[t].row
      BY <2>2, StateTypes DEF InsertRow
    <3>3. ASSUME NEW v \in Todo, Current(id, v) PROVE Current(id, v)'
      <4>1. Superseded(id, v)
        BY <3>2, <3>3, NullAssumption DEF Current
      <4> QED BY <2>1, <3>2, <4>1, WriterFacts DEF Current
    <3>4. ThreadInv(t)'
      BY <2>1, <3>1, StateTypes, IdleSteps DEF ThreadInv, CreateStored, WriterStored, FillFresh,
         TodoSteps, WriterSteps, UpdateSteps, DeleteSteps
    <3>5. CreatesApart'
      BY <3>1, ApartKept, IdleSteps
    <3> QED BY <1>0, <2>1, <3>1, <3>2, <3>3, <3>4, <3>5, RowStep, ZenonT(40)
  <2>3. CASE InsertRowFails(call[t].id, "restore") /\ Goto(t, "update_drop") /\ UNCHANGED lock
    <3>1. Quiet /\ "update_drop" \in WriterSteps /\ "update_drop" \in Superseding
      BY <2>1, <2>3 DEF InsertRowFails, Quiet, WriterSteps, UpdateSteps, Superseding
    <3> QED BY <1>0, <2>1, <2>3, <3>1, WriterGoesOn
  <2> QED BY <1>5, <2>2, <2>3, ZenonT(60) DEF UpdateRestore
<1>6. CASE UpdateDrop(t)
  BY <1>0, <1>6, CoherenceDrop DEF UpdateDrop, WriterSteps, UpdateSteps
<1>7. CASE UpdateCache(t)
  <2>1. call[t].step \in WriterSteps /\ call[t].step = "update_cache"
    BY <1>7 DEF UpdateCache, WriterSteps, UpdateSteps
  <2>2. OthersKept(t) /\ call'[t].step = "idle" /\ call'[t].generation = 0 /\ lock = t
        /\ UNCHANGED <<rows, g_next_todo_id>>
    BY <1>7, <2>1, AnswerFacts, WriterFacts DEF UpdateCache, Unlock
  <2>3. g_todo_cache' = Cache!Put(g_todo_cache, call[t].id, NewTodo(t))
    BY <1>7 DEF UpdateCache, CachePut, MayFail
  <2>4. call[t].id \in Id /\ NewTodo(t) \in Todo /\ rows[call[t].id] = NewTodo(t)
    BY <2>1, WriterFacts, NewTodoType, ZenonT(40) DEF UpdateSteps, CoherenceInv, ThreadInv, WriterStored
  <2> QED BY <1>0, <2>1, <2>2, <2>3, <2>4, CachePutEffect, CacheStep, ZenonT(40)
<1> QED BY <1>1, <1>2, <1>3, <1>4, <1>5, <1>6, <1>7 DEF Update

\* Every step of a DELETE keeps the invariant.
LEMMA CoherenceDelete ==
  ASSUME TypeInv, CoherenceInv, KnownIdsOnly, NEW t \in Thread, DeleteRequest(t) \/ Delete(t)
  PROVE  CoherenceInv'
<1> USE DEF At, IdOf
<1>0. TypeInv'
  BY TypeDelete
<1>1. CASE DeleteRequest(t)
  <2> PICK u \in User, i \in Addressable : Request(t, "delete_search", u, i, Null)
    BY <1>1 DEF DeleteRequest
  <2>1. call[t].step = "idle" /\ Null \in Data \cup {Null} /\ Quiet /\ UNCHANGED g_next_todo_id
        /\ lock = Null /\ lock' = t
    BY <1>1 DEF DeleteRequest, Quiet
  <2>2. "delete_search" \in {"get_generation", "update_search", "delete_search"}
    OBVIOUS
  <2> QED BY <1>0, <2>1, <2>2, RequestStep
<1>2. CASE DeleteSearch(t)
  BY <1>0, <1>2, CoherenceSearch DEF DeleteSearch
<1>3. CASE DeleteIndex(t)
  <2>1. /\ call[t].step = "delete_index" /\ call[t].step \in WriterSteps
        /\ call[t].step \notin Superseding /\ "delete_row" \in WriterSteps
        /\ Goto(t, "delete_row") /\ Quiet /\ UNCHANGED <<g_next_todo_id, lock>>
    BY <1>3 DEF DeleteIndex, WriterSteps, DeleteSteps, Superseding, Quiet
  <2> QED BY <1>0, <2>1, WriterGoesOn
<1>4. CASE DeleteTodo(t)
  <2>1. /\ call[t].step = "delete_row" /\ call[t].step \in WriterSteps
        /\ "delete_drop" \in WriterSteps /\ "delete_drop" \in Superseding
        /\ Goto(t, "delete_drop") /\ UNCHANGED <<g_todo_cache, g_next_todo_id, lock>>
    BY <1>4 DEF DeleteTodo, WriterSteps, DeleteSteps, Superseding
  <2>2. CASE DeleteRow(call[t].id)
    BY <1>0, <2>1, <2>2, WriterDeletesRow
  <2>3. CASE DeleteRowFails(call[t].id)
    BY <1>0, <2>1, <2>3, WriterGoesOn DEF DeleteRowFails, Quiet
  <2> QED BY <1>4, <2>2, <2>3 DEF DeleteTodo
<1>5. CASE DeleteDrop(t)
  BY <1>0, <1>5, CoherenceDrop DEF DeleteDrop, WriterSteps, DeleteSteps
<1> QED BY <1>1, <1>2, <1>3, <1>4, <1>5 DEF Delete

\* Every step of a listing keeps the invariant.
LEMMA CoherenceList ==
  ASSUME TypeInv, CoherenceInv, NEW t \in Thread, ListRequest(t) \/ ListTodos(t)
  PROVE  CoherenceInv'
<1> USE DEF At, IdOf
<1>0. TypeInv'
  BY TypeList
<1>1. Quiet /\ UNCHANGED <<g_next_todo_id, lock>> /\ call[t].step \in ListSteps \cup {"idle"}
  BY ZenonT(40) DEF ListRequest, ListTodos, ListIndex, ListRows, ListAll, ListAnswer, Quiet, ListSteps
<1>2. CASE UNCHANGED call
  BY <1>0, <1>1, <1>2, SameStep
<1>3. ASSUME NEW step \in ListSteps, Goto(t, step) PROVE CoherenceInv'
  <2>1. OthersKept(t) /\ call'[t].step = step /\ call'[t].generation = call[t].generation
    BY <1>3, GotoFacts, ZenonT(40) DEF Steps
  <2>2. call'[t].step \notin TodoSteps /\ call[t].step \notin Superseding
    BY <1>1, <2>1, IdleSteps, SupersedingSteps
  <2>3. g_next_todo_id' >= g_next_todo_id
    BY <1>1, StateTypes
  <2> QED BY <1>0, <1>1, <2>1, <2>2, <2>3, OutsideStep
<1>4. CASE Answer(t)
  BY <1>0, <1>1, <1>4, AnswerStep, SupersedingSteps
<1>5. ASSUME NEW u \in User, NEW step \in {"list_index", "list_all"}, Request(t, step, u, 0, Null)
      PROVE  CoherenceInv'
  <2>1. OthersKept(t) /\ call'[t].step = step /\ call'[t].generation = 0
    BY <1>5, RequestFacts, MaxIdAssumption DEF Steps, ListSteps
  <2>2. call'[t].step \notin TodoSteps /\ call[t].step \notin Superseding
    BY <1>1, <2>1, IdleSteps, SupersedingSteps DEF ListSteps
  <2>3. g_next_todo_id' >= g_next_todo_id
    BY <1>1, StateTypes
  <2> QED BY <1>0, <1>1, <2>1, <2>2, <2>3, OutsideStep
<1>6. CASE ListRequest(t)
  BY <1>5, <1>6, ZenonT(60) DEF ListRequest
<1>7. CASE ListTodos(t)
  BY <1>2, <1>3, <1>4, <1>7, ZenonT(40) DEF ListTodos, ListIndex, ListRows, ListAll, ListAnswer, ScanFails, ListSteps
<1> QED BY <1>6, <1>7

\* The invariant holds in the initial states.
LEMMA CoherenceInit == Init => CoherenceInv
<1> SUFFICES ASSUME Init PROVE CoherenceInv
  OBVIOUS
<1>1. \A i \in Id : g_todo_cache.val[i] = Null
  BY CacheEmpty DEF Init
<1>2. g_todo_cache.generation = 0
  BY DEF Init, Cache!Empty
<1>3. \A t \in Thread : call[t].step = "idle" /\ call[t].generation = 0
  BY DEF Init, Idle
<1>4. UnusedIds /\ CacheCoherent
  BY <1>1 DEF Init, UnusedIds, CacheCoherent
<1>5. CreatesApart
  BY <1>3, IdleSteps DEF CreatesApart, TodoSteps
<1>6. \A t \in Thread : ThreadInv(t)
  BY <1>2, <1>3, IdleSteps DEF ThreadInv, CreateStored, WriterStored, FillFresh, TodoSteps
<1> QED BY <1>4, <1>5, <1>6 DEF CoherenceInv

\* It holds when nothing changes.
LEMMA CoherenceStutter == CoherenceInv /\ UNCHANGED vars => CoherenceInv'
<1> SUFFICES ASSUME CoherenceInv, UNCHANGED vars PROVE CoherenceInv'
  OBVIOUS
<1>1. UNCHANGED <<rows, g_todo_cache, g_next_todo_id, lock, call>>
  BY DEF vars
<1>2. UnusedIds' /\ CreatesApart'
  BY <1>1 DEF CoherenceInv, UnusedIds, CreatesApart, IdOf
<1>3. CacheCoherent'
  BY <1>1 DEF CoherenceInv, CacheCoherent, Superseded, IdOf
<1>4. ASSUME NEW t \in Thread PROVE ThreadInv(t)'
  <2>1. CreateStored(t)' /\ WriterStored(t)'
    BY <1>1 DEF CoherenceInv, ThreadInv, CreateStored, WriterStored, NewTodo
  <2>2. FillFresh(t)'
    BY <1>1, ZenonT(40) DEF CoherenceInv, ThreadInv, FillFresh, Current, Superseded, IdOf
  <2> QED BY <1>1, <2>1, <2>2 DEF CoherenceInv, ThreadInv
<1> QED BY <1>2, <1>3, <1>4 DEF CoherenceInv

(***************************************************************************)
(* The cache never serves a value that is neither stored nor being         *)
(* replaced, whatever GETs, PUTs, DELETEs and POSTs interleave and         *)
(* whichever storage calls fail: the generation that todo_get_handler      *)
(* takes before it reads is enough, although no reader takes the write     *)
(* lock.  It rests on clients not naming an id before its POST is answered *)
(* and on lru_put finding memory; without either CacheCoherent is false.   *)
(***************************************************************************)
THEOREM CacheStaysCoherent ==
  ASSUME KnownIdsOnly, "malloc" \notin Faults
  PROVE  Spec => []CacheCoherent
<1> DEFINE Inv == TypeInv /\ CoherenceInv
<1>1. Init => Inv
  BY TypeInit, CoherenceInit
<1>2. Inv /\ [Next]_vars => Inv'
  <2> SUFFICES ASSUME TypeInv, CoherenceInv, [Next]_vars PROVE TypeInv' /\ CoherenceInv'
    OBVIOUS
  <2>1. CASE UNCHANGED vars
    BY <2>1, TypeStutter, CoherenceStutter
  <2>2. ASSUME NEW t \in Thread, Accept(t) \/ Step(t) PROVE TypeInv' /\ CoherenceInv'
    <3>1. CASE CreateRequest(t) \/ Create(t)
      BY <3>1, TypeCreate, CoherenceCreate
    <3>2. CASE GetRequest(t) \/ GetTodo(t)
      BY <3>2, TypeGet, CoherenceGet
    <3>3. CASE UpdateRequest(t) \/ Update(t)
      BY <3>3, TypeUpdate, CoherenceUpdate
    <3>4. CASE DeleteRequest(t) \/ Delete(t)
      BY <3>4, TypeDelete, CoherenceDelete
    <3>5. CASE ListRequest(t) \/ ListTodos(t)
      BY <3>5, TypeList, CoherenceList
    <3> QED BY <2>2, <3>1, <3>2, <3>3, <3>4, <3>5 DEF Accept, Step
  <2> QED BY <2>1, <2>2 DEF Next
<1>3. Inv => CacheCoherent
  BY DEF CoherenceInv
<1> QED BY <1>1, <1>2, <1>3, PTL DEF Spec
=============================================================================
