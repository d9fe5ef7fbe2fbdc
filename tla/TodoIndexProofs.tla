-------------------------- MODULE TodoIndexProofs ---------------------------
(***************************************************************************)
(* The owner index stays in step with the todo rows, for every number of   *)
(* threads, users and ids: StoredTodosListed and EntriesHaveRows are       *)
(* invariants of TodoApi when clients name only ids whose POST has been    *)
(* answered, storage deletes succeed and a failed PUT can restore the row. *)
(***************************************************************************)
EXTENDS TodoCoherence

MutatorSteps == CreateSteps \cup WriterSteps

(***************************************************************************)
(* The index has the entry of id for the owner of row and for nobody else, *)
(* or nothing when it is not available.                                    *)
(***************************************************************************)
InStep(id, row) == \A u \in User : <<u, id>> \in idx <=> g_index_ready /\ Owned(row, u)

(***************************************************************************)
(* The row that the index shows while a POST, PUT or DELETE works on it:   *)
(* none before a POST has entered it and after a DELETE has removed it,    *)
(* the old one while a PUT has it out of storage.                          *)
(***************************************************************************)
Indexed(t) ==
    IF call[t].step \in {"create_row", "create_index", "create_undo", "delete_row", "delete_drop"}
    THEN Null
    ELSE IF call[t].step \in {"update_insert", "update_restore"} THEN call[t].row
    ELSE rows[call[t].id]

(***************************************************************************)
(* What storage holds at each position of a POST, PUT or DELETE.           *)
(***************************************************************************)
RowFits(t) ==
    /\ call[t].step \in {"create_row", "update_insert", "update_restore", "delete_drop"}
          => rows[call[t].id] = Null
    /\ call[t].step \in {"create_index", "create_undo", "create_cache"}
          => rows[call[t].id] = NewTodo(t)
    /\ call[t].step \in {"update_delete", "update_insert", "update_restore", "delete_index"}
          => Owned(call[t].row, call[t].user)
    /\ call[t].step \in {"update_delete", "delete_index"} => rows[call[t].id] = call[t].row
    /\ call[t].step = "delete_row" => rows[call[t].id] # Null
    /\ call[t].step \in {"create_index", "create_undo", "delete_index"} => g_index_ready
    /\ call[t].step # "update_drop"

IndexThread(t) ==
    /\ call[t].step \in TodoSteps => call[t].id < g_next_todo_id
    /\ call[t].step \in WriterSteps => lock = t
    /\ call[t].step \in MutatorSteps => InStep(call[t].id, Indexed(t))
    /\ RowFits(t)

(***************************************************************************)
(* The inductive invariant.                                                *)
(***************************************************************************)
IndexInv ==
    /\ \A i \in Id : i >= g_next_todo_id => rows[i] = Null
    /\ CreatesApart
    /\ \A t \in Thread : IndexThread(t)
    /\ \A i \in Id : ~Busy(i) => InStep(i, rows[i])

-----------------------------------------------------------------------------
\* The steps of the five handlers are apart.
LEMMA StepKinds ==
  /\ MutatorSteps \subseteq TodoSteps /\ GetSteps \subseteq TodoSteps
  /\ \A s \in GetSteps \cup ListSteps \cup {"idle"} : s \notin MutatorSteps
  /\ \A s \in ListSteps \cup {"idle"} : s \notin TodoSteps
  /\ \A s \in WriterSteps : s \notin CreateSteps
BY DEF MutatorSteps, TodoSteps, CreateSteps, GetSteps, WriterSteps, UpdateSteps, DeleteSteps, ListSteps

(***************************************************************************)
(* Two handlers never change the same todo: the lock keeps writers apart,  *)
(* and clients do not know an id before its POST is answered.              *)
(***************************************************************************)
LEMMA MutatorsApart ==
  ASSUME TypeInv, IndexInv, NEW s \in Thread, NEW t \in Thread, s # t,
         call[s].step \in MutatorSteps, call[t].step \in MutatorSteps
  PROVE  call[s].id # call[t].id
BY StepKinds DEF IndexInv, CreatesApart, IndexThread, MutatorSteps, TodoSteps

\* An id that was handed out stays so when the counter goes up.
LEMMA CounterGrows ==
  ASSUME TypeInv, TypeInv', g_next_todo_id' >= g_next_todo_id
  PROVE  \A i \in Id : /\ i < g_next_todo_id => i < g_next_todo_id'
                       /\ i >= g_next_todo_id' => i >= g_next_todo_id
<1>1. g_next_todo_id \in Nat /\ g_next_todo_id' \in Nat
  BY MaxIdAssumption DEF TypeInv, TypeOK
<1>2. Id \subseteq Nat
  BY MaxIdAssumption DEF Id
<1> QED BY <1>1, <1>2

(***************************************************************************)
(* A step that changes the row and the entries of one id only keeps the    *)
(* invariant if it holds for this id and for the thread that took it.      *)
(***************************************************************************)
LEMMA IndexStep ==
  ASSUME TypeInv, IndexInv, TypeInv', NEW t \in Thread, OthersKept(t), NEW id \in Id,
         id < g_next_todo_id',
         call[t].step \in MutatorSteps => call[t].id = id,
         \A s \in Thread \ {t} : call[s].step \in MutatorSteps => call[s].id # id,
         \A i \in Id \ {id} : rows'[i] = rows[i],
         \A u \in User, i \in Id \ {id} : <<u, i>> \in idx' <=> <<u, i>> \in idx,
         UNCHANGED g_index_ready, g_next_todo_id' >= g_next_todo_id,
         lock' = lock \/ lock \in {Null, t},
         call'[t].step \in MutatorSteps => call'[t].id = id,
         call'[t].step \notin MutatorSteps => call'[t].step = "idle" /\ InStep(id, rows[id])',
         IndexThread(t)', CreatesApart'
  PROVE  IndexInv'
<1>0. id >= g_next_todo_id' => FALSE
  <2>1. g_next_todo_id' \in Nat /\ id \in Nat
    BY MaxIdAssumption DEF TypeInv, TypeOK, Id
  <2> QED BY <2>1
<1>1. \A i \in Id : i >= g_next_todo_id' => rows'[i] = Null
  BY <1>0, CounterGrows DEF IndexInv
<1>2. ASSUME NEW i \in Id, i # id, NEW r PROVE InStep(i, r)' <=> InStep(i, r)
  BY <1>2 DEF InStep, Owned
<1>3. ASSUME NEW s \in Thread, s # t PROVE IndexThread(s)'
  <2>1. call'[s] = call[s] /\ IndexThread(s) /\ NewTodo(s)' = NewTodo(s)
    BY <1>3 DEF OthersKept, IndexInv, NewTodo
  <2>2. CASE call[s].step \in MutatorSteps
    <3>1. call[s].id \in Id /\ call[s].id # id
      BY <1>3, <2>2, TodoIds, StepKinds
    <3>2. rows'[call[s].id] = rows[call[s].id]
      BY <3>1
    <3>3. Indexed(s)' = Indexed(s)
      BY <2>1, <3>2 DEF Indexed
    <3>4. InStep(call[s].id, Indexed(s))'
      BY <1>2, <2>1, <2>2, <3>1, <3>3 DEF IndexThread, InStep
    <3>5. RowFits(s)'
      BY <2>1, <3>2, ZenonT(60) DEF IndexThread, RowFits, Owned
    <3>6. call[s].step \in WriterSteps => lock' = s
      BY <1>3, <2>1, NullAssumption DEF IndexThread
    <3>7. call[s].id < g_next_todo_id'
      BY <2>1, <2>2, <3>1, StepKinds, CounterGrows DEF IndexThread
    <3> QED BY <2>1, <3>4, <3>5, <3>6, <3>7 DEF IndexThread
  <2>3. CASE call[s].step \notin MutatorSteps
    <3>1. call[s].step \in TodoSteps => call[s].id < g_next_todo_id'
      BY <2>1, TodoIds, CounterGrows DEF IndexThread
    <3> QED BY <2>1, <2>3, <3>1 DEF IndexThread, RowFits, MutatorSteps, CreateSteps, WriterSteps,
                                    UpdateSteps, DeleteSteps
  <2> QED BY <2>2, <2>3
<1>4. ASSUME NEW i \in Id, ~Busy(i)' PROVE InStep(i, rows[i])'
  <2>1. CASE i = id
    <3>1. call'[t].step \notin MutatorSteps
      BY <1>4, <2>1 DEF Busy, IdOf, MutatorSteps
    <3> QED BY <2>1, <3>1
  <2>2. CASE i # id
    <3>1. ~Busy(i)
      BY <1>4, <2>2 DEF Busy, IdOf, OthersKept, MutatorSteps
    <3>2. InStep(i, rows[i])
      BY <3>1 DEF IndexInv
    <3> QED BY <1>2, <2>2, <3>2 DEF InStep
  <2> QED BY <2>1, <2>2
<1> QED BY <1>1, <1>3, <1>4 DEF IndexInv

(***************************************************************************)
(* A step of a GET or a listing, or a request of one, touches neither rows *)
(* nor index.                                                              *)
(***************************************************************************)
LEMMA BystanderStep ==
  ASSUME TypeInv, IndexInv, TypeInv', NEW t \in Thread, OthersKept(t),
         UNCHANGED <<rows, idx, g_index_ready, lock>>, g_next_todo_id' >= g_next_todo_id,
         call[t].step \notin MutatorSteps, call'[t].step \notin MutatorSteps,
         call'[t].step \in TodoSteps => call'[t].id < g_next_todo_id, CreatesApart'
  PROVE  IndexInv'
<1>1. \A i \in Id : i >= g_next_todo_id' => rows'[i] = Null
  BY CounterGrows DEF IndexInv
<1>2. \A i \in Id : Busy(i)' <=> Busy(i)
  BY DEF Busy, IdOf, OthersKept, MutatorSteps
<1>3. ASSUME NEW i \in Id, ~Busy(i)' PROVE InStep(i, rows[i])'
  <2>1. InStep(i, rows[i])
    BY <1>2, <1>3 DEF IndexInv
  <2> QED BY <2>1 DEF InStep, Owned
<1>4. ASSUME NEW s \in Thread PROVE IndexThread(s)'
  <2>1. CASE s = t
    <3>1. call'[t].step \in TodoSteps => call'[t].id < g_next_todo_id'
      <4>1. ASSUME call'[t].step \in TodoSteps PROVE call'[t].id \in Id
        BY <4>1, TypeInv' DEF TypeInv, LocalsOK, LocalsFit, TodoSteps
      <4> QED BY <4>1, CounterGrows
    <3> QED BY <2>1, <3>1 DEF IndexThread, RowFits, MutatorSteps, CreateSteps, WriterSteps,
                              UpdateSteps, DeleteSteps
  <2>2. CASE s # t
    <3>1. call'[s] = call[s] /\ IndexThread(s) /\ NewTodo(s)' = NewTodo(s)
      BY <2>2 DEF OthersKept, IndexInv, NewTodo
    <3>2. Indexed(s)' = Indexed(s)
      BY <3>1 DEF Indexed
    <3>3. call[s].step \in TodoSteps => call[s].id < g_next_todo_id'
      BY <3>1, TodoIds, CounterGrows DEF IndexThread
    <3>4. call[s].step \in MutatorSteps => InStep(call[s].id, Indexed(s))'
      BY <3>1, <3>2 DEF IndexThread, InStep, Owned
    <3>5. RowFits(s)'
      BY <3>1 DEF IndexThread, RowFits, Owned
    <3> QED BY <3>1, <3>3, <3>4, <3>5 DEF IndexThread
  <2> QED BY <2>1, <2>2
<1> QED BY <1>1, <1>3, <1>4 DEF IndexInv

(***************************************************************************)
(* A POST, PUT or DELETE that goes on with its id or answers.              *)
(***************************************************************************)
Moves(t) ==
    /\ call'[t].step \in MutatorSteps /\ call'[t].id = call[t].id
    /\ call'[t].step \in CreateSteps <=> call[t].step \in CreateSteps
    /\ lock' = lock
    /\ InStep(call[t].id, Indexed(t))' /\ RowFits(t)'

(***************************************************************************)
(* The index shows what is stored under the id that a handler leaves.      *)
(***************************************************************************)
LeftInStep(t) ==
    \A u \in User : <<u, call[t].id>> \in idx' <=> g_index_ready' /\ Owned(rows'[call[t].id], u)

\* Such a step keeps the invariant.
LEMMA MutatorStep ==
  ASSUME TypeInv, IndexInv, TypeInv', NEW t \in Thread, OthersKept(t),
         call[t].step \in MutatorSteps,
         \A i \in Id \ {call[t].id} : rows'[i] = rows[i],
         \A u \in User, i \in Id \ {call[t].id} : <<u, i>> \in idx' <=> <<u, i>> \in idx,
         UNCHANGED <<g_index_ready, g_next_todo_id>>, lock' = lock \/ lock \in {Null, t},
         Moves(t) \/ (call'[t].step = "idle" /\ LeftInStep(t))
  PROVE  IndexInv'
<1>0. PICK id \in Id : id = call[t].id
  BY TodoIds, StepKinds
<1>1. id < g_next_todo_id /\ IndexThread(t)
  BY <1>0, StepKinds DEF IndexInv, IndexThread
<1>2. \A s \in Thread \ {t} : call[s].step \in MutatorSteps => call[s].id # id
  BY <1>0, MutatorsApart
<1>3. IndexThread(t)'
  <2>1. CASE Moves(t)
    <3>1. call'[t].step \in WriterSteps => lock' = t
      BY <1>1, <2>1, StepKinds DEF Moves, IndexThread, MutatorSteps
    <3> QED BY <1>0, <1>1, <2>1, <3>1 DEF Moves, IndexThread
  <2>2. CASE call'[t].step = "idle"
    BY <2>2, StepKinds DEF IndexThread, RowFits, MutatorSteps
  <2> QED BY <2>1, <2>2
<1>4. CreatesApart'
  <2>1. call'[t].step \in TodoSteps =>
           /\ call[t].step \in TodoSteps /\ call'[t].id = call[t].id
           /\ call'[t].step \in CreateSteps => call[t].step \in CreateSteps
    BY StepKinds DEF Moves
  <2> QED BY <2>1 DEF IndexInv, CreatesApart, OthersKept, TodoSteps
<1>5. call'[t].step \notin MutatorSteps => call'[t].step = "idle" /\ InStep(id, rows[id])'
  <2>1. ASSUME call'[t].step \notin MutatorSteps
        PROVE  call'[t].step = "idle" /\ LeftInStep(t)
    BY <2>1 DEF Moves
  <2> QED BY <1>0, <2>1 DEF LeftInStep, InStep, Owned
<1>6. call'[t].step \in MutatorSteps => call'[t].id = id
  BY <1>0, StepKinds DEF Moves
<1>7. g_next_todo_id' >= g_next_todo_id /\ id < g_next_todo_id'
  BY <1>1, StateTypes
<1> QED BY <1>0, <1>2, <1>3, <1>4, <1>5, <1>6, <1>7, IndexStep

-----------------------------------------------------------------------------
(***************************************************************************)
(* What the invariant says of a thread that changes a todo.                *)
(***************************************************************************)
LEMMA MutatorFacts ==
  ASSUME TypeInv, IndexInv, NEW t \in Thread, call[t].step \in MutatorSteps
  PROVE  /\ call[t].id \in Id /\ call[t].id < g_next_todo_id /\ call[t].user \in User
         /\ InStep(call[t].id, Indexed(t)) /\ RowFits(t)
         /\ call[t].step \in WriterSteps => lock = t
<1>1. call[t].id \in Id
  BY TodoIds, StepKinds
<1>2. call[t].user \in User
  BY StepKinds DEF TypeInv, LocalsOK, LocalsFit
<1> QED BY <1>1, <1>2, StepKinds DEF IndexInv, IndexThread

\* Every step of a POST keeps the index in step.
LEMMA IndexCreate ==
  ASSUME TypeInv, IndexInv, "delete" \notin Faults, NEW t \in Thread,
         CreateRequest(t) \/ Create(t)
  PROVE  IndexInv'
<1> USE DEF At, IdOf
<1>0. TypeInv'
  BY TypeCreate
<1>1. CASE CreateRequest(t)
  <2>0. /\ UNCHANGED <<rows, idx, g_index_ready, lock>> /\ g_next_todo_id' = g_next_todo_id + 1
        /\ call[t].step = "idle" /\ g_next_todo_id \in Id /\ g_next_todo_id' >= g_next_todo_id
    BY <1>1, StateTypes DEF CreateRequest
  <2>1. CASE UNCHANGED call
    <3>1. OthersKept(t) /\ CreatesApart'
      BY <2>1 DEF OthersKept, IndexInv, CreatesApart
    <3> QED BY <1>0, <2>0, <2>1, <3>1, StepKinds, BystanderStep
  <2>2. ASSUME NEW u \in User, NEW d \in Data, Request(t, "create_row", u, g_next_todo_id, d)
        PROVE  IndexInv'
    <3>1. PICK id \in Id : id = g_next_todo_id
      BY <2>0
    <3>2. OthersKept(t) /\ call'[t].step = "create_row" /\ call'[t].id = id
      <4>1. g_next_todo_id \in 0 .. MaxId
        BY <2>0 DEF Id
      <4> QED BY <2>2, <3>1, <4>1, RequestFacts DEF Steps, CreateSteps
    <3>3. \A s \in Thread : call[s].step \in TodoSteps => call[s].id \in Id /\ call[s].id < id
      BY <3>1, TodoIds DEF IndexInv, IndexThread
    <3>4. \A s \in Thread : call[s].step \in TodoSteps => call[s].id # id
      BY <3>3 DEF Id
    <3>5. rows[id] = Null /\ InStep(id, Null)
      BY <3>1, <3>4, StepKinds, StateTypes DEF IndexInv, Busy, MutatorSteps, Id
    <3>6. IndexThread(t)'
      <4>1. RowFits(t)'
        BY <2>0, <3>2, <3>5 DEF RowFits
      <4>2. InStep(id, Null)' /\ Indexed(t)' = Null
        BY <2>0, <3>2, <3>5 DEF InStep, Owned, Indexed
      <4>3. id < g_next_todo_id' /\ "create_row" \notin WriterSteps
        BY <2>0, <3>1 DEF Id, WriterSteps, UpdateSteps, DeleteSteps
      <4> QED BY <3>2, <4>1, <4>2, <4>3 DEF IndexThread
    <3>7. CreatesApart'
      BY <3>2, <3>4 DEF IndexInv, CreatesApart, OthersKept, TodoSteps
    <3>8. "create_row" \in MutatorSteps /\ call[t].step \notin MutatorSteps
      BY <2>0, StepKinds DEF MutatorSteps, CreateSteps
    <3>9. id < g_next_todo_id'
      BY <2>0, <3>1 DEF Id
    <3>10. \A s \in Thread \ {t} : call[s].step \in MutatorSteps => call[s].id # id
      BY <3>4, StepKinds
    <3> QED BY <1>0, <2>0, <3>2, <3>6, <3>7, <3>8, <3>9, <3>10, IndexStep
  <2> QED BY <1>1, <2>1, <2>2 DEF CreateRequest
<1>2. ASSUME call[t].step \in CreateSteps, UNCHANGED <<g_index_ready, g_next_todo_id, lock>>,
             OthersKept(t),
             \A i \in Id \ {call[t].id} : rows'[i] = rows[i],
             \A u \in User, i \in Id \ {call[t].id} : <<u, i>> \in idx' <=> <<u, i>> \in idx,
             Moves(t) \/ (call'[t].step = "idle" /\ LeftInStep(t))
      PROVE  IndexInv'
  BY <1>0, <1>2, MutatorStep DEF MutatorSteps
<1>3. CASE CreateRow(t)
  <2>0. /\ call[t].step = "create_row" /\ call[t].step \in CreateSteps
        /\ UNCHANGED <<idx, g_index_ready, g_next_todo_id, lock>>
    BY <1>3 DEF CreateRow, CreateSteps
  <2>1. InStep(call[t].id, Null) /\ rows[call[t].id] = Null /\ call[t].id \in Id
    BY <2>0, MutatorFacts DEF MutatorSteps, Indexed, RowFits
  <2>2. CASE InsertRowFails(call[t].id, "insert") /\ Answer(t)
    <3>1. UNCHANGED rows /\ OthersKept(t) /\ call'[t].step = "idle"
      BY <2>2, AnswerFacts DEF InsertRowFails
    <3>2. LeftInStep(t)
      BY <2>0, <2>1, <3>1 DEF LeftInStep, InStep, Owned
    <3> QED BY <1>2, <2>0, <3>1, <3>2
  <2>3. ASSUME InsertRow(call[t].id, NewTodo(t)),
               NEW step \in {"create_index", "create_cache"}, Goto(t, step),
               step = IF g_index_ready THEN "create_index" ELSE "create_cache"
        PROVE  IndexInv'
    <3>1. /\ OthersKept(t) /\ call'[t].step = step /\ call'[t].id = call[t].id
          /\ NewTodo(t)' = NewTodo(t)
      BY <2>3, GotoFacts DEF Steps, CreateSteps, NewTodo
    <3>2. /\ rows'[call[t].id] = NewTodo(t)
          /\ \A i \in Id \ {call[t].id} : rows'[i] = rows[i]
      BY <2>1, <2>3, StateTypes DEF InsertRow
    <3>3. InStep(call[t].id, Indexed(t))'
      BY <2>0, <2>1, <2>3, <3>1 DEF InStep, Indexed, Owned
    <3>4. RowFits(t)'
      BY <2>0, <2>3, <3>1, <3>2 DEF RowFits
    <3>5. Moves(t)
      BY <2>0, <3>1, <3>3, <3>4 DEF Moves, MutatorSteps, CreateSteps
    <3> QED BY <1>2, <2>0, <3>1, <3>2, <3>5
  <2> QED BY <1>3, <2>2, <2>3 DEF CreateRow
<1>4. CASE CreateIndex(t)
  <2>0. /\ call[t].step = "create_index" /\ call[t].step \in CreateSteps
        /\ UNCHANGED <<rows, g_index_ready, g_next_todo_id, lock>>
    BY <1>4 DEF CreateIndex, CreateSteps
  <2>1. /\ InStep(call[t].id, Null) /\ rows[call[t].id] = NewTodo(t) /\ g_index_ready
        /\ call[t].id \in Id /\ call[t].user \in User
    BY <2>0, MutatorFacts DEF MutatorSteps, Indexed, RowFits
  <2>2. ASSUME NEW step \in {"create_cache", "create_undo"}, Goto(t, step)
        PROVE  /\ OthersKept(t) /\ call'[t].step = step /\ call'[t].id = call[t].id
               /\ NewTodo(t)' = NewTodo(t) /\ RowFits(t)'
    <3>1. /\ OthersKept(t) /\ call'[t].step = step /\ call'[t].id = call[t].id
          /\ NewTodo(t)' = NewTodo(t)
      BY <2>2, GotoFacts DEF Steps, CreateSteps, NewTodo
    <3> QED BY <2>0, <2>1, <3>1 DEF RowFits
  <2>3. CASE IndexInsert(call[t].user, call[t].id) /\ Goto(t, "create_cache")
    <3>1. idx' = idx \cup {<<call[t].user, call[t].id>>}
      BY <2>3 DEF IndexInsert
    <3>2. NewTodo(t).user = call[t].user /\ NewTodo(t) # Null
      BY <2>0, NewTodoType, NullAssumption DEF NewTodo
    <3>3. InStep(call[t].id, Indexed(t))'
      BY <2>0, <2>1, <2>2, <2>3, <3>1, <3>2 DEF InStep, Indexed, Owned
    <3>4. Moves(t)
      BY <2>0, <2>2, <2>3, <3>3 DEF Moves, MutatorSteps, CreateSteps
    <3> QED BY <1>2, <2>0, <2>2, <2>3, <3>1, <3>4
  <2>4. CASE IndexInsertFails(call[t].user, call[t].id) /\ Goto(t, "create_undo")
    <3>1. idx' = idx
      BY <2>4 DEF IndexInsertFails
    <3>2. InStep(call[t].id, Indexed(t))'
      BY <2>0, <2>1, <2>2, <2>4, <3>1 DEF InStep, Indexed, Owned
    <3>3. Moves(t)
      BY <2>0, <2>2, <2>4, <3>2 DEF Moves, MutatorSteps, CreateSteps
    <3> QED BY <1>2, <2>0, <2>2, <2>4, <3>1, <3>3
  <2> QED BY <1>4, <2>3, <2>4 DEF CreateIndex
<1>5. CASE CreateUndo(t)
  <2>0. /\ call[t].step = "create_undo" /\ call[t].step \in CreateSteps /\ Answer(t)
        /\ UNCHANGED <<idx, g_index_ready, g_next_todo_id, lock>>
    BY <1>5 DEF CreateUndo, CreateSteps
  <2>1. InStep(call[t].id, Null) /\ rows[call[t].id] = NewTodo(t) /\ call[t].id \in Id
    BY <2>0, MutatorFacts DEF MutatorSteps, Indexed, RowFits
  <2>2. DeleteRow(call[t].id)
    BY <1>5, <2>0, <2>1, NewTodoType, NullAssumption DEF CreateUndo, DeleteRowFails, MayFail
  <2>3. /\ rows'[call[t].id] = Null
        /\ \A i \in Id \ {call[t].id} : rows'[i] = rows[i]
    BY <2>1, <2>2, StateTypes DEF DeleteRow
  <2>4. LeftInStep(t)
    BY <2>0, <2>1, <2>3 DEF LeftInStep, InStep, Owned
  <2> QED BY <1>2, <2>0, <2>3, <2>4, AnswerFacts
<1>6. CASE CreateCache(t)
  <2>0. /\ call[t].step = "create_cache" /\ call[t].step \in CreateSteps /\ Answer(t)
        /\ UNCHANGED <<rows, idx, g_index_ready, g_next_todo_id, lock>>
    BY <1>6 DEF CreateCache, CreateSteps
  <2>1. InStep(call[t].id, rows[call[t].id])
    BY <2>0, MutatorFacts DEF MutatorSteps, Indexed
  <2>2. LeftInStep(t)
    BY <2>0, <2>1 DEF LeftInStep, InStep, Owned
  <2> QED BY <1>2, <2>0, <2>2, AnswerFacts
<1> QED BY <1>1, <1>3, <1>4, <1>5, <1>6 DEF Create

-----------------------------------------------------------------------------
(***************************************************************************)
(* A GET, PUT or DELETE names an id that no POST is working on.            *)
(***************************************************************************)
LEMMA NamingApart ==
  ASSUME KnownIdsOnly, TypeInv, IndexInv, NEW t \in Thread, call[t].step = "idle", OthersKept(t),
         call'[t].step \in TodoSteps \ CreateSteps, NEW i \in Addressable, call'[t].id = i
  PROVE  CreatesApart'
BY NamedId DEF IndexInv, CreatesApart, OthersKept, TodoSteps

\* Every step of a GET of one todo leaves the index alone.
LEMMA IndexGet ==
  ASSUME TypeInv, IndexInv, KnownIdsOnly, NEW t \in Thread, GetRequest(t) \/ GetTodo(t)
  PROVE  IndexInv'
<1> USE DEF At, IdOf
<1>0. /\ TypeInv' /\ UNCHANGED <<rows, idx, g_index_ready, lock, g_next_todo_id>>
      /\ g_next_todo_id' >= g_next_todo_id
  BY TypeGet, StateTypes DEF GetRequest, GetTodo, GetGeneration, GetRow, GetFill
<1>1. call[t].step \in GetSteps \cup {"idle"}
  BY DEF GetRequest, GetTodo, GetGeneration, GetRow, GetFill, GetSteps
<1>2. ASSUME OthersKept(t), call'[t].step \notin MutatorSteps,
             call'[t].step \in TodoSteps => call'[t].id < g_next_todo_id, CreatesApart'
      PROVE  IndexInv'
  BY <1>0, <1>1, <1>2, StepKinds, BystanderStep
<1>3. ASSUME OthersKept(t), call'[t].step \in {"idle"} \cup GetSteps,
             call'[t].step \in GetSteps => call[t].step \in GetSteps /\ call'[t].id = call[t].id
      PROVE  IndexInv'
  <2>1. CreatesApart'
    BY <1>1, <1>3, StepKinds DEF IndexInv, CreatesApart, OthersKept, TodoSteps, MutatorSteps
  <2>2. call'[t].step \in TodoSteps => call'[t].id < g_next_todo_id
    BY <1>1, <1>3, StepKinds DEF IndexInv, IndexThread
  <2>3. call'[t].step \notin MutatorSteps
    BY <1>3, StepKinds
  <2> QED BY <1>2, <1>3, <2>1, <2>2, <2>3
<1>4. CASE Answer(t)
  BY <1>3, <1>4, AnswerFacts, StepKinds DEF GetSteps
<1>5. CASE UNCHANGED call
  BY <1>1, <1>3, <1>5 DEF OthersKept
<1>6. ASSUME NEW u \in User, NEW i \in Addressable, call[t].step = "idle",
             Request(t, "get_generation", u, i, Null)
      PROVE  IndexInv'
  <2>1. OthersKept(t) /\ call'[t].step = "get_generation" /\ call'[t].id = i
    BY <1>6, RequestFacts, NamedId DEF Steps, GetSteps
  <2>2. "get_generation" \in TodoSteps \ CreateSteps /\ "get_generation" \notin MutatorSteps
    BY StepKinds DEF TodoSteps, GetSteps, CreateSteps
  <2>3. CreatesApart'
    BY <1>6, <2>1, <2>2, NamingApart
  <2> QED BY <1>2, <1>6, <2>1, <2>2, <2>3, NamedId
<1>7. CASE call' = [call EXCEPT ![t].step = "get_row", ![t].generation = g_todo_cache.generation]
           /\ call[t].step = "get_generation"
  <2>1. call[t] \in Calls
    BY DEF TypeInv, TypeOK
  <2>2. OthersKept(t) /\ call'[t].step = "get_row" /\ call'[t].id = call[t].id
    BY <1>7, <2>1 DEF Calls, OthersKept, TypeInv, TypeOK
  <2> QED BY <1>3, <1>7, <2>2 DEF GetSteps
<1>8. CASE call' = [call EXCEPT ![t].step = "get_fill", ![t].row = rows[call[t].id]]
           /\ call[t].step = "get_row"
  <2>1. OthersKept(t) /\ call'[t].step = "get_fill" /\ call'[t].id = call[t].id
    BY <1>8, ReadFacts, ZenonT(40) DEF Steps, GetSteps
  <2> QED BY <1>3, <1>8, <2>1 DEF GetSteps
<1>9. CASE GetRequest(t)
  BY <1>5, <1>6, <1>9 DEF GetRequest
<1>10. CASE GetTodo(t)
  BY <1>4, <1>7, <1>8, <1>10 DEF GetTodo, GetGeneration, GetRow, GetFill
<1> QED BY <1>9, <1>10

\* Every step of a listing leaves the index alone.
LEMMA IndexList ==
  ASSUME TypeInv, IndexInv, NEW t \in Thread, ListRequest(t) \/ ListTodos(t)
  PROVE  IndexInv'
<1> USE DEF At, IdOf
<1>0. TypeInv' /\ UNCHANGED <<rows, idx, g_index_ready, lock, g_next_todo_id>>
      /\ call[t].step \in ListSteps \cup {"idle"}
  BY TypeList, ZenonT(40) DEF ListRequest, ListTodos, ListIndex, ListRows, ListAll, ListAnswer, ListSteps
<1>1. ASSUME OthersKept(t), call'[t].step \in ListSteps \cup {"idle"} PROVE IndexInv'
  <2>1. CreatesApart'
    BY <1>1, StepKinds DEF IndexInv, CreatesApart, OthersKept, TodoSteps
  <2>2. g_next_todo_id' >= g_next_todo_id
    BY <1>0, StateTypes
  <2> QED BY <1>0, <1>1, <2>1, <2>2, StepKinds, BystanderStep
<1>2. CASE UNCHANGED call
  BY <1>0, <1>1, <1>2 DEF OthersKept
<1>3. ASSUME NEW step \in ListSteps, Goto(t, step) PROVE IndexInv'
  BY <1>1, <1>3, GotoFacts, ZenonT(40) DEF Steps
<1>4. CASE Answer(t)
  BY <1>1, <1>4, AnswerFacts
<1>5. ASSUME NEW u \in User, NEW step \in {"list_index", "list_all"}, Request(t, step, u, 0, Null)
      PROVE  IndexInv'
  <2>1. OthersKept(t) /\ call'[t].step = step
    BY <1>5, RequestFacts, MaxIdAssumption DEF Steps, ListSteps
  <2> QED BY <1>1, <2>1 DEF ListSteps
<1>6. CASE ListRequest(t)
  BY <1>5, <1>6 DEF ListRequest
<1>7. CASE ListTodos(t)
  BY <1>2, <1>3, <1>4, <1>7, ZenonT(40) DEF ListTodos, ListIndex, ListRows, ListAll, ListAnswer, ScanFails, ListSteps
<1> QED BY <1>6, <1>7

-----------------------------------------------------------------------------
(***************************************************************************)
(* A PUT or DELETE takes the lock, so nobody else is changing its todo.    *)
(***************************************************************************)
LEMMA IndexWriteRequest ==
  ASSUME TypeInv, IndexInv, TypeInv', KnownIdsOnly, NEW t \in Thread, call[t].step = "idle",
         NEW step \in {"update_search", "delete_search"},
         NEW u \in User, NEW i \in Addressable, NEW d \in Data \cup {Null},
         Request(t, step, u, i, d), lock = Null, lock' = t,
         UNCHANGED <<rows, idx, g_index_ready, g_next_todo_id>>
  PROVE  IndexInv'
<1>1. OthersKept(t) /\ call'[t].step = step /\ call'[t].id = i
  BY RequestFacts, NamedId DEF Steps, WriterSteps, UpdateSteps, DeleteSteps
<1>2. PICK id \in Id : id = i
  BY NamedId
<1>3. step \in MutatorSteps /\ step \in TodoSteps \ CreateSteps /\ call[t].step \notin MutatorSteps
  BY StepKinds DEF MutatorSteps, WriterSteps, UpdateSteps, DeleteSteps
<1>4. \A s \in Thread : call[s].step \in MutatorSteps => call[s].id # id
  BY <1>2, NamedId, NullAssumption DEF MutatorSteps, IndexInv, IndexThread
<1>5. InStep(id, rows[id])
  BY <1>4 DEF IndexInv, Busy, IdOf, MutatorSteps
<1>6. IndexThread(t)'
  <2>1. Indexed(t)' = rows'[id] /\ RowFits(t)'
    BY <1>1, <1>2 DEF Indexed, RowFits
  <2>2. InStep(id, Indexed(t))'
    BY <1>5, <2>1 DEF InStep, Owned
  <2> QED BY <1>1, <1>2, <2>1, <2>2, NamedId DEF IndexThread
<1>7. CreatesApart'
  BY <1>1, <1>3, NamingApart, ZenonT(60)
<1>8. id < g_next_todo_id' /\ g_next_todo_id' >= g_next_todo_id
  BY <1>2, NamedId, StateTypes
<1> QED BY <1>1, <1>2, <1>3, <1>4, <1>6, <1>7, <1>8, IndexStep

\* A PUT or DELETE that answers leaves what it found in step.
LEMMA IndexAnswer ==
  ASSUME TypeInv, IndexInv, TypeInv', NEW t \in Thread, call[t].step \in WriterSteps, Unlock(t),
         \A i \in Id \ {call[t].id} : rows'[i] = rows[i],
         UNCHANGED <<idx, g_index_ready, g_next_todo_id>>,
         InStep(call[t].id, rows'[call[t].id])
  PROVE  IndexInv'
<1>1. OthersKept(t) /\ call'[t].step = "idle" /\ lock = t
  BY AnswerFacts, MutatorFacts, ZenonT(40) DEF Unlock, MutatorSteps
<1>2. LeftInStep(t)
  BY DEF LeftInStep, InStep
<1> QED BY <1>1, <1>2, MutatorStep, ZenonT(40) DEF MutatorSteps

\* A PUT or DELETE that goes on with its locals unchanged.
LEMMA IndexGoesOn ==
  ASSUME TypeInv, IndexInv, TypeInv', NEW t \in Thread, call[t].step \in WriterSteps,
         NEW step \in WriterSteps, Goto(t, step),
         \A i \in Id \ {call[t].id} : rows'[i] = rows[i],
         \A u \in User, i \in Id \ {call[t].id} : <<u, i>> \in idx' <=> <<u, i>> \in idx,
         UNCHANGED <<g_index_ready, g_next_todo_id, lock>>,
         InStep(call[t].id, Indexed(t))', RowFits(t)'
  PROVE  IndexInv'
<1>1. OthersKept(t) /\ call'[t].step = step /\ call'[t].id = call[t].id
  BY GotoFacts, ZenonT(40) DEF Steps
<1>2. Moves(t)
  BY <1>1, StepKinds, ZenonT(60) DEF Moves, MutatorSteps
<1> QED BY <1>1, <1>2, MutatorStep, ZenonT(60) DEF MutatorSteps

(***************************************************************************)
(* The ownership check that PUT and DELETE begin with.                     *)
(***************************************************************************)
LEMMA IndexSearch ==
  ASSUME TypeInv, IndexInv, TypeInv', NEW t \in Thread,
         call[t].step \in {"update_search", "delete_search"},
         NEW step \in {"update_delete", "delete_index", "delete_row"},
         step = "delete_index" => g_index_ready, step = "delete_row" => ~g_index_ready,
         SearchOwned(t, step)
  PROVE  IndexInv'
<1> USE DEF IdOf
<1>0. call[t].step \in WriterSteps /\ UNCHANGED <<rows, idx, g_index_ready, g_next_todo_id>>
  BY DEF WriterSteps, UpdateSteps, DeleteSteps, SearchOwned
<1>1. InStep(call[t].id, rows[call[t].id]) /\ call[t].id \in Id
  BY <1>0, MutatorFacts DEF MutatorSteps, Indexed
<1>2. CASE Unlock(t)
  BY <1>0, <1>1, <1>2, IndexAnswer
<1>3. CASE /\ call' = [call EXCEPT ![t].step = step, ![t].row = rows[call[t].id]]
           /\ UNCHANGED lock /\ Owned(rows[call[t].id], call[t].user)
  <2>1. /\ OthersKept(t) /\ call'[t].step = step /\ call'[t].id = call[t].id
        /\ call'[t].row = rows[call[t].id] /\ call'[t].user = call[t].user
    BY <1>3, ReadFacts, ZenonT(40) DEF Steps, WriterSteps, UpdateSteps, DeleteSteps
  <2>2. RowFits(t)'
    BY <1>0, <1>3, <2>1 DEF RowFits, Owned
  <2>3. InStep(call[t].id, Indexed(t))'
    <3>1. CASE step = "delete_row"
      BY <1>0, <1>1, <2>1, <3>1 DEF InStep, Indexed, Owned
    <3>2. CASE step # "delete_row"
      <4>1. Indexed(t)' = rows[call[t].id]
        BY <1>0, <2>1, <3>2 DEF Indexed
      <4> QED BY <1>0, <1>1, <2>1, <4>1 DEF InStep, Owned
    <3> QED BY <3>1, <3>2
  <2>4. Moves(t)
    BY <1>0, <1>3, <2>1, <2>2, <2>3, StepKinds DEF Moves, MutatorSteps, CreateSteps, WriterSteps,
       UpdateSteps, DeleteSteps
  <2> QED BY <1>0, <1>3, <2>1, <2>4, MutatorStep DEF MutatorSteps
<1> QED BY <1>2, <1>3 DEF SearchOwned

(***************************************************************************)
(* Every step of a PUT keeps the index in step: it writes the index        *)
(* nowhere, because the row it puts back has the same owner.               *)
(***************************************************************************)
LEMMA IndexUpdate ==
  ASSUME TypeInv, IndexInv, KnownIdsOnly, "delete" \notin Faults, "restore" \notin Faults,
         NEW t \in Thread, UpdateRequest(t) \/ Update(t)
  PROVE  IndexInv'
<1> USE DEF At, IdOf
<1>0. TypeInv'
  BY TypeUpdate
<1>1. CASE UpdateRequest(t)
  <2> PICK u \in User, i \in Addressable, d \in Data : Request(t, "update_search", u, i, d)
    BY <1>1 DEF UpdateRequest
  <2>1. call[t].step = "idle" /\ d \in Data \cup {Null} /\ lock = Null /\ lock' = t
        /\ UNCHANGED <<rows, idx, g_index_ready, g_next_todo_id>>
    BY <1>1 DEF UpdateRequest
  <2>2. "update_search" \in {"update_search", "delete_search"}
    OBVIOUS
  <2> QED BY <1>0, <2>1, <2>2, IndexWriteRequest
<1>2. CASE UpdateSearch(t)
  BY <1>0, <1>2, IndexSearch DEF UpdateSearch
<1>3. CASE UpdateDelete(t)
  <2>0. /\ call[t].step = "update_delete" /\ call[t].step \in WriterSteps
        /\ "update_insert" \in WriterSteps
        /\ UNCHANGED <<idx, g_index_ready, g_next_todo_id>>
    BY <1>3 DEF UpdateDelete, WriterSteps, UpdateSteps
  <2>1. /\ InStep(call[t].id, rows[call[t].id]) /\ call[t].id \in Id
        /\ rows[call[t].id] = call[t].row /\ Owned(call[t].row, call[t].user)
    BY <2>0, MutatorFacts DEF MutatorSteps, Indexed, RowFits
  <2>2. DeleteRow(call[t].id) /\ Goto(t, "update_insert") /\ UNCHANGED lock
    BY <1>3, <2>1, ZenonT(40) DEF UpdateDelete, DeleteRowFails, MayFail, Owned
  <2>3. /\ rows'[call[t].id] = Null
        /\ \A i \in Id \ {call[t].id} : rows'[i] = rows[i]
    BY <2>1, <2>2, StateTypes DEF DeleteRow
  <2>4. /\ call'[t].step = "update_insert" /\ call'[t].id = call[t].id
        /\ call'[t].row = call[t].row /\ call'[t].user = call[t].user
    BY <2>2, GotoFacts, ZenonT(60) DEF Steps, WriterSteps, UpdateSteps
  <2>5. InStep(call[t].id, Indexed(t))'
    BY <2>0, <2>1, <2>4, ZenonT(60) DEF InStep, Indexed, Owned
  <2>6. RowFits(t)'
    BY <2>1, <2>3, <2>4 DEF RowFits, Owned
  <2> QED BY <1>0, <2>0, <2>2, <2>3, <2>5, <2>6, IndexGoesOn
<1>4. CASE UpdateInsert(t)
  <2>0. /\ call[t].step = "update_insert" /\ call[t].step \in WriterSteps
        /\ UNCHANGED <<idx, g_index_ready, g_next_todo_id, lock>>
    BY <1>4 DEF UpdateInsert, WriterSteps, UpdateSteps
  <2>1. /\ InStep(call[t].id, call[t].row) /\ call[t].id \in Id
        /\ rows[call[t].id] = Null /\ Owned(call[t].row, call[t].user)
    BY <2>0, MutatorFacts DEF MutatorSteps, Indexed, RowFits
  <2>2. ASSUME NEW step \in {"update_cache", "update_restore"}, Goto(t, step)
        PROVE  /\ call'[t].step = step /\ call'[t].id = call[t].id /\ step \in WriterSteps
               /\ call'[t].row = call[t].row /\ call'[t].user = call[t].user
    BY <2>2, GotoFacts DEF Steps, WriterSteps, UpdateSteps
  <2>3. CASE InsertRow(call[t].id, NewTodo(t)) /\ Goto(t, "update_cache")
    <3>1. /\ rows'[call[t].id] = NewTodo(t)
          /\ \A i \in Id \ {call[t].id} : rows'[i] = rows[i]
      BY <2>1, <2>3, StateTypes DEF InsertRow
    <3>2. NewTodo(t).user = call[t].user /\ NewTodo(t) # Null
      BY <2>0, NewTodoType, NullAssumption DEF NewTodo, UpdateSteps
    <3>3. InStep(call[t].id, Indexed(t))'
      <4>1. Indexed(t)' = rows'[call[t].id]
        BY <2>2, <2>3 DEF Indexed
      <4> QED BY <2>0, <2>1, <2>2, <2>3, <3>1, <3>2, <4>1 DEF InStep, Owned
    <3>4. RowFits(t)'
      BY <2>2, <2>3 DEF RowFits
    <3> QED BY <1>0, <2>0, <2>2, <2>3, <3>1, <3>3, <3>4, IndexGoesOn, ZenonT(40)
  <2>4. CASE InsertRowFails(call[t].id, "insert") /\ Goto(t, "update_restore")
    <3>1. UNCHANGED rows
      BY <2>4 DEF InsertRowFails
    <3>2. InStep(call[t].id, Indexed(t))'
      BY <2>0, <2>1, <2>2, <2>4 DEF InStep, Indexed, Owned
    <3>3. RowFits(t)'
      BY <2>1, <2>2, <2>4, <3>1 DEF RowFits, Owned
    <3> QED BY <1>0, <2>0, <2>2, <2>4, <3>1, <3>2, <3>3, IndexGoesOn
  <2> QED BY <1>4, <2>3, <2>4, ZenonT(60) DEF UpdateInsert
<1>5. CASE UpdateRestore(t)
  <2>0. /\ call[t].step = "update_restore" /\ call[t].step \in WriterSteps
        /\ UNCHANGED <<idx, g_index_ready, g_next_todo_id>>
    BY <1>5 DEF UpdateRestore, WriterSteps, UpdateSteps
  <2>1. InStep(call[t].id, call[t].row) /\ call[t].id \in Id /\ rows[call[t].id] = Null
    BY <2>0, MutatorFacts DEF MutatorSteps, Indexed, RowFits
  <2>2. InsertRow(call[t].id, call[t].row) /\ Unlock(t)
    BY <1>5, <2>1 DEF UpdateRestore, InsertRowFails, MayFail
  <2>3. /\ rows'[call[t].id] = call[t].row
        /\ \A i \in Id \ {call[t].id} : rows'[i] = rows[i]
    BY <2>1, <2>2, StateTypes DEF InsertRow
  <2> QED BY <1>0, <2>0, <2>1, <2>2, <2>3, IndexAnswer
<1>6. CASE UpdateDrop(t)
  <2>1. call[t].step = "update_drop" /\ "update_drop" \in MutatorSteps
    BY <1>6 DEF UpdateDrop, MutatorSteps, WriterSteps, UpdateSteps
  <2> QED BY <2>1, MutatorFacts DEF RowFits
<1>7. CASE UpdateCache(t)
  <2>0. /\ call[t].step = "update_cache" /\ call[t].step \in WriterSteps /\ Unlock(t)
        /\ UNCHANGED <<rows, idx, g_index_ready, g_next_todo_id>>
    BY <1>7 DEF UpdateCache, WriterSteps, UpdateSteps
  <2>1. InStep(call[t].id, rows[call[t].id])
    BY <2>0, MutatorFacts DEF MutatorSteps, Indexed
  <2> QED BY <1>0, <2>0, <2>1, IndexAnswer
<1> QED BY <1>1, <1>2, <1>3, <1>4, <1>5, <1>6, <1>7 DEF Update

\* Every step of a DELETE keeps the index in step.
LEMMA IndexDeletes ==
  ASSUME TypeInv, IndexInv, KnownIdsOnly, "delete" \notin Faults, NEW t \in Thread,
         DeleteRequest(t) \/ Delete(t)
  PROVE  IndexInv'
<1> USE DEF At, IdOf
<1>0. TypeInv'
  BY TypeDelete
<1>1. CASE DeleteRequest(t)
  <2> PICK u \in User, i \in Addressable : Request(t, "delete_search", u, i, Null)
    BY <1>1 DEF DeleteRequest
  <2>1. call[t].step = "idle" /\ Null \in Data \cup {Null} /\ lock = Null /\ lock' = t
        /\ UNCHANGED <<rows, idx, g_index_ready, g_next_todo_id>>
    BY <1>1 DEF DeleteRequest
  <2>2. "delete_search" \in {"update_search", "delete_search"}
    OBVIOUS
  <2> QED BY <1>0, <2>1, <2>2, IndexWriteRequest
<1>2. CASE DeleteSearch(t)
  BY <1>0, <1>2, IndexSearch DEF DeleteSearch
<1>3. CASE DeleteIndex(t)
  <2>0. /\ call[t].step = "delete_index" /\ call[t].step \in WriterSteps
        /\ "delete_row" \in WriterSteps /\ Goto(t, "delete_row")
        /\ UNCHANGED <<rows, g_index_ready, g_next_todo_id, lock>>
    BY <1>3 DEF DeleteIndex, WriterSteps, DeleteSteps
  <2>1. /\ InStep(call[t].id, rows[call[t].id]) /\ call[t].id \in Id
        /\ rows[call[t].id] = call[t].row /\ Owned(call[t].row, call[t].user)
    BY <2>0, MutatorFacts DEF MutatorSteps, Indexed, RowFits
  <2>2. idx' = idx \ {<<call[t].user, call[t].id>>}
    BY <1>3 DEF DeleteIndex, IndexDelete, IndexDeleteFails, MayFail
  <2>3. call'[t].step = "delete_row" /\ call'[t].id = call[t].id
    BY <2>0, GotoFacts DEF Steps
  <2>4. InStep(call[t].id, Indexed(t))'
    BY <2>0, <2>1, <2>2, <2>3 DEF InStep, Indexed, Owned
  <2>5. RowFits(t)'
    BY <2>0, <2>1, <2>3 DEF RowFits, Owned
  <2> QED BY <1>0, <2>0, <2>2, <2>4, <2>5, IndexGoesOn
<1>4. CASE DeleteTodo(t)
  <2>0. /\ call[t].step = "delete_row" /\ call[t].step \in WriterSteps
        /\ "delete_drop" \in WriterSteps /\ Goto(t, "delete_drop")
        /\ UNCHANGED <<idx, g_index_ready, g_next_todo_id, lock>>
    BY <1>4 DEF DeleteTodo, WriterSteps, DeleteSteps
  <2>1. InStep(call[t].id, Null) /\ call[t].id \in Id /\ rows[call[t].id] # Null
    BY <2>0, MutatorFacts DEF MutatorSteps, Indexed, RowFits
  <2>2. DeleteRow(call[t].id)
    BY <1>4, <2>1 DEF DeleteTodo, DeleteRowFails, MayFail
  <2>3. /\ rows'[call[t].id] = Null
        /\ \A i \in Id \ {call[t].id} : rows'[i] = rows[i]
    BY <2>1, <2>2, StateTypes DEF DeleteRow
  <2>4. call'[t].step = "delete_drop" /\ call'[t].id = call[t].id
    BY <2>0, GotoFacts DEF Steps
  <2>5. InStep(call[t].id, Indexed(t))'
    BY <2>0, <2>1, <2>4 DEF InStep, Indexed, Owned
  <2>6. RowFits(t)'
    BY <2>3, <2>4 DEF RowFits
  <2> QED BY <1>0, <2>0, <2>3, <2>5, <2>6, IndexGoesOn
<1>5. CASE DeleteDrop(t)
  <2>0. /\ call[t].step = "delete_drop" /\ call[t].step \in WriterSteps /\ Unlock(t)
        /\ UNCHANGED <<rows, idx, g_index_ready, g_next_todo_id>>
    BY <1>5 DEF DeleteDrop, DropCached, WriterSteps, DeleteSteps
  <2>1. InStep(call[t].id, rows[call[t].id])
    BY <2>0, MutatorFacts DEF MutatorSteps, Indexed, RowFits
  <2> QED BY <1>0, <2>0, <2>1, IndexAnswer
<1> QED BY <1>1, <1>2, <1>3, <1>4, <1>5 DEF Delete

-----------------------------------------------------------------------------
\* The reconcile at startup leaves the index in step with the rows.
LEMMA IndexInit == Init => IndexInv
<1> SUFFICES ASSUME Init PROVE IndexInv
  OBVIOUS
<1>1. \A t \in Thread : call[t].step = "idle"
  BY DEF Init, Idle
<1>2. CreatesApart /\ \A t \in Thread : IndexThread(t)
  BY <1>1, StepKinds DEF CreatesApart, IndexThread, RowFits, TodoSteps, MutatorSteps
<1>3. ASSUME NEW i \in Id PROVE InStep(i, rows[i])
  <2>1. \A u \in User : <<u, i>> \in OwnerPairs <=> Owned(rows[i], u)
    BY NullAssumption DEF OwnerPairs, Owned
  <2> QED BY <2>1 DEF Init, InStep
<1> QED BY <1>2, <1>3 DEF Init, IndexInv

\* It holds when nothing changes.
LEMMA IndexStutter == IndexInv /\ UNCHANGED vars => IndexInv'
<1> SUFFICES ASSUME IndexInv, UNCHANGED vars PROVE IndexInv'
  OBVIOUS
<1>1. UNCHANGED <<rows, idx, g_index_ready, g_next_todo_id, lock, call>>
  BY DEF vars
<1>2. \A i, r : InStep(i, r)' <=> InStep(i, r)
  BY <1>1 DEF InStep, Owned
<1>3. CreatesApart' /\ \A i \in Id : Busy(i)' <=> Busy(i)
  BY <1>1 DEF IndexInv, CreatesApart, Busy, IdOf
<1>4. ASSUME NEW t \in Thread PROVE IndexThread(t)'
  <2>1. Indexed(t)' = Indexed(t) /\ NewTodo(t)' = NewTodo(t) /\ IndexThread(t)
    BY <1>1, <1>4 DEF Indexed, NewTodo, IndexInv
  <2>2. RowFits(t)'
    BY <1>1, <2>1, ZenonT(60) DEF IndexThread, RowFits, Owned
  <2>3. call[t].step \in MutatorSteps => InStep(call[t].id, Indexed(t))'
    BY <1>1, <2>1 DEF IndexThread, InStep, Owned
  <2> QED BY <1>1, <2>1, <2>2, <2>3 DEF IndexThread
<1>5. ASSUME NEW i \in Id, ~Busy(i)' PROVE InStep(i, rows[i])'
  <2>1. InStep(i, rows[i])
    BY <1>3, <1>5 DEF IndexInv
  <2> QED BY <1>1, <2>1 DEF InStep, Owned
<1> QED BY <1>1, <1>3, <1>4, <1>5 DEF IndexInv

\* The invariant holds throughout.
LEMMA IndexInvAlways ==
  ASSUME KnownIdsOnly, "delete" \notin Faults, "restore" \notin Faults
  PROVE  Spec => [](TypeInv /\ IndexInv)
<1>1. Init => TypeInv /\ IndexInv
  BY TypeInit, IndexInit
<1>2. TypeInv /\ IndexInv /\ [Next]_vars => (TypeInv /\ IndexInv)'
  <2> SUFFICES ASSUME TypeInv, IndexInv, [Next]_vars PROVE TypeInv' /\ IndexInv'
    OBVIOUS
  <2>1. CASE UNCHANGED vars
    BY <2>1, TypeStutter, IndexStutter
  <2>2. ASSUME NEW t \in Thread, Accept(t) \/ Step(t) PROVE TypeInv' /\ IndexInv'
    <3>1. CASE CreateRequest(t) \/ Create(t)
      BY <3>1, TypeCreate, IndexCreate
    <3>2. CASE GetRequest(t) \/ GetTodo(t)
      BY <3>2, TypeGet, IndexGet
    <3>3. CASE UpdateRequest(t) \/ Update(t)
      BY <3>3, TypeUpdate, IndexUpdate
    <3>4. CASE DeleteRequest(t) \/ Delete(t)
      BY <3>4, TypeDelete, IndexDeletes
    <3>5. CASE ListRequest(t) \/ ListTodos(t)
      BY <3>5, TypeList, IndexList
    <3> QED BY <2>2, <3>1, <3>2, <3>3, <3>4, <3>5 DEF Accept, Step
  <2> QED BY <2>1, <2>2 DEF Next
<1> QED BY <1>1, <1>2, PTL DEF Spec

(***************************************************************************)
(* A stored todo that no handler is working on is in its owner's index,    *)
(* although row and entry are written by separate calls that may fail and  *)
(* a POST takes no lock.  It rests on storage deletes succeeding (the      *)
(* result of the one in todo_delete_handler is ignored) and on clients not *)
(* naming an id before its POST is answered.                               *)
(***************************************************************************)
THEOREM StoredStaysListed ==
  ASSUME KnownIdsOnly, "delete" \notin Faults, "restore" \notin Faults
  PROVE  Spec => []StoredTodosListed
<1>1. TypeInv /\ IndexInv => StoredTodosListed
  BY DEF TypeInv, TypeOK, IndexInv, InStep, StoredTodosListed, Owned, Todo
<1> QED BY <1>1, IndexInvAlways, PTL

(***************************************************************************)
(* An index entry that no handler is working on has its row: the order of  *)
(* the two writes in each handler leaves no entry behind, whichever insert *)
(* fails.                                                                  *)
(***************************************************************************)
THEOREM EntriesKeepRows ==
  ASSUME KnownIdsOnly, "delete" \notin Faults, "restore" \notin Faults
  PROVE  Spec => []EntriesHaveRows
<1>1. TypeInv /\ IndexInv => EntriesHaveRows
  BY DEF TypeInv, TypeOK, IndexInv, InStep, EntriesHaveRows
<1> QED BY <1>1, IndexInvAlways, PTL
=============================================================================
