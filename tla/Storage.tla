------------------------------ MODULE Storage -------------------------------
(***************************************************************************)
(* The storage engine below the B-tree: the buffer pool and the page       *)
(* allocator of pager.c, the transactions of txn.c, the log of wal.c (Wal) *)
(* and the life cycle of engine.c, under threads that use pages the way    *)
(* db.c does, with failing I/O, clean restarts and crashes of the process. *)
(*                                                                         *)
(* A page is abstracted to the set of changes made to it.  A change is the *)
(* insertion or removal of a pair, logged before the page is touched, or   *)
(* part of a split, which is not logged.  Which pages a descent visits is  *)
(* the B-tree's business (Btree); here it visits any page in use.          *)
(***************************************************************************)
EXTENDS Integers, Sequences, FiniteSets

CONSTANTS
    Thread,         \* pool threads that run handlers
    FrameCount,     \* BUFFER_POOL_SIZE
    MaxPage,        \* the highest page id, MAX_PAGES - 1
    WalBufferSize,  \* records that fit into wal_buffer
    MaxChange,      \* bound on the changes made to pages
    MaxTxn,         \* bound on the transactions begun
    MaxRestart,     \* bound on the restarts
    OldPages,       \* the numbers of pages the data file may start with
    Faults          \* the kinds of calls that may fail

ASSUME CountsAssumption == {FrameCount, MaxPage, WalBufferSize} \subseteq Nat \ {0}
ASSUME BoundsAssumption == MaxChange \in Nat /\ MaxTxn \in Nat /\ MaxRestart \in Nat
ASSUME OldPagesAssumption == OldPages \subseteq 0 .. MaxPage
ASSUME FaultsAssumption == Faults \subseteq {"memory", "read", "evict", "checkpoint", "wal"}

Frame == 1 .. FrameCount
Page == 1 .. MaxPage
Change == 1 .. MaxChange
root_page_id == 1

VARIABLES
    store,         \* buffer pool, data file and log, see below
    next_page_id,
    free_pages,
    next_txn_id,
    thread,        \* per thread: where it is between begin and commit
    status,        \* "up", "checkpoint", "down"
    unwritten,     \* the frames the checkpoint has still to look at
    restarts,
    begun,         \* the transactions begun so far, by any process
    \* What the environment knows of the past:
    change,        \* the last change made
    latest,        \* per page: the changes made to it
    live,          \* the pages in use by the tree
    recorded,      \* the changes write_wal_record was called for
    promised,      \* the logged changes of transactions whose commit returned
    intact         \* no crash and no failed checkpoint write so far

allocator == <<next_page_id, free_pages>>
process == <<status, unwritten, restarts>>
txns == <<next_txn_id, begun>>
history == <<change, latest, live, recorded, promised, intact>>
vars == <<store, allocator, txns, thread, process, history>>

Wal == INSTANCE Wal

\* Contents other than a set of changes: no memory in a frame, nothing in the
\* file, a page of zeros read from a gap in the file, a page whose length or
\* checksum is wrong.
Nothing == {0}
Zeros == {-1}
Damaged == {-2}

MayFail(kind) == kind \in Faults

-----------------------------------------------------------------------------
(***************************************************************************)
(* The pager as operators on s, a record of                                *)
(*   pool     the frames in the order of last_access, oldest first: each   *)
(*            its page_id, whether hash_table links it, dirty, ref_count   *)
(*            and the page's contents;                                     *)
(*   file     per page id the contents in the data file;                   *)
(*   wal      the log.                                                     *)
(* buffer_mutex makes each call of get_page one step up to the page lock.  *)
(***************************************************************************)
EmptyPool ==
    [f \in Frame |-> [page_id |-> 0, linked |-> FALSE, dirty |-> FALSE, ref_count |-> 0,
                      page |-> Nothing]]

\* recover_page_allocator's page count: the file ends behind its last page.
PagesInFile(file) ==
    LET written == {p \in Page : file[p] # Nothing} IN
    IF written = {} THEN 0 ELSE 1 + CHOOSE p \in written : \A q \in written : q <= p

find_buffer_entry(s, p) == {f \in Frame : s.pool[f].linked /\ s.pool[f].page_id = p}

\* The frame at position f is used now and gets new fields.
Touched(s, f, entry) ==
    [s EXCEPT !.pool = SubSeq(@, 1, f - 1) \o SubSeq(@, f + 1, FrameCount) \o <<entry>>]

(***************************************************************************)
(* allocate_buffer_entry: the unreferenced frame not used for longest.  If *)
(* it is dirty, the log is flushed, with nobody looking at the result, and *)
(* the page written back.  A failed write leaves the frame as it is and    *)
(* may leave the page damaged in the file.  Otherwise the frame is taken   *)
(* out of the hash table, given to page p and pinned.                      *)
(***************************************************************************)
Victim(s) ==
    LET idle == {f \in Frame : s.pool[f].ref_count = 0} IN
    {f \in idle : \A g \in idle : f <= g}

\* Mutant of WrittenBack: the page goes to the file ahead of its log records.
WrittenBackUnlogged(s, f) ==
    {[ok |-> TRUE, store |-> IF s.pool[f].dirty
                             THEN [s EXCEPT !.file[s.pool[f].page_id] = s.pool[f].page]
                             ELSE s]}

WrittenBack(s, f) ==
    LET p == s.pool[f].page_id
        ends == {[ok |-> TRUE, contents |-> s.pool[f].page]}
                  \cup {[ok |-> FALSE, contents |-> c] :
                           c \in IF MayFail("evict") THEN {s.file[p], Damaged} ELSE {}}
    IN  IF ~s.pool[f].dirty
        THEN {[ok |-> TRUE, store |-> s]}
        ELSE {[ok |-> e.ok, store |-> [s EXCEPT !.wal = r.wal, !.file[p] = e.contents]] :
                 r \in Wal!flush_wal_buffer(s.wal, MayFail("wal")), e \in ends}

allocate_buffer_entry(s, f, p) ==
    {[ok |-> w.ok,
      store |-> IF w.ok
                THEN Touched(w.store, f, [page_id |-> p, linked |-> FALSE, dirty |-> FALSE,
                                          ref_count |-> 1, page |-> s.pool[f].page])
                ELSE w.store] : w \in WrittenBack(s, f)}

(***************************************************************************)
(* The rest of get_page's miss path on the newest frame: memory for it,    *)
(* load_page_from_disk and page_checksum_valid, then the link into the     *)
(* hash table.  A page beyond the end of the file starts as an empty leaf  *)
(* and dirty.  Any failure releases the pin and links nothing.             *)
(***************************************************************************)
Loaded(s, p) ==
    CASE s.file[p] = Damaged -> {}
      [] s.file[p] # Nothing -> {[page |-> s.file[p], dirty |-> FALSE]}
      [] s.file[p] = Nothing /\ p < PagesInFile(s.file) -> {[page |-> Zeros, dirty |-> FALSE]}
      [] OTHER -> {[page |-> {}, dirty |-> TRUE]}

LoadMayFail(s, p) ==
    \/ s.file[p] = Damaged
    \/ MayFail("read")
    \/ MayFail("memory") /\ s.pool[FrameCount].page = Nothing

\* Mutant of Unpinned: a failing get_page does not give its pin back.
UnpinnedIfLinked(s, f) ==
    IF s.pool[f].linked THEN [s EXCEPT !.pool[f].ref_count = @ - 1] ELSE s

Unpinned(s, f) == [s EXCEPT !.pool[f].ref_count = @ - 1]

load_page(s, p) ==
    {[ok |-> TRUE,
      store |-> [s EXCEPT !.pool[FrameCount] = [@ EXCEPT !.linked = TRUE, !.dirty = l.dirty,
                                                         !.page = l.page]]] : l \in Loaded(s, p)}
      \cup (IF LoadMayFail(s, p) THEN {[ok |-> FALSE, store |-> Unpinned(s, FrameCount)]} ELSE {})

\* get_page: the set of outcomes.  With ok the page is pinned in the newest frame.
get_page(s, p) ==
    LET hits == find_buffer_entry(s, p) IN
    CASE hits # {} ->
           {[ok |-> TRUE, store |-> Touched(s, f, [s.pool[f] EXCEPT !.ref_count = @ + 1])] :
               f \in hits}
      [] hits = {} /\ Victim(s) = {} -> {[ok |-> FALSE, store |-> s]}
      [] OTHER ->
           UNION {IF m.ok THEN load_page(m.store, p) ELSE {m} :
                     m \in UNION {allocate_buffer_entry(s, f, p) : f \in Victim(s)}}

\* The frame of a page that is pinned.
EntryOf(s, p) == CHOOSE f \in Frame : f \in find_buffer_entry(s, p)

\* mark_page_dirty after new contents were written into the page.
mark_page_dirty(s, p, contents) ==
    [s EXCEPT !.pool[EntryOf(s, p)] = [@ EXCEPT !.dirty = TRUE, !.page = contents]]

release_page(s, p) == Unpinned(s, EntryOf(s, p))

-----------------------------------------------------------------------------
(***************************************************************************)
(* Threads.  A thread's record holds its step, the operation it runs, its  *)
(* transaction and the changes logged for it, the pages it has pinned      *)
(* (oldest first, each with the lock asked for), and the page id           *)
(* a split has allocated (0: none).  Steps:                                *)
(*   idle     between requests;           ready   in a transaction;        *)
(*   inside   holding tree_lock;          lock    last page not locked yet;*)
(*   on       all pages locked;           logged  record written;          *)
(*   release  done with the last page;    unpin   last page unlocked;      *)
(*   flush    commit record written.                                       *)
(***************************************************************************)
Idle == [step |-> "idle", op |-> "none", txn |-> 0, logged |-> {}, held |-> <<>>, id |-> 0]

At(t, step) == thread[t].step = step
Goto(t, step) == thread' = [thread EXCEPT ![t].step = step]
Top(t) == thread[t].held[Len(thread[t].held)]

\* db_search and the scans, db_delete, db_insert: how each takes tree_lock and
\* the locks it takes on pages (descend_path takes none).
Shared(op) == op \in {"search", "delete", "failed"}

\* An operation that has failed keeps tree_lock the way it took it.
Failed(op) == IF Shared(op) THEN "failed" ELSE "failed insert"

\* Mutant of LocksOf: db_delete descends with LOCK_SHARED.
LocksOfSharedDelete(op) ==
    CASE op \in {"search", "delete"} -> {"shared"}
      [] op = "insert" -> {"none", "exclusive"}
      [] OTHER -> {}

LocksOf(op) ==
    CASE op = "search" -> {"shared"}
      [] op = "delete" -> {"exclusive"}
      [] op = "insert" -> {"none", "exclusive"}
      [] OTHER -> {}

InTree(t) == thread[t].step \notin {"idle", "ready", "flush"}

\* The pages thread t has locked: all it holds but one it still waits for or
\* has just unlocked.
LockedBy(t) ==
    LET n == IF At(t, "lock") \/ At(t, "unpin") THEN Len(thread[t].held) - 1
             ELSE Len(thread[t].held)
    IN  {thread[t].held[i] : i \in 1 .. n}

Compatible(a, b) == a.page # b.page \/ a.lock = "none" \/ b.lock = "none"
                      \/ (a.lock = "shared" /\ b.lock = "shared")

begin_transaction(t) ==
    /\ status = "up" /\ At(t, "idle") /\ begun < MaxTxn
    /\ thread' = [thread EXCEPT ![t] = [Idle EXCEPT !.step = "ready", !.txn = next_txn_id]]
    /\ next_txn_id' = next_txn_id + 1 /\ begun' = begun + 1
    /\ UNCHANGED <<store, allocator, process, history>>

TakeTreeLock(t, op) ==
    /\ At(t, "ready")
    /\ \A u \in Thread \ {t} : InTree(u) => Shared(op) /\ Shared(thread[u].op)
    /\ thread' = [thread EXCEPT ![t].step = "inside", ![t].op = op]
    /\ UNCHANGED <<store, allocator, txns, process, history>>

(***************************************************************************)
(* A descent, a leaf walk or the search for a parent asks for page p.  If  *)
(* that fails the operation gives up what it holds.                        *)
(***************************************************************************)
GetPage(t, p, lock) ==
    \E r \in get_page(store, p) :
        /\ store' = r.store
        /\ IF r.ok
           THEN thread' = [thread EXCEPT
                             ![t].step = IF lock = "none" THEN "on" ELSE "lock",
                             ![t].held = Append(@, [page |-> p, lock |-> lock])]
           ELSE thread' = [thread EXCEPT ![t].step = IF At(t, "inside") THEN @ ELSE "release",
                                         ![t].op = Failed(@), ![t].id = 0]
        /\ UNCHANGED <<allocator, txns, process, history>>

Visit(t, p, lock) ==
    /\ At(t, "inside")
    /\ p \in live
    /\ lock \in LocksOf(thread[t].op)
    /\ thread[t].id # 0 => lock = "exclusive"
    /\ GetPage(t, p, lock)

acquire_page_lock(t) ==
    /\ At(t, "lock")
    /\ \A u \in Thread \ {t} : \A h \in LockedBy(u) : Compatible(h, Top(t))
    /\ Goto(t, "on")
    /\ UNCHANGED <<store, allocator, txns, process, history>>

(***************************************************************************)
(* db_insert and db_delete log the change they are about to make, without  *)
(* looking at the result, and then make it.                                *)
(***************************************************************************)
LogChange(t) ==
    /\ At(t, "on") /\ thread[t].op # "search" /\ thread[t].id = 0
    /\ Top(t).lock # "none"
    /\ change < MaxChange
    /\ change' = change + 1 /\ recorded' = recorded \cup {change'}
    /\ \E w \in Wal!write_wal_record(store.wal, thread[t].txn, thread[t].op, change', MayFail("wal")) :
           store' = [store EXCEPT !.wal = w]
    /\ thread' = [thread EXCEPT ![t].step = "logged", ![t].logged = @ \cup {change'}]
    /\ UNCHANGED <<allocator, txns, process, latest, live, promised, intact>>

ContentsOf(p) == store.pool[EntryOf(store, p)].page

\* The change logged last by t.
Pending(t) == CHOOSE c \in thread[t].logged : \A d \in thread[t].logged : d <= c

MakeChange(t) ==
    LET p == Top(t).page IN
    /\ At(t, "logged")
    /\ store' = mark_page_dirty(store, p, ContentsOf(p) \cup {Pending(t)})
    /\ latest' = [latest EXCEPT ![p] = @ \cup {Pending(t)}]
    /\ Goto(t, "release")
    /\ UNCHANGED <<allocator, txns, process, change, live, recorded, promised, intact>>

\* insert_separator changes a parent, without a log record.
InsertSeparator(t) ==
    LET p == Top(t).page IN
    /\ At(t, "on") /\ thread[t].op = "insert" /\ thread[t].id = 0
    /\ Top(t).lock = "exclusive"
    /\ change < MaxChange
    /\ change' = change + 1
    /\ store' = mark_page_dirty(store, p, ContentsOf(p) \cup {change'})
    /\ latest' = [latest EXCEPT ![p] = @ \cup {change'}]
    /\ Goto(t, "release")
    /\ UNCHANGED <<allocator, txns, process, live, recorded, promised, intact>>

(***************************************************************************)
(* grow_root and btree_split_node: allocate a page, lock the node (Visit)  *)
(* and the new page, and move contents over; the model lets everything the *)
(* node holds go along.  A new page is emptied first, whatever its frame   *)
(* held.  If the node cannot be split the page id is freed again.          *)
(***************************************************************************)
allocate_page(t) ==
    /\ At(t, "inside") /\ thread[t].op = "insert" /\ thread[t].id = 0
    /\ IF free_pages # <<>>
       THEN /\ thread' = [thread EXCEPT ![t].id = free_pages[Len(free_pages)]]
            /\ free_pages' = SubSeq(free_pages, 1, Len(free_pages) - 1)
            /\ UNCHANGED next_page_id
       ELSE /\ next_page_id <= MaxPage
            /\ thread' = [thread EXCEPT ![t].id = next_page_id]
            /\ next_page_id' = next_page_id + 1
            /\ UNCHANGED free_pages
    /\ UNCHANGED <<store, txns, process, history>>

OutOfPages(t) ==
    /\ At(t, "inside") /\ thread[t].op = "insert" /\ thread[t].id = 0
    /\ free_pages = <<>> /\ next_page_id > MaxPage
    /\ thread' = [thread EXCEPT ![t].op = Failed(@)]
    /\ UNCHANGED <<store, allocator, txns, process, history>>

GetNewPage(t) ==
    /\ At(t, "on") /\ thread[t].id # 0 /\ Len(thread[t].held) = 1
    /\ GetPage(t, thread[t].id, "exclusive")

Split(t) ==
    LET node == thread[t].held[1].page
        right == thread[t].held[2].page
        contents == ContentsOf(node) \cup {change'}
    IN  /\ At(t, "on") /\ thread[t].id # 0 /\ Len(thread[t].held) = 2
        /\ change < MaxChange
        /\ change' = change + 1
        /\ store' = mark_page_dirty(mark_page_dirty(store, node, contents), right, contents)
        /\ latest' = [latest EXCEPT ![node] = @ \cup {change'},
                                    ![right] = latest[node] \cup {change'}]
        /\ live' = live \cup {right}
        /\ thread' = [thread EXCEPT ![t].step = "release", ![t].id = 0]
        /\ UNCHANGED <<allocator, txns, process, recorded, promised, intact>>

SplitRefused(t) ==
    /\ At(t, "on") /\ thread[t].id # 0 /\ Len(thread[t].held) = 2
    /\ store' = [store EXCEPT !.pool[EntryOf(store, Top(t).page)].page = {}]
    /\ thread' = [thread EXCEPT ![t].step = "release", ![t].op = Failed(@)]
    /\ UNCHANGED <<allocator, txns, process, history>>

(***************************************************************************)
(* release_page: unlock, then unpin.  A page may be released without a     *)
(* change: an inner node, or a key found or not found.  Then the operation *)
(* goes on with another page or returns; one that has failed can only      *)
(* return, after a refused split has given its page id back.               *)
(***************************************************************************)
Unlock(t) ==
    /\ At(t, "release") \/ (At(t, "on") /\ thread[t].id = 0)
    /\ Goto(t, "unpin")
    /\ UNCHANGED <<store, allocator, txns, process, history>>

Unpin(t) ==
    /\ At(t, "unpin")
    /\ store' = release_page(store, Top(t).page)
    /\ thread' = [thread EXCEPT
                    ![t].step = IF Len(thread[t].held) > 1 THEN "release" ELSE "inside",
                    ![t].held = SubSeq(@, 1, Len(@) - 1)]
    /\ UNCHANGED <<allocator, txns, process, history>>

deallocate_page(p) ==
    \/ free_pages' = Append(free_pages, p)
    \/ MayFail("memory") /\ UNCHANGED free_pages

Return(t) ==
    /\ At(t, "inside") /\ (thread[t].id # 0 => thread[t].op = "failed insert")
    /\ IF thread[t].id # 0 THEN deallocate_page(thread[t].id) ELSE UNCHANGED free_pages
    /\ thread' = [thread EXCEPT ![t].step = "ready", ![t].op = "none", ![t].id = 0]
    /\ UNCHANGED <<store, next_page_id, txns, process, history>>

(***************************************************************************)
(* commit_transaction writes its record and flushes the log; nobody looks  *)
(* at either result.  abort_transaction only writes a record.              *)
(***************************************************************************)
WriteEnd(t, type) ==
    \E w \in Wal!write_wal_record(store.wal, thread[t].txn, type, 0, MayFail("wal")) :
        store' = [store EXCEPT !.wal = w]

CommitRecord(t) ==
    /\ At(t, "ready")
    /\ WriteEnd(t, "commit")
    /\ Goto(t, "flush")
    /\ UNCHANGED <<allocator, txns, process, history>>

\* Mutant of CommitFlush: commit leaves its records in the buffer.
CommitUnflushed(t) ==
    /\ At(t, "flush")
    /\ promised' = promised \cup thread[t].logged
    /\ thread' = [thread EXCEPT ![t] = Idle]
    /\ UNCHANGED <<store, allocator, txns, process, change, latest, live, recorded, intact>>

CommitFlush(t) ==
    /\ At(t, "flush")
    /\ \E r \in Wal!flush_wal_buffer(store.wal, MayFail("wal")) :
           store' = [store EXCEPT !.wal = r.wal]
    /\ promised' = promised \cup thread[t].logged
    /\ thread' = [thread EXCEPT ![t] = Idle]
    /\ UNCHANGED <<allocator, txns, process, change, latest, live, recorded, intact>>

abort_transaction(t) ==
    /\ At(t, "ready")
    /\ WriteEnd(t, "abort")
    /\ thread' = [thread EXCEPT ![t] = Idle]
    /\ UNCHANGED <<allocator, txns, process, history>>

-----------------------------------------------------------------------------
\* The store of a process that has just started: nothing in memory.
Opened(file, log) ==
    [pool |-> EmptyPool, file |-> file, wal |-> Wal!Opened(log)]

(***************************************************************************)
(* cleanup_storage_engine, when the pool's threads have ended: the         *)
(* checkpoint flushes the log, writes the dirty pages frame by frame and   *)
(* leaves those that cannot be written, then logs a checkpoint record.     *)
(* The order of the array is any order of last_access.                     *)
(***************************************************************************)
perform_checkpoint ==
    /\ status = "up" /\ \A t \in Thread : At(t, "idle")
    /\ \E r \in Wal!flush_wal_buffer(store.wal, MayFail("wal")) :
           store' = [store EXCEPT !.wal = r.wal]
    /\ status' = "checkpoint" /\ unwritten' = Frame
    /\ UNCHANGED <<allocator, txns, thread, restarts, history>>

\* Mutant of CheckpointFrame: the loop stops one frame early.
CheckpointFrameOffByOne(f) ==
    LET e == store.pool[f] IN
    /\ status = "checkpoint" /\ f \in unwritten /\ unwritten' = unwritten \ {f}
    /\ store' = IF e.dirty /\ f < FrameCount
                THEN [store EXCEPT !.file[e.page_id] = e.page, !.pool[f].dirty = FALSE] ELSE store
    /\ UNCHANGED <<allocator, txns, thread, status, restarts, history>>

CheckpointFrame(f) ==
    LET e == store.pool[f] IN
    /\ status = "checkpoint" /\ f \in unwritten /\ unwritten' = unwritten \ {f}
    /\ store' = IF e.dirty
                THEN [store EXCEPT !.file[e.page_id] = e.page, !.pool[f].dirty = FALSE] ELSE store
    /\ UNCHANGED <<allocator, txns, thread, status, restarts, history>>

CheckpointWriteFails(f) ==
    LET e == store.pool[f] IN
    /\ status = "checkpoint" /\ f \in unwritten /\ unwritten' = unwritten \ {f}
    /\ e.dirty /\ MayFail("checkpoint")
    /\ \E c \in {store.file[e.page_id], Damaged} :
           store' = [store EXCEPT !.file[e.page_id] = c]
    /\ intact' = FALSE
    /\ UNCHANGED <<allocator, txns, thread, status, restarts, change, latest, live, recorded, promised>>

Exit ==
    /\ status = "checkpoint" /\ unwritten = {}
    /\ \E w \in Wal!write_wal_record(store.wal, 0, "checkpoint", 0, MayFail("wal")) :
       \E r \in Wal!flush_wal_buffer(w, MayFail("wal")) :
           store' = Opened(store.file, r.wal.log)
    /\ status' = "down"
    /\ UNCHANGED <<allocator, txns, thread, unwritten, restarts, history>>

\* The process dies.  What it handed to the operating system stays.
Crash ==
    /\ status # "down" /\ restarts < MaxRestart
    /\ status' = "down" /\ intact' = FALSE
    /\ thread' = [t \in Thread |-> Idle]
    /\ store' = Opened(store.file, store.wal.log)
    /\ UNCHANGED <<allocator, txns, unwritten, restarts, change, latest, live, recorded, promised>>

(***************************************************************************)
(* init_storage_engine: nothing of the log is read, the page allocator     *)
(* continues behind the end of the data file, and in an empty file the     *)
(* root is made.                                                           *)
(***************************************************************************)
RootMade(s) ==
    {IF r.ok THEN release_page(mark_page_dirty(r.store, root_page_id, {}), root_page_id)
     ELSE r.store :
        r \in get_page(s, root_page_id)}

\* Mutant of recover_page_allocator: every start begins behind the root.
recover_behind_root(file) == root_page_id + 1

recover_page_allocator(file) ==
    IF PagesInFile(file) > root_page_id THEN PagesInFile(file) ELSE root_page_id + 1

init_storage_engine(file, log) ==
    IF PagesInFile(file) = 0 THEN RootMade(Opened(file, log)) ELSE {Opened(file, log)}

Restart ==
    /\ status = "down" /\ restarts < MaxRestart
    /\ store' \in init_storage_engine(store.file, store.wal.log)
    /\ next_page_id' = recover_page_allocator(store.file)
    /\ free_pages' = <<>>
    /\ next_txn_id' = 1
    /\ status' = "up" /\ unwritten' = {} /\ restarts' = restarts + 1
    /\ UNCHANGED <<begun, thread, history>>

Stopped == status = "down" /\ restarts = MaxRestart /\ UNCHANGED vars

\* An engine opened on a file that an earlier process has left behind, with
\* the first n pages in use by the tree and none changed since.
Init == \E n \in OldPages :
    LET file == [p \in Page |-> IF p <= n THEN {} ELSE Nothing] IN
    /\ store \in init_storage_engine(file, <<>>)
    /\ next_page_id = recover_page_allocator(file)
    /\ free_pages = <<>>
    /\ next_txn_id = 1 /\ begun = 0
    /\ thread = [t \in Thread |-> Idle]
    /\ status = "up" /\ unwritten = {} /\ restarts = 0
    /\ change = 0
    /\ latest = [p \in Page |-> {}]
    /\ live = 1 .. n \cup {root_page_id}
    /\ recorded = {} /\ promised = {}
    /\ intact = TRUE

Step(t) ==
    \/ begin_transaction(t)
    \/ \E op \in {"search", "delete", "insert"} : TakeTreeLock(t, op)
    \/ \E p \in Page, lock \in {"none", "shared", "exclusive"} : Visit(t, p, lock)
    \/ acquire_page_lock(t)
    \/ LogChange(t)
    \/ MakeChange(t)
    \/ InsertSeparator(t)
    \/ allocate_page(t)
    \/ OutOfPages(t)
    \/ GetNewPage(t)
    \/ Split(t)
    \/ SplitRefused(t)
    \/ Unlock(t)
    \/ Unpin(t)
    \/ Return(t)
    \/ CommitRecord(t)
    \/ CommitFlush(t)
    \/ abort_transaction(t)

Next ==
    \/ status = "up" /\ \E t \in Thread : Step(t)
    \/ perform_checkpoint
    \/ \E f \in Frame : CheckpointFrame(f)
    \/ \E f \in Frame : CheckpointWriteFails(f)
    \/ Exit
    \/ Crash
    \/ Restart
    \/ Stopped

Spec == Init /\ [][Next]_vars

-----------------------------------------------------------------------------
Contents == SUBSET (Change \cup {-1}) \cup {Nothing, Damaged}

Steps == {"idle", "ready", "inside", "lock", "on", "logged", "release", "unpin", "flush"}

Held(t) == {thread[t].held[i] : i \in DOMAIN thread[t].held}

\* The variables stay in their types; in particular get_page and release_page
\* keep every ref_count between zero and two per thread, a thread holds at most
\* two pages, and write_wal_record never overfills the log buffer.
TypeOK ==
    /\ \A f \in Frame :
          /\ store.pool[f].page_id \in Page \cup {0}
          /\ {store.pool[f].linked, store.pool[f].dirty} \subseteq BOOLEAN
          /\ store.pool[f].ref_count \in 0 .. 2 * Cardinality(Thread)
          /\ store.pool[f].page \in Contents
    /\ Len(store.pool) = FrameCount
    /\ store.file \in [Page -> Contents]
    /\ Len(store.wal.buffer) <= WalBufferSize
    /\ next_page_id \in Page \cup {MaxPage + 1}
    /\ \A i \in DOMAIN free_pages : free_pages[i] \in Page
    /\ \A t \in Thread :
          /\ thread[t].step \in Steps
          /\ thread[t].txn \in 0 .. MaxTxn
          /\ thread[t].logged \subseteq Change
          /\ thread[t].id \in Page \cup {0}
          /\ Len(thread[t].held) <= 2
          /\ Held(t) \subseteq [page : Page, lock : {"none", "shared", "exclusive"}]
    /\ status \in {"up", "checkpoint", "down"}

\* The buffer pool is consistent: types hold, no page has two frames, every page a thread
\* is using stays linked, each ref_count is exactly the number of pins, and a
\* frame that is not linked is unpinned and holds nothing unwritten.
\* get_page's failure paths and the evictor of allocate_buffer_entry could each
\* break it.
PoolConsistent ==
    /\ TypeOK
    /\ \A p \in Page : Cardinality(find_buffer_entry(store, p)) <= 1
    /\ \A t \in Thread : \A h \in Held(t) : find_buffer_entry(store, h.page) # {}
    /\ \A f \in Frame :
          /\ store.pool[f].ref_count =
                IF ~store.pool[f].linked THEN 0
                ELSE Cardinality({ti \in Thread \X {1, 2} :
                         /\ ti[2] \in DOMAIN thread[ti[1]].held
                         /\ thread[ti[1]].held[ti[2]].page = store.pool[f].page_id})
          /\ ~store.pool[f].linked => ~store.pool[f].dirty

\* While a thread uses a page, no other thread changes what is in its frame.
\* Readers rely on their shared page lock for this, descend_path, which locks
\* no page, on tree_lock alone.
PagesHoldStill ==
    [][\A t \in Thread : \A h \in LockedBy(t) :
          thread'[t] = thread[t] /\ thread[t].step # "idle"
             => ContentsOf(h.page)' = ContentsOf(h.page)]_vars

\* Until a crash or a failed checkpoint write, get_page finds for every page of
\* the tree exactly the changes made to it, wherever eviction, failed writes
\* and reads, and clean restarts have left them.
LatestReadable ==
    intact => \A p \in live :
        LET hits == find_buffer_entry(store, p) IN
        IF hits # {}
        THEN \A f \in hits : store.pool[f].page = latest[p]
        ELSE {l.page : l \in Loaded(store, p)} = {latest[p]}

\* Until a crash or a failed checkpoint write, no page of the tree is handed
\* out by allocate_page: none is on the free list, none lies at or beyond
\* next_page_id, also as recovered from the file's extent after a restart, and
\* none is being split off by a thread.
AllocatedIsFree ==
    intact /\ status = "up" =>
        /\ \A i, j \in DOMAIN free_pages : free_pages[i] = free_pages[j] => i = j
        /\ live \cap {free_pages[i] : i \in DOMAIN free_pages} = {}
        /\ \A p \in live : p < next_page_id
        /\ \A t \in Thread : thread[t].id \notin live

\* The write-ahead rule of wal.c and pager.c: a change that is logged at all is
\* in the log file before it is in the data file, through every eviction,
\* checkpoint, crash and restart, as long as writing the log does not fail.
LogAheadOfFile ==
    \A p \in Page : \A c \in store.file[p] \cap recorded : Wal!Logged(store.wal, c)

\* When commit_transaction has returned, the log file holds every record of the
\* transaction and behind them its commit record, and keeps them through a
\* crash, as long as writing the log does not fail.
CommittedLogged ==
    LET log == store.wal.log IN
    \A c \in promised : \E i, j \in DOMAIN log :
        i < j /\ log[i].change = c /\ log[j].type = "commit" /\ log[j].txn = log[i].txn

\* A failed write of the log buffer must not make the next flush "re-append the
\* already-written prefix (which would duplicate records)", as the comment in
\* write_wal_record says: no change is in the log file twice.
LogAppendsOnce ==
    LET log == store.wal.log IN
    \A i, j \in DOMAIN log : log[i].change = log[j].change /\ log[i].change # 0 => i = j
=============================================================================
