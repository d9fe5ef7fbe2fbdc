------------------------------- MODULE Btree --------------------------------
(***************************************************************************)
(* The B+-tree of storage/src/btree.c and db.c.  db_insert holds tree_lock *)
(* exclusively from start to end and db_delete changes one leaf under its  *)
(* page lock, so each is one step here.  What can go wrong inside is       *)
(* get_page (no frame, no memory, a bad read) and allocate_page (no ids    *)
(* left): a tree carries the number of get_page calls that still succeed.  *)
(*                                                                         *)
(* Keys are numbers in key order, a value is abstracted to the bytes its   *)
(* pair takes on a page.                                                   *)
(***************************************************************************)
EXTENDS Integers, Sequences, FiniteSets, SequencesExt

CONSTANTS
    MaxKey,
    PairSize,     \* per key: the bytes of its pair, at most a third of a page
    SepSize,      \* the bytes of a separator
    Capacity,     \* btree_page_capacity
    MaxPage,      \* the highest page id
    MaxDepth,     \* BTREE_MAX_DEPTH
    MaxCalls,     \* get_page may fail after at most so many calls
    MaxFaults     \* bound on the operations in which get_page fails

Key == 1 .. MaxKey
Page == 1 .. MaxPage
root_page_id == 1
Plenty == 1000    \* more calls of get_page than any operation makes

VARIABLES
    tree,      \* pages, next_page_id, free_pages, the calls of get_page left,
               \* and torn: a page was carved but not published in its parent
    \* What the environment knows of the past:
    stored,    \* the keys whose insertion, but no deletion, has succeeded
    faults

vars == <<tree, stored, faults>>

-----------------------------------------------------------------------------
(***************************************************************************)
(* One page: its type, its entries in key order, and next_page_id, on a    *)
(* leaf the next leaf, on an internal node the rightmost child.  free_space*)
(* is what the entries leave of Capacity.                                  *)
(***************************************************************************)
EmptyLeaf == [type |-> "leaf", entries |-> <<>>, next |-> 0]

Bytes(entries) == FoldLeft(LAMBDA sum, e : sum + e.size, 0, entries)

FreeSpace(page) == Capacity - Bytes(page.entries)

Pair(k) == [key |-> k, size |-> PairSize[k], child |-> 0]
Separator(k, child) == [key |-> k, size |-> SepSize, child |-> child]

\* find_key_position: binary search, counting from 1.
RECURSIVE SearchBetween(_, _, _, _)
SearchBetween(entries, k, left, right) ==
    LET mid == (left + right) \div 2 IN
    CASE left > right -> left
      [] left <= right /\ k = entries[mid].key -> mid
      [] left <= right /\ k < entries[mid].key -> SearchBetween(entries, k, left, mid - 1)
      [] OTHER -> SearchBetween(entries, k, mid + 1, right)

find_key_position(page, k) == SearchBetween(page.entries, k, 1, Len(page.entries))

Holds(page, k) ==
    LET pos == find_key_position(page, k) IN
    pos <= Len(page.entries) /\ page.entries[pos].key = k

\* The child an internal node sends key k to.
ChildFor(page, k) ==
    LET pos == find_key_position(page, k) IN
    IF pos <= Len(page.entries) THEN page.entries[pos].child ELSE page.next

insert_kv_pair(page, pos, entry) ==
    [ok |-> FreeSpace(page) >= entry.size,
     page |-> [page EXCEPT !.entries = InsertAt(@, pos, entry)]]

delete_kv_pair(page, pos) == [page EXCEPT !.entries = RemoveAt(@, pos)]

\* choose_split_index: the entry that moves first, or 0.
PastHalf(entries) ==
    {i \in 2 .. Len(entries) : Bytes(SubSeq(entries, 1, i - 1)) >= Bytes(entries) \div 2}

choose_split_index(entries) ==
    CASE PastHalf(entries) # {} -> Min(PastHalf(entries))
      [] PastHalf(entries) = {} /\ Len(entries) > 1 -> Len(entries)
      [] OTHER -> 0

(***************************************************************************)
(* btree_split_page: a leaf keeps the separator's key, an internal node    *)
(* gives its separator up and keeps its child as rightmost.                *)
(***************************************************************************)
Splittable(src) ==
    /\ Len(src.entries) >= (IF src.type = "leaf" THEN 2 ELSE 1)
    /\ choose_split_index(src.entries) # 0

\* Mutant of SplitLeaf: the new leaf is not put into the sibling chain.
SplitLeafOffTheChain(src, mid, right_id) ==
    [sep |-> src.entries[mid - 1].key,
     left |-> [src EXCEPT !.entries = SubSeq(@, 1, mid - 1)],
     right |-> [src EXCEPT !.entries = SubSeq(@, mid, Len(@))]]

SplitLeaf(src, mid, right_id) ==
    [sep |-> src.entries[mid - 1].key,
     left |-> [src EXCEPT !.entries = SubSeq(@, 1, mid - 1), !.next = right_id],
     right |-> [src EXCEPT !.entries = SubSeq(@, mid, Len(@))]]

SplitInternal(src, mid) ==
    [sep |-> src.entries[mid].key,
     left |-> [src EXCEPT !.entries = SubSeq(@, 1, mid - 1), !.next = src.entries[mid].child],
     right |-> [src EXCEPT !.entries = SubSeq(@, mid + 1, Len(@))]]

btree_split_page(src, right_id) ==
    IF src.type = "leaf" THEN SplitLeaf(src, choose_split_index(src.entries), right_id)
    ELSE SplitInternal(src, choose_split_index(src.entries))

-----------------------------------------------------------------------------
(***************************************************************************)
(* Operations return a record with ok and the tree they leave behind.  An  *)
(* operation in which get_page fails makes no further call.                *)
(***************************************************************************)
Failure(tr) == [ok |-> FALSE, tree |-> tr]
Success(tr) == [ok |-> TRUE, tree |-> tr]

CanGet(tr, n) == tr.calls >= n
Got(tr, n) == [tr EXCEPT !.calls = @ - n]

\* allocate_page: the page id, 0 if there is none left, and the tree.
allocate_page(tr) ==
    IF tr.free_pages # <<>>
    THEN [id |-> Last(tr.free_pages), tree |-> [tr EXCEPT !.free_pages = Front(@)]]
    ELSE IF tr.next_page_id <= MaxPage
    THEN [id |-> tr.next_page_id, tree |-> [tr EXCEPT !.next_page_id = @ + 1]]
    ELSE [id |-> 0, tree |-> tr]

(***************************************************************************)
(* descend_path: the page ids from p, with those above it, to the leaf     *)
(* that owns key k.  descend_to_leaf takes the same way.                   *)
(***************************************************************************)
RECURSIVE Descent(_, _, _, _)
Descent(tr, k, p, above) ==
    CASE ~CanGet(tr, 1) \/ Len(above) = MaxDepth ->
           [ok |-> FALSE, tree |-> tr, ids |-> above]
      [] OTHER ->
           IF tr.pages[p].type = "leaf"
           THEN [ok |-> TRUE, tree |-> Got(tr, 1), ids |-> Append(above, p)]
           ELSE IF ChildFor(tr.pages[p], k) \in {0, p}
           THEN [ok |-> FALSE, tree |-> Got(tr, 1), ids |-> Append(above, p)]
           ELSE Descent(Got(tr, 1), k, ChildFor(tr.pages[p], k), Append(above, p))

descend_path(tr, k) == Descent(tr, k, root_page_id, <<>>)

\* grow_root: the root's contents move to the page a allocated, its only child.
GrownInto(tr, a) ==
    IF a.id = 0 \/ ~CanGet(a.tree, 2)
    THEN [ok |-> FALSE, tree |-> a.tree, id |-> 0]
    ELSE [ok |-> TRUE, id |-> a.id,
          tree |-> [Got(a.tree, 2) EXCEPT
                      !.pages[a.id] = tr.pages[root_page_id],
                      !.pages[root_page_id] = [type |-> "internal", entries |-> <<>>,
                                               next |-> a.id]]]

grow_root(tr) == GrownInto(tr, allocate_page(tr))

(***************************************************************************)
(* btree_split_node carves node and has insert_separator publish the new   *)
(* right half in the parent, which may have to be split first, and so on   *)
(* up.  If that fails the right half is left out of the parent: torn.      *)
(***************************************************************************)
RECURSIVE btree_split_node(_, _, _), insert_separator(_, _, _, _, _)

Settled(published) ==
    IF published.ok THEN published ELSE Failure([published.tree EXCEPT !.torn = TRUE])

\* Mutant of Carved: the leaf is linked to its right half only once that has
\* been published.
CarvedLinksLast(tr, node, right_id, s, depth) ==
    LET published ==
            insert_separator([Got(tr, 2) EXCEPT !.pages[node] = s.left, !.pages[right_id] = s.right],
                             node, s.sep, right_id, depth - 1)
    IN  IF published.ok THEN published
        ELSE Failure([published.tree EXCEPT !.torn = TRUE, !.pages[node].next = tr.pages[node].next])

Carved(tr, node, right_id, s, depth) ==
    Settled(insert_separator([Got(tr, 2) EXCEPT !.pages[node] = s.left, !.pages[right_id] = s.right],
                             node, s.sep, right_id, depth - 1))

SplitInto(tr, node, right_id, depth) ==
    IF right_id = 0 \/ ~CanGet(tr, 2)
    THEN Failure(tr)
    ELSE IF ~Splittable(tr.pages[node])
    THEN Failure([Got(tr, 2) EXCEPT !.free_pages = Append(@, right_id)])
    ELSE Carved(tr, node, right_id, btree_split_page(tr.pages[node], right_id), depth)

SplitBelowRoot(grown, depth) ==
    IF grown.ok
    THEN SplitInto(allocate_page(grown.tree).tree, grown.id, allocate_page(grown.tree).id, depth)
    ELSE Failure(grown.tree)

btree_split_node(tr, node, depth) ==
    IF depth <= 0 THEN Failure(tr)
    ELSE SplitBelowRoot(IF node = root_page_id THEN grow_root(tr)
                        ELSE [ok |-> TRUE, tree |-> tr, id |-> node], depth)

\* Where a parent's entries point at node.
PointersTo(page, node) == {i \in DOMAIN page.entries : page.entries[i].child = node}
PointsAt(page, node) == PointersTo(page, node) # {} \/ page.next = node

\* Mutant of Repointed: off by one, the separator just inserted is repointed.
RepointedAtOld(page, old, right) ==
    IF old <= Len(page.entries) - 1 THEN [page EXCEPT !.entries[old].child = right]
    ELSE [page EXCEPT !.next = right]

Repointed(page, old, right) ==
    IF old <= Len(page.entries) - 1 THEN [page EXCEPT !.entries[old + 1].child = right]
    ELSE [page EXCEPT !.next = right]

\* The separator goes into the parent at pos, in front of the pointer to node,
\* which from then on points at the right half.
SeparatorPos(page, node) ==
    IF PointersTo(page, node) # {} THEN Min(PointersTo(page, node)) ELSE Len(page.entries) + 1

PublishedAt(tr, parent, pos, separator, right) ==
    [ok |-> insert_kv_pair(tr.pages[parent], pos, separator).ok,
     tree |-> [tr EXCEPT !.pages[parent] =
                  Repointed(insert_kv_pair(@, pos, separator).page, pos, right)]]

Published(tr, parent, node, sep, right) ==
    PublishedAt(tr, parent, SeparatorPos(tr.pages[parent], node), Separator(sep, node), right)

\* The page above node on a path, or 0.
ParentOn(ids, node) ==
    LET above == {i \in 1 .. Len(ids) - 1 : ids[i + 1] = node} IN
    IF above = {} THEN 0 ELSE ids[Min(above)]

\* After a split of the parent the new parent is looked up from the root.
Retried(made_room, node, sep, right, depth) ==
    IF made_room.ok
    THEN insert_separator(made_room.tree, node, sep, right, depth - 1)
    ELSE made_room

\* Mutant of InsertInto: the parent found before it was split is used again.
InsertIntoStale(tr, parent, node, sep, right, depth) ==
    LET made_room == btree_split_node(tr, parent, depth - 1) IN
    IF Published(tr, parent, node, sep, right).ok
    THEN Published(tr, parent, node, sep, right)
    ELSE IF made_room.ok /\ PointsAt(made_room.tree.pages[parent], node)
    THEN Published(made_room.tree, parent, node, sep, right)
    ELSE Failure(made_room.tree)

InsertInto(tr, parent, node, sep, right, depth) ==
    IF Published(tr, parent, node, sep, right).ok
    THEN Published(tr, parent, node, sep, right)
    ELSE Retried(btree_split_node(tr, parent, depth - 1), node, sep, right, depth)

InsertAbove(path, parent, node, sep, right, depth) ==
    IF ~path.ok \/ parent = 0 \/ ~CanGet(path.tree, 1)
    THEN Failure(path.tree)
    ELSE IF ~PointsAt(path.tree.pages[parent], node)
    THEN Failure(Got(path.tree, 1))
    ELSE InsertInto(Got(path.tree, 1), parent, node, sep, right, depth)

InsertAlong(path, node, sep, right, depth) ==
    InsertAbove(path, ParentOn(path.ids, node), node, sep, right, depth)

insert_separator(tr, node, sep, right, depth) ==
    IF depth <= 0 THEN Failure(tr)
    ELSE InsertAlong(descend_path(tr, sep), node, sep, right, depth)

(***************************************************************************)
(* db_insert, from its attempt-th pass on.                                 *)
(***************************************************************************)
Inserted(tr, p, k) ==
    [tr EXCEPT !.pages[p] = insert_kv_pair(@, find_key_position(@, k), Pair(k)).page]

RECURSIVE InsertPass(_, _, _)
PassAfter(split, k, attempt) ==
    IF split.ok THEN InsertPass(split.tree, k, attempt + 1) ELSE split

PassAtLeaf(tr, p, k, attempt) ==
    IF Holds(tr.pages[p], k) THEN Failure(tr)
    ELSE IF FreeSpace(tr.pages[p]) >= PairSize[k] THEN Success(Inserted(tr, p, k))
    ELSE PassAfter(btree_split_node(tr, p, MaxDepth), k, attempt)

PassAlong(path, k, attempt) ==
    IF ~path.ok \/ ~CanGet(path.tree, 1) THEN Failure(path.tree)
    ELSE PassAtLeaf(Got(path.tree, 1), Last(path.ids), k, attempt)

InsertPass(tr, k, attempt) ==
    IF attempt = MaxDepth THEN Failure(tr) ELSE PassAlong(descend_path(tr, k), k, attempt)

db_insert(tr, k) == InsertPass(tr, k, 0)

\* db_search
db_search(tr, k) ==
    LET d == descend_path(tr, k) IN d.ok /\ Holds(tr.pages[Last(d.ids)], k)

\* db_delete
db_delete(tr, k) ==
    LET d == descend_path(tr, k)
        p == Last(d.ids)
    IN  IF d.ok /\ Holds(tr.pages[p], k)
        THEN Success([tr EXCEPT !.pages[p] = delete_kv_pair(@, find_key_position(@, k))])
        ELSE Failure(tr)

(***************************************************************************)
(* scan_range over the keys with a prefix, which are the keys lo .. hi:    *)
(* the prefix sorts before all of them, so it takes the place of lo.       *)
(***************************************************************************)
RECURSIVE WalkLeaves(_, _, _, _)
WalkLeaves(tr, p, start, hi) ==
    LET page == tr.pages[p]
        here == SubSeq(page.entries, start, Len(page.entries))
        beyond == {i \in DOMAIN here : here[i].key > hi}
        keys == [i \in DOMAIN here |-> here[i].key]
    IN  IF beyond # {} THEN SubSeq(keys, 1, Min(beyond) - 1)
        ELSE IF page.next = 0 THEN keys
        ELSE keys \o WalkLeaves(tr, page.next, 1, hi)

scan_range(tr, lo, hi) ==
    LET leaf == Last(descend_path(tr, lo).ids) IN
    WalkLeaves(tr, leaf, find_key_position(tr.pages[leaf], lo), hi)

-----------------------------------------------------------------------------
Init ==
    /\ tree = [pages |-> [p \in Page |-> EmptyLeaf], next_page_id |-> root_page_id + 1,
               free_pages |-> <<>>, calls |-> Plenty, torn |-> FALSE]
    /\ stored = {}
    /\ faults = 0

Insert(k) ==
    LET r == db_insert(tree, k) IN
    /\ tree' = [r.tree EXCEPT !.calls = Plenty]
    /\ stored' = IF r.ok THEN stored \cup {k} ELSE stored
    /\ UNCHANGED faults

\* An insertion in which get_page fails after the given number of calls.
InsertFails(k, calls) ==
    LET r == db_insert([tree EXCEPT !.calls = calls], k) IN
    /\ faults < MaxFaults /\ ~r.ok
    /\ tree' = [r.tree EXCEPT !.calls = Plenty]
    /\ faults' = faults + 1
    /\ UNCHANGED stored

Delete(k) ==
    LET r == db_delete(tree, k) IN
    /\ r.ok
    /\ tree' = r.tree
    /\ stored' = stored \ {k}
    /\ UNCHANGED faults

Next ==
    \/ \E k \in Key : Insert(k)
    \/ \E k \in Key, calls \in 0 .. MaxCalls : InsertFails(k, calls)
    \/ \E k \in Key : Delete(k)

Spec == Init /\ [][Next]_vars

-----------------------------------------------------------------------------
\* Pages are leaves or internal nodes, no page holds more bytes than fit, and
\* page ids stay in range: btree_split_page and insert_kv_pair keep the
\* accounting of free_space.
TypeOK ==
    /\ \A p \in Page :
          LET page == tree.pages[p] IN
          /\ page.type \in {"leaf", "internal"}
          /\ page.next \in 0 .. MaxPage
          /\ \A i \in DOMAIN page.entries :
                page.entries[i] \in [key : Key, size : Nat, child : 0 .. MaxPage]
          /\ FreeSpace(page) >= 0
    /\ tree.next_page_id \in 2 .. MaxPage + 1
    /\ tree.free_pages \in Seq(Page)
    /\ stored \subseteq Key

\* As long as no split has been torn, db_search finds exactly the keys stored.
SearchFindsStored ==
    ~tree.torn => \A k \in Key : db_search(tree, k) <=> k \in stored

\* As long as no split has been torn, a scan of any prefix range delivers the
\* stored keys of the range, in key order and each once: the way down lands on
\* the right leaf even if that leaf or its neighbours have been emptied.
ScanIsSortedRange ==
    ~tree.torn => \A lo \in Key : \A hi \in lo .. MaxKey :
        scan_range(tree, lo, hi) = SelectSeq([k \in Key |-> k], LAMBDA k : k \in stored \cap (lo .. hi))

\* As long as no split has been torn and page ids are left, db_insert accepts
\* every key that is not stored, however many splits it takes, and refuses the
\* others: neither choose_split_index nor the search for the parent gives up.
InsertRefusesOnlyDuplicates ==
    ~tree.torn => \A k \in Key :
        LET r == db_insert(tree, k) IN
        IF k \in stored THEN ~r.ok ELSE r.ok \/ r.tree.next_page_id > MaxPage

\* No failure, torn splits included, loses a stored pair: every one is on the
\* leaf chain that db_scan walks, which is what the startup reconcile reads.
\* No page is ever overfilled either (TypeOK).
NothingLost ==
    LET first == Last(descend_path(tree, 0).ids) IN
    /\ TypeOK
    /\ stored \subseteq ToSet(WalkLeaves(tree, first, 1, MaxKey))
=============================================================================
