------------------------------ MODULE LruTable ------------------------------
(***************************************************************************)
(* common/src/lru.c as it is laid out in memory: a hash table of chains    *)
(* threaded through hash_next and a recency list threaded through prev and *)
(* next, over nodes taken from and given back to the heap.  Every call     *)
(* holds cache->lock from its first to its last access and is one step.    *)
(* The operators carry the names of the C functions and take the cache as  *)
(* a record c; the statistics counters are left out.                       *)
(***************************************************************************)
EXTENDS LruCache, FiniteSets

CONSTANTS Node,           \* heap cells a node can occupy
          Nil,            \* the null pointer
          HashCode,       \* get_hash_code: the bucket of each key
          MaxGeneration   \* bound on the writes

ASSUME HashCodeAssumption == HashCode \in [Key -> 0 .. 2 * Capacity - 1]
ASSUME NodeAssumption == Nil \notin Node /\ Cardinality(Node) > Capacity
ASSUME WritesAssumption == MaxGeneration \in Nat

VARIABLES cache,   \* lru_cache_t, with the heap its nodes live in
          answer   \* the last call and what it returned

Pointer == Node \cup {Nil}

Cell == [key : Key, value : Value, prev : Pointer, next : Pointer, hash_next : Pointer]

Bucket == 0 .. 2 * Capacity - 1

-----------------------------------------------------------------------------
RECURSIVE chain(_, _)
chain(c, n) == IF n = Nil THEN <<>> ELSE <<n>> \o chain(c, c.heap[n].hash_next)

bucket_of(c, k) == chain(c, c.array[HashCode[k]])

hash_find(c, k) ==
    LET walk[n \in Pointer] ==
            IF n = Nil \/ c.heap[n].key = k THEN n ELSE walk[c.heap[n].hash_next]
    IN  walk[c.array[HashCode[k]]]

hash_insert(c, n) ==
    LET b == HashCode[c.heap[n].key]
    IN  [c EXCEPT !.heap[n].hash_next = c.array[b], !.array[b] = n]

\* Mutant of hash_remove: the chain is spliced along the recency list.
hash_remove_next(c, n) ==
    LET k     == c.heap[n].key
        nodes == bucket_of(c, k)
        found == {i \in DOMAIN nodes : nodes[i] = n}
        i     == CHOOSE j \in found : TRUE
        after == c.heap[n].next
        spliced == IF found = {} THEN c
                   ELSE IF i = 1 THEN [c EXCEPT !.array[HashCode[k]] = after]
                   ELSE [c EXCEPT !.heap[nodes[i - 1]].hash_next = after]
    IN  [spliced EXCEPT !.heap[n].hash_next = Nil]

hash_remove(c, n) ==
    LET k     == c.heap[n].key
        nodes == bucket_of(c, k)
        found == {i \in DOMAIN nodes : nodes[i] = n}
        i     == CHOOSE j \in found : TRUE
        after == c.heap[n].hash_next
        spliced == IF found = {} THEN c
                   ELSE IF i = 1 THEN [c EXCEPT !.array[HashCode[k]] = after]
                   ELSE [c EXCEPT !.heap[nodes[i - 1]].hash_next = after]
    IN  [spliced EXCEPT !.heap[n].hash_next = Nil]

list_unlink(c, n) ==
    LET before == c.heap[n].prev
        after  == c.heap[n].next
        ahead  == IF before # Nil THEN [c EXCEPT !.heap[before].next = after]
                                  ELSE [c EXCEPT !.head = after]
        behind == IF after # Nil THEN [ahead EXCEPT !.heap[after].prev = before]
                                 ELSE [ahead EXCEPT !.tail = before]
    IN  [behind EXCEPT !.heap[n].prev = Nil, !.heap[n].next = Nil, !.size = @ - 1]

list_push_back(c, n) ==
    LET placed == [c EXCEPT !.heap[n].prev = c.tail, !.heap[n].next = Nil]
        linked == IF c.tail # Nil THEN [placed EXCEPT !.heap[c.tail].next = n]
                                  ELSE [placed EXCEPT !.head = n]
    IN  [linked EXCEPT !.tail = n, !.size = @ + 1]

touch(c, n) == list_push_back(list_unlink(c, n), n)

free_node(c, n) == [c EXCEPT !.heap[n] = Nil]

evict_lru(c) ==
    IF c.head = Nil THEN c
    ELSE free_node(hash_remove(list_unlink(c, c.head), c.head), c.head)

create_node(c, n, k, v) ==
    [c EXCEPT !.heap[n] = [key |-> k, value |-> v, prev |-> Nil, next |-> Nil, hash_next |-> Nil]]

bump(c) == [c EXCEPT !.generation = @ + 1]

-----------------------------------------------------------------------------
\* Mutant of store: replacing a value does not make it the most recent one.
store_in_place(c, k, v, n) ==
    LET existing == hash_find(c, k)
        created  == create_node(c, n, k, v)
        room     == IF c.size >= Capacity THEN evict_lru(created) ELSE created
    IN  IF existing # Nil
        THEN [c EXCEPT !.heap[existing].value = v]
        ELSE list_push_back(hash_insert(room, n), n)

(***************************************************************************)
(* store: n is the cell calloc hands out for a key that is not held.       *)
(***************************************************************************)
store(c, k, v, n) ==
    LET existing == hash_find(c, k)
        created  == create_node(c, n, k, v)
        room     == IF c.size >= Capacity THEN evict_lru(created) ELSE created
    IN  IF existing # Nil
        THEN touch([c EXCEPT !.heap[existing].value = v], existing)
        ELSE list_push_back(hash_insert(room, n), n)

FreeCells == {n \in Node : cache.heap[n] = Nil}

lru_get(k) ==
    LET node == hash_find(cache, k) IN
    /\ answer' = <<"get", IF node = Nil THEN NoValue ELSE cache.heap[node].value>>
    /\ cache' = IF node = Nil THEN cache ELSE touch(cache, node)

lru_put(k, v) ==
    /\ cache.generation < MaxGeneration
    /\ \/ answer' = <<"put", 0>> /\ \E n \in FreeCells : cache' = store(bump(cache), k, v, n)
       \/ answer' = <<"put", -1>> /\ cache' = bump(cache)

lru_fill(k, v, generation) ==
    \/ /\ cache.generation # generation
       /\ answer' = <<"fill", 1>>
       /\ UNCHANGED cache
    \/ /\ cache.generation = generation
       /\ \/ answer' = <<"fill", 0>> /\ \E n \in FreeCells : cache' = store(cache, k, v, n)
          \/ answer' = <<"fill", -1>> /\ UNCHANGED cache

lru_invalidate(k) ==
    LET node == hash_find(cache, k) IN
    /\ cache.generation < MaxGeneration
    /\ answer' = <<"invalidate", node # Nil>>
    /\ cache' = IF node = Nil THEN bump(cache)
                ELSE free_node(hash_remove(list_unlink(bump(cache), node), node), node)

lru_cache_create ==
    /\ cache = [heap |-> [n \in Node |-> Nil], array |-> [b \in Bucket |-> Nil],
                head |-> Nil, tail |-> Nil, size |-> 0, generation |-> 0]
    /\ answer = <<"none">>

Calls ==
    \E k \in Key : \/ lru_get(k) \/ lru_invalidate(k)
                   \/ \E v \in Value : \/ lru_put(k, v)
                                       \/ \E g \in 0 .. cache.generation : lru_fill(k, v, g)

vars == <<cache, answer>>

TableSpec == lru_cache_create /\ [][Calls]_vars

-----------------------------------------------------------------------------
(***************************************************************************)
(* The nodes on the recency list, from the least recently used, following  *)
(* next from head; and following prev from tail.                           *)
(***************************************************************************)
RECURSIVE forward(_), backward(_)
forward(n)  == IF n = Nil THEN <<>> ELSE <<n>> \o forward(cache.heap[n].next)
backward(n) == IF n = Nil THEN <<>> ELSE backward(cache.heap[n].prev) \o <<n>>

\* The types of the table, the list and the cells.
TypeOK ==
    /\ cache.heap \in [Node -> Cell \cup {Nil}]
    /\ cache.array \in [Bucket -> Pointer]
    /\ {cache.head, cache.tail} \subseteq Pointer
    /\ cache.size \in 0 .. Capacity
    /\ cache.generation \in 0 .. MaxGeneration

InList == forward(cache.head)

(***************************************************************************)
(* The two structures always hold the same nodes, each exactly once: the   *)
(* list read either way, the chains, and the cells taken from the heap, so *)
(* that nothing leaks and no pointer into a freed node is left behind, and *)
(* every field stays in its type.                                          *)
(***************************************************************************)
StructuresAgree ==
    LET held == {n \in Node : cache.heap[n] # Nil}
        list == InList
    IN
    /\ TypeOK
    /\ list = backward(cache.tail)
    /\ {list[i] : i \in DOMAIN list} = held
    /\ Len(list) = Cardinality(held) /\ cache.size = Len(list)
    /\ \A b \in Bucket : LET nodes == chain(cache, cache.array[b]) IN
          /\ {nodes[i] : i \in DOMAIN nodes} = {n \in held : HashCode[cache.heap[n].key] = b}
          /\ Len(nodes) = Cardinality({n \in held : HashCode[cache.heap[n].key] = b})

AsValue ==
    [val |-> [k \in Key |-> LET n == hash_find(cache, k) IN
                            IF n = Nil THEN NoValue ELSE cache.heap[n].value],
     order |-> LET list == InList IN [i \in DOMAIN list |-> cache.heap[list[i]].key],
     generation |-> cache.generation]

Promised == INSTANCE LruSpec WITH contents <- AsValue

(***************************************************************************)
(* The table and the list implement the value that lru.h promises: read    *)
(* through hash_find and in list order they behave as LruSpec, answers     *)
(* included.                                                               *)
(***************************************************************************)
KeepsPromise == Promised!PromisedSpec
=============================================================================
