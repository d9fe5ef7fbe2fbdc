------------------------------ MODULE LruCache ------------------------------
(***************************************************************************)
(* The read cache of common/src/lru.c as a value: what every lru_* call    *)
(* does to the cache and what it answers.  The cache mutex makes every     *)
(* call one step, so a module that uses the cache applies these operators  *)
(* to a variable of its own.  The chained hash table and the linked        *)
(* recency list that implement this value are in LruTable.                 *)
(*                                                                         *)
(* A cache is a record with                                                *)
(*   val         the value held for each key, NoValue where there is none; *)
(*   order       the keys held, least recently used first (list->head);    *)
(*   generation  the counter that every authoritative write bumps.         *)
(***************************************************************************)
EXTENDS Integers, Sequences

CONSTANTS Key, Value, NoValue, Capacity

ASSUME CapacityAssumption == Capacity \in Nat
ASSUME NoValueAssumption == NoValue \notin Value

Without(s, i) == SubSeq(s, 1, i - 1) \o SubSeq(s, i + 1, Len(s))

(***************************************************************************)
(* lru_cache_create refuses a capacity that is not positive: the caller    *)
(* keeps a NULL cache, on which every call is a no-op.                     *)
(***************************************************************************)
CacheOn == Capacity > 0

Empty == [val |-> [k \in Key |-> NoValue], order |-> <<>>, generation |-> 0]

Holds(c, k) == c.val[k] # NoValue

(***************************************************************************)
(* A key that is held is on the recency list exactly once (WellFormed).    *)
(***************************************************************************)
Place(c, k) == CHOOSE i \in DOMAIN c.order : c.order[i] = k

Touch(c, k) == [c EXCEPT !.order = Append(Without(@, Place(c, k)), k)]

Drop(c, k) == [c EXCEPT !.val[k] = NoValue, !.order = Without(@, Place(c, k))]

EvictLru(c) == IF c.order = <<>> THEN c ELSE Drop(c, Head(c.order))

PushBack(c, k, v) == [c EXCEPT !.val[k] = v, !.order = Append(@, k)]

\* Mutant of Store: a full cache takes the new entry without evicting one.
StoreWithoutEvicting(c, k, v) ==
    IF Holds(c, k) THEN Touch([c EXCEPT !.val[k] = v], k) ELSE PushBack(c, k, v)

Store(c, k, v) ==
    IF Holds(c, k)
    THEN Touch([c EXCEPT !.val[k] = v], k)
    ELSE PushBack(IF Len(c.order) >= Capacity THEN EvictLru(c) ELSE c, k, v)

Bump(c) == [c EXCEPT !.generation = @ + 1]

(***************************************************************************)
(* lru_get answers Found(c, k) and, on a hit, makes k most recently used.  *)
(***************************************************************************)
Found(c, k) == IF CacheOn THEN c.val[k] ELSE NoValue

Get(c, k) == IF Found(c, k) = NoValue THEN c ELSE Touch(c, k)

(***************************************************************************)
(* lru_put bumps the generation first.  The copy of the value may not be   *)
(* allocated: the store is then skipped and an older value stays in place. *)
(***************************************************************************)
Put(c, k, v) == IF CacheOn THEN Store(Bump(c), k, v) ELSE c

PutWithoutMemory(c) == IF CacheOn THEN Bump(c) ELSE c

\* Mutant of Fill: the generation is not compared.
FillAnyway(c, k, v, generation) == IF CacheOn THEN Store(c, k, v) ELSE c

(***************************************************************************)
(* lru_fill drops a value read before the last authoritative write.        *)
(***************************************************************************)
Fill(c, k, v, generation) ==
    IF CacheOn /\ c.generation = generation THEN Store(c, k, v) ELSE c

Invalidate(c, k) ==
    IF ~CacheOn THEN c ELSE IF Holds(c, k) THEN Drop(Bump(c), k) ELSE Bump(c)

-----------------------------------------------------------------------------
(***************************************************************************)
(* The shape every reachable cache has: the recency list holds each cached *)
(* key once and never more than Capacity of them.                          *)
(***************************************************************************)
Caches == [val : [Key -> Value \cup {NoValue}], order : Seq(Key), generation : Nat]

Distinct(s) == \A i, j \in DOMAIN s : s[i] = s[j] => i = j

Occurs(x, s) == \E i \in DOMAIN s : s[i] = x

WellFormed(c) ==
    /\ c \in Caches
    /\ Distinct(c.order)
    /\ \A k \in Key : Holds(c, k) <=> Occurs(k, c.order)
    /\ Len(c.order) <= Capacity
=============================================================================
