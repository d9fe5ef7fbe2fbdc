--------------------------- MODULE LruCacheProofs ---------------------------
(***************************************************************************)
(* What the operations of the LRU cache do to its contents, for every set  *)
(* of keys and values and every capacity: each keeps the cache well formed *)
(* (at most Capacity entries, each key on the list of use exactly once)    *)
(* and changes the value of no key but its own, except for the one it      *)
(* evicts.                                                                 *)
(***************************************************************************)
EXTENDS LruCache, TLAPS

(***************************************************************************)
(* Taking position p out of a list: its length and its elements            *)
(* (list_unlink).                                                          *)
(***************************************************************************)
LEMMA WithoutFacts ==
  ASSUME NEW S, NEW s \in Seq(S), NEW p \in DOMAIN s
  PROVE  /\ Without(s, p) \in Seq(S)
         /\ Len(Without(s, p)) = Len(s) - 1
         /\ \A i \in 1 .. Len(s) - 1 :
               Without(s, p)[i] = IF i < p THEN s[i] ELSE s[i + 1]
<1> DEFINE a == SubSeq(s, 1, p - 1)
           b == SubSeq(s, p + 1, Len(s))
<1>1. Len(s) \in Nat /\ p \in 1 .. Len(s)
  OBVIOUS
<1>2. a \in Seq(S) /\ Len(a) = p - 1 /\ \A i \in 1 .. p - 1 : a[i] = s[i]
  BY <1>1
<1>3. b \in Seq(S) /\ Len(b) = Len(s) - p /\ \A i \in 1 .. Len(s) - p : b[i] = s[p + i]
  BY <1>1
<1> HIDE DEF a, b
<1>4. a \o b \in Seq(S) /\ Len(a \o b) = Len(s) - 1
  BY <1>1, <1>2, <1>3
<1>5. ASSUME NEW i \in 1 .. Len(s) - 1
      PROVE  (a \o b)[i] = IF i < p THEN s[i] ELSE s[i + 1]
  <2>0. i < p \/ i >= p
    BY <1>1
  <2>1. CASE i < p
    <3>1. i \in 1 .. Len(a) /\ a[i] = s[i]
      BY <1>1, <1>2, <2>1
    <3> QED BY <1>2, <1>3, <2>1, <3>1
  <2>2. CASE i >= p
    <3>1. i - Len(a) \in 1 .. Len(b) /\ i > Len(a) /\ b[i - Len(a)] = s[i + 1]
      BY <1>1, <1>2, <1>3, <2>2, SMTT(60)
    <3>2. (a \o b)[i] = b[i - Len(a)]
      BY <1>2, <1>3, <3>1, SMTT(60)
    <3> QED BY <1>1, <2>2, <3>1, <3>2
  <2> QED BY <2>0, <2>1, <2>2, ZenonT(60)
<1>6. Without(s, p) = a \o b
  BY DEF Without, a, b
<1> QED BY <1>4, <1>5, <1>6

(***************************************************************************)
(* Unlinking one node of a duplicate-free list removes that key, no other, *)
(* and introduces no duplicate.                                            *)
(***************************************************************************)
LEMMA WithoutKeeps ==
  ASSUME NEW S, NEW s \in Seq(S), NEW p \in DOMAIN s, Distinct(s)
  PROVE  /\ Distinct(Without(s, p))
         /\ \A x \in S : Occurs(x, Without(s, p)) <=> x # s[p] /\ Occurs(x, s)
<1> DEFINE r == Without(s, p)
<1>1. r \in Seq(S) /\ Len(r) = Len(s) - 1
      /\ \A i \in 1 .. Len(s) - 1 : r[i] = IF i < p THEN s[i] ELSE s[i + 1]
  BY WithoutFacts
<1>2. DOMAIN r = 1 .. Len(s) - 1 /\ DOMAIN s = 1 .. Len(s) /\ Len(s) \in Nat
  BY <1>1
<1> HIDE DEF r
<1>3. Distinct(r)
  <2> DEFINE at(k) == IF k < p THEN k ELSE k + 1
  <2>1. p \in Int
    BY <1>2
  <2>2. ASSUME NEW k \in DOMAIN r
        PROVE  at(k) \in DOMAIN s /\ r[k] = s[at(k)]
    BY <1>1, <1>2, <2>1
  <2>3. ASSUME NEW i \in DOMAIN r, NEW j \in DOMAIN r, at(i) = at(j)
        PROVE  i = j
    BY <1>2, <2>1, <2>3
  <2> HIDE DEF at
  <2>4. ASSUME NEW i \in DOMAIN r, NEW j \in DOMAIN r, r[i] = r[j]
        PROVE  at(i) = at(j)
    BY <2>2, <2>4 DEF Distinct
  <2> QED BY <2>3, <2>4 DEF Distinct
<1>4. ASSUME NEW x \in S, NEW i \in DOMAIN r, r[i] = x
      PROVE  x # s[p] /\ \E j \in DOMAIN s : s[j] = x
  BY <1>1, <1>2, <1>4, SMTT(60) DEF Distinct
<1>5. ASSUME NEW x \in S, NEW i \in DOMAIN s, s[i] = x, x # s[p]
      PROVE  \E j \in DOMAIN r : r[j] = x
  <2>1. CASE i < p
    <3>1. i \in DOMAIN r /\ r[i] = x
      BY <1>1, <1>2, <1>5, <2>1
    <3> QED BY <3>1
  <2>2. CASE i > p
    <3>1. i - 1 \in DOMAIN r /\ r[i - 1] = x
      BY <1>1, <1>2, <1>5, <2>2
    <3> QED BY <3>1
  <2> QED BY <1>2, <1>5, <2>1, <2>2
<1>6. \A x \in S : Occurs(x, r) <=> x # s[p] /\ Occurs(x, s)
  BY <1>4, <1>5 DEF Occurs
<1> QED BY <1>3, <1>6 DEF r

(***************************************************************************)
(* Pushing a new key behind the tail keeps the list free of duplicates and *)
(* adds that key only (list_push_back).                                    *)
(***************************************************************************)
LEMMA AppendFacts ==
  ASSUME NEW S, NEW r \in Seq(S), NEW k \in S, Distinct(r), ~Occurs(k, r)
  PROVE  /\ Append(r, k) \in Seq(S)
         /\ Len(Append(r, k)) = Len(r) + 1
         /\ Distinct(Append(r, k))
         /\ \A x \in S : Occurs(x, Append(r, k)) <=> x = k \/ Occurs(x, r)
<1> DEFINE q == Append(r, k)
<1>1. q \in Seq(S) /\ Len(q) = Len(r) + 1 /\ DOMAIN q = 1 .. Len(r) + 1
      /\ DOMAIN r = 1 .. Len(r) /\ Len(r) \in Nat
      /\ q[Len(r) + 1] = k /\ \A i \in 1 .. Len(r) : q[i] = r[i]
  OBVIOUS
<1> HIDE DEF q
<1>2. Distinct(q)
  BY <1>1 DEF Distinct, Occurs
<1>3. ASSUME NEW x \in S, NEW i \in DOMAIN r, r[i] = x
      PROVE  Occurs(x, q)
  <2>1. i \in DOMAIN q /\ q[i] = x
    BY <1>1, <1>3
  <2> QED BY <2>1 DEF Occurs
<1>4. Occurs(k, q)
  BY <1>1 DEF Occurs
<1>5. ASSUME NEW x \in S, NEW i \in DOMAIN q, q[i] = x, x # k
      PROVE  Occurs(x, r)
  <2>1. i \in DOMAIN r /\ r[i] = x
    BY <1>1, <1>5
  <2> QED BY <2>1 DEF Occurs
<1>6. \A x \in S : Occurs(x, q) <=> x = k \/ Occurs(x, r)
  BY <1>3, <1>4, <1>5 DEF Occurs
<1> QED BY <1>1, <1>2, <1>6 DEF q

-----------------------------------------------------------------------------
\* A key on the list has a position there.
LEMMA PlaceFacts ==
  ASSUME NEW c, WellFormed(c), NEW k \in Key, Holds(c, k)
  PROVE  Place(c, k) \in DOMAIN c.order /\ c.order[Place(c, k)] = k
BY DEF WellFormed, Place, Occurs

(***************************************************************************)
(* Moving an entry to the most recent end keeps the cache well formed and  *)
(* its values as they were (touch).                                        *)
(***************************************************************************)
LEMMA TouchFacts ==
  ASSUME NEW c, WellFormed(c), NEW k \in Key, Holds(c, k)
  PROVE  /\ WellFormed(Touch(c, k))
         /\ Touch(c, k).val = c.val
         /\ Touch(c, k).generation = c.generation
<1> DEFINE s == c.order
           p == Place(c, k)
           r == Without(s, p)
           q == Append(r, k)
<1>1. c \in Caches /\ s \in Seq(Key) /\ Distinct(s) /\ Len(s) <= Capacity
  BY DEF WellFormed, Caches
<1>2. p \in DOMAIN s /\ s[p] = k
  BY PlaceFacts
<1> HIDE DEF s, p
<1>3. r \in Seq(Key) /\ Len(r) = Len(s) - 1
  BY <1>1, <1>2, WithoutFacts
<1>4. Distinct(r) /\ \A x \in Key : Occurs(x, r) <=> x # k /\ Occurs(x, s)
  BY <1>1, <1>2, WithoutKeeps
<1> HIDE DEF r
<1>5. /\ q \in Seq(Key) /\ Len(q) = Len(r) + 1 /\ Distinct(q)
      /\ \A x \in Key : Occurs(x, q) <=> x = k \/ Occurs(x, r)
  BY <1>3, <1>4, AppendFacts
<1> HIDE DEF q
<1>6. Touch(c, k) = [c EXCEPT !.order = q]
  BY DEF Touch, q, r, p, s
<1>7. /\ Touch(c, k) \in Caches
      /\ Touch(c, k).val = c.val
      /\ Touch(c, k).generation = c.generation
      /\ Touch(c, k).order = q
  BY <1>1, <1>5, <1>6, ZenonT(40) DEF Caches
<1>8. \A x \in Key : Holds(c, x) <=> Occurs(x, s)
  BY DEF WellFormed, s
<1>9. \A x \in Key : Holds(Touch(c, k), x) <=> Occurs(x, q)
  BY <1>4, <1>5, <1>7, <1>8 DEF Holds
<1>10. Len(q) <= Capacity
  BY <1>1, <1>3, <1>5
<1> QED BY <1>5, <1>7, <1>9, <1>10 DEF WellFormed

(***************************************************************************)
(* Removing an entry keeps the cache well formed and forgets that key only *)
(* (hash_remove and list_unlink together).                                 *)
(***************************************************************************)
LEMMA DropFacts ==
  ASSUME NEW c, WellFormed(c), NEW k \in Key, Holds(c, k)
  PROVE  /\ WellFormed(Drop(c, k))
         /\ Drop(c, k).val = [c.val EXCEPT ![k] = NoValue]
         /\ Drop(c, k).generation = c.generation
         /\ Len(Drop(c, k).order) = Len(c.order) - 1
<1> DEFINE s == c.order
           p == Place(c, k)
           r == Without(s, p)
<1>1. c \in Caches /\ s \in Seq(Key) /\ Distinct(s) /\ Len(s) <= Capacity
  BY DEF WellFormed, Caches
<1>2. p \in DOMAIN s /\ s[p] = k
  BY PlaceFacts
<1> HIDE DEF s, p
<1>3. r \in Seq(Key) /\ Len(r) = Len(s) - 1
  BY <1>1, <1>2, WithoutFacts
<1>4. Distinct(r) /\ \A x \in Key : Occurs(x, r) <=> x # k /\ Occurs(x, s)
  BY <1>1, <1>2, WithoutKeeps
<1> HIDE DEF r
<1>5. Drop(c, k) = [c EXCEPT !.val[k] = NoValue, !.order = r]
  BY DEF Drop, r, p, s
<1>6. /\ Drop(c, k) \in Caches
      /\ Drop(c, k).val = [c.val EXCEPT ![k] = NoValue]
      /\ Drop(c, k).generation = c.generation
      /\ Drop(c, k).order = r
  BY <1>1, <1>3, <1>5, ZenonT(40) DEF Caches
<1>7. \A x \in Key : Holds(c, x) <=> Occurs(x, s)
  BY DEF WellFormed, s
<1>8. \A x \in Key : Holds(Drop(c, k), x) <=> Occurs(x, r)
  BY <1>1, <1>4, <1>6, <1>7 DEF Holds, Caches
<1>9. Len(r) <= Capacity /\ Len(r) = Len(c.order) - 1
  BY <1>1, <1>3, CapacityAssumption DEF s
<1> QED BY <1>4, <1>6, <1>8, <1>9 DEF WellFormed

\* A new entry in a cache with room keeps it well formed.
LEMMA PushBackFacts ==
  ASSUME NEW c, WellFormed(c), NEW k \in Key, ~Holds(c, k), NEW v \in Value,
         Len(c.order) < Capacity
  PROVE  /\ WellFormed(PushBack(c, k, v))
         /\ PushBack(c, k, v).val = [c.val EXCEPT ![k] = v]
         /\ PushBack(c, k, v).generation = c.generation
<1> DEFINE s == c.order
           q == Append(s, k)
<1>1. c \in Caches /\ s \in Seq(Key) /\ Distinct(s) /\ Len(s) < Capacity
  BY DEF WellFormed, Caches
<1>2. \A x \in Key : Holds(c, x) <=> Occurs(x, s)
  BY DEF WellFormed
<1> HIDE DEF s
<1>3. /\ q \in Seq(Key) /\ Len(q) = Len(s) + 1 /\ Distinct(q)
      /\ \A x \in Key : Occurs(x, q) <=> x = k \/ Occurs(x, s)
  BY <1>1, <1>2, AppendFacts
<1> HIDE DEF q
<1>4. PushBack(c, k, v) = [c EXCEPT !.val[k] = v, !.order = q]
  BY DEF PushBack, q, s
<1>5. /\ PushBack(c, k, v) \in Caches
      /\ PushBack(c, k, v).val = [c.val EXCEPT ![k] = v]
      /\ PushBack(c, k, v).generation = c.generation
      /\ PushBack(c, k, v).order = q
  BY <1>1, <1>3, <1>4, ZenonT(40) DEF Caches
<1>6. \A x \in Key : Holds(PushBack(c, k, v), x) <=> Occurs(x, q)
  BY <1>1, <1>2, <1>3, <1>5, NoValueAssumption DEF Holds, Caches
<1>7. Len(q) <= Capacity
  BY <1>1, <1>3, CapacityAssumption
<1> QED BY <1>3, <1>5, <1>6, <1>7 DEF WellFormed

\* Overwriting the value of an entry keeps the cache well formed.
LEMMA ReplaceFacts ==
  ASSUME NEW c, WellFormed(c), NEW k \in Key, Holds(c, k), NEW v \in Value
  PROVE  LET d == [c EXCEPT !.val[k] = v] IN
         /\ WellFormed(d) /\ Holds(d, k)
         /\ d.val = [c.val EXCEPT ![k] = v]
         /\ d.generation = c.generation
<1> DEFINE d == [c EXCEPT !.val[k] = v]
<1>1. c \in Caches
  BY DEF WellFormed
<1>2. /\ d \in Caches
      /\ d.val = [c.val EXCEPT ![k] = v]
      /\ d.generation = c.generation
      /\ d.order = c.order
  BY <1>1 DEF Caches
<1> HIDE DEF d
<1>3. \A x \in Key : Holds(d, x) <=> Holds(c, x)
  BY <1>1, <1>2, NoValueAssumption DEF Holds, Caches
<1>4. WellFormed(d)
  BY <1>2, <1>3 DEF WellFormed
<1> QED BY <1>2, <1>3, <1>4 DEF d

(***************************************************************************)
(* Evicting the head of a full cache makes room for one entry and changes  *)
(* no other key (evict_lru).                                               *)
(***************************************************************************)
LEMMA EvictFacts ==
  ASSUME NEW c, WellFormed(c), c.order # <<>>
  PROVE  /\ WellFormed(EvictLru(c))
         /\ EvictLru(c).val = [c.val EXCEPT ![Head(c.order)] = NoValue]
         /\ EvictLru(c).generation = c.generation
         /\ Len(EvictLru(c).order) = Len(c.order) - 1
<1>1. c.order \in Seq(Key)
  BY DEF WellFormed, Caches
<1>2. Head(c.order) \in Key /\ 1 \in DOMAIN c.order /\ c.order[1] = Head(c.order)
  BY <1>1
<1>3. Holds(c, Head(c.order))
  BY <1>2 DEF WellFormed, Occurs
<1> QED BY <1>2, <1>3, DropFacts, ZenonT(60) DEF EvictLru

(***************************************************************************)
(* store() of lru.c puts the value in place, drops at most other keys, and *)
(* keeps the table and the recency list in step and within capacity.       *)
(***************************************************************************)
THEOREM StoreFacts ==
  ASSUME NEW c, WellFormed(c), NEW k \in Key, NEW v \in Value, CacheOn
  PROVE  /\ WellFormed(Store(c, k, v))
         /\ Store(c, k, v).val[k] = v
         /\ \A x \in Key \ {k} : Store(c, k, v).val[x] \in {c.val[x], NoValue}
         /\ Store(c, k, v).generation = c.generation
<1>1. c \in Caches /\ c.order \in Seq(Key) /\ Len(c.order) <= Capacity /\ Len(c.order) \in Nat
  BY DEF WellFormed, Caches
<1>2. CASE Holds(c, k)
  <2> DEFINE d == [c EXCEPT !.val[k] = v]
  <2>1. WellFormed(d) /\ Holds(d, k) /\ d.val = [c.val EXCEPT ![k] = v]
        /\ d.generation = c.generation
    BY <1>2, ReplaceFacts
  <2> HIDE DEF d
  <2>2. Store(c, k, v) = Touch(d, k)
    BY <1>2 DEF Store, d
  <2>3. WellFormed(Touch(d, k)) /\ Touch(d, k).val = d.val
        /\ Touch(d, k).generation = d.generation
    BY <2>1, TouchFacts
  <2> QED BY <1>1, <2>1, <2>2, <2>3 DEF Caches
<1>3. CASE ~Holds(c, k)
  <2> DEFINE e == IF Len(c.order) >= Capacity THEN EvictLru(c) ELSE c
  <2>1. WellFormed(e) /\ Len(e.order) < Capacity /\ e.generation = c.generation
        /\ \A x \in Key : e.val[x] \in {c.val[x], NoValue}
    <3>1. CASE Len(c.order) >= Capacity
      <4>1. c.order # <<>>
        BY <1>1, <3>1, CapacityAssumption DEF CacheOn
      <4>2. WellFormed(e) /\ e.generation = c.generation /\ Len(e.order) = Len(c.order) - 1
            /\ e.val = [c.val EXCEPT ![Head(c.order)] = NoValue]
        BY <3>1, <4>1, EvictFacts
      <4> HIDE DEF e
      <4> QED BY <1>1, <4>2, CapacityAssumption DEF Caches
    <3>2. CASE ~(Len(c.order) >= Capacity)
      BY <1>1, <3>2, CapacityAssumption
    <3> QED BY <3>1, <3>2
  <2>2. Store(c, k, v) = PushBack(e, k, v)
    BY <1>3 DEF Store
  <2> HIDE DEF e
  <2>3. ~Holds(e, k)
    BY <1>3, <2>1 DEF Holds
  <2>4. WellFormed(PushBack(e, k, v)) /\ PushBack(e, k, v).val = [e.val EXCEPT ![k] = v]
        /\ PushBack(e, k, v).generation = e.generation
    BY <2>1, <2>3, PushBackFacts
  <2>5. e \in Caches
    BY <2>1 DEF WellFormed
  <2> QED BY <2>1, <2>2, <2>4, <2>5 DEF Caches
<1> QED BY <1>2, <1>3

\* The generation counter goes up by one and nothing else changes.
LEMMA BumpFacts ==
  ASSUME NEW c, WellFormed(c)
  PROVE  /\ WellFormed(Bump(c))
         /\ Bump(c).val = c.val
         /\ Bump(c).generation = c.generation + 1
<1>1. c \in Caches
  BY DEF WellFormed
<1>2. /\ Bump(c) \in Caches
      /\ Bump(c).val = c.val
      /\ Bump(c).order = c.order
      /\ Bump(c).generation = c.generation + 1
  BY <1>1 DEF Caches, Bump
<1> QED BY <1>2 DEF WellFormed, Holds

-----------------------------------------------------------------------------
(***************************************************************************)
(* What a user of the cache relies on, call by call.                       *)
(***************************************************************************)
LEMMA EmptyFacts == WellFormed(Empty)
<1>1. Empty \in Caches /\ Empty.val = [k \in Key |-> NoValue] /\ Empty.order = <<>>
  BY DEF Empty, Caches
<1>2. DOMAIN Empty.order = {} /\ Len(Empty.order) = 0
  BY <1>1
<1> QED BY <1>1, <1>2, CapacityAssumption DEF WellFormed, Holds, Occurs, Distinct

(***************************************************************************)
(* A cache that could not be created holds nothing.                        *)
(***************************************************************************)
LEMMA OffFacts ==
  ASSUME NEW c, WellFormed(c), ~CacheOn
  PROVE  \A k \in Key : c.val[k] = NoValue
<1>1. c.order \in Seq(Key) /\ Len(c.order) <= 0
  BY CapacityAssumption DEF WellFormed, Caches, CacheOn
<1>2. DOMAIN c.order = {}
  BY <1>1
<1> QED BY <1>2 DEF WellFormed, Holds, Occurs

\* lru_get changes the order of use, and no value.
LEMMA GetFacts ==
  ASSUME NEW c, WellFormed(c), NEW k \in Key
  PROVE  WellFormed(Get(c, k)) /\ Get(c, k).val = c.val
         /\ Get(c, k).generation = c.generation
<1>1. CASE Found(c, k) = NoValue
  BY <1>1 DEF Get
<1>2. CASE Found(c, k) # NoValue
  <2>1. Holds(c, k)
    BY <1>2 DEF Found, Holds
  <2> QED BY <1>2, <2>1, TouchFacts DEF Get
<1> QED BY <1>1, <1>2

(***************************************************************************)
(* lru_put stores the value under its key, leaves every other key with its *)
(* value or evicted, counts the write and keeps the cache well formed.     *)
(***************************************************************************)
THEOREM PutFacts ==
  ASSUME NEW c, WellFormed(c), NEW k \in Key, NEW v \in Value, CacheOn
  PROVE  /\ WellFormed(Put(c, k, v))
         /\ Put(c, k, v).val[k] = v
         /\ \A x \in Key \ {k} : Put(c, k, v).val[x] \in {c.val[x], NoValue}
         /\ Put(c, k, v).generation = c.generation + 1
<1>1. Put(c, k, v) = Store(Bump(c), k, v)
  BY DEF Put
<1>2. WellFormed(Bump(c)) /\ Bump(c).val = c.val /\ Bump(c).generation = c.generation + 1
  BY BumpFacts
<1> QED BY <1>1, <1>2, StoreFacts

\* lru_put counts the write even when it cannot allocate the node.
LEMMA PutWithoutMemoryFacts ==
  ASSUME NEW c, WellFormed(c)
  PROVE  WellFormed(PutWithoutMemory(c))
BY BumpFacts DEF PutWithoutMemory

(***************************************************************************)
(* A fill with a stale generation changes nothing.                         *)
(***************************************************************************)
THEOREM FillFacts ==
  ASSUME NEW c, WellFormed(c), NEW k \in Key, NEW v \in Value, NEW g \in Nat
  PROVE  /\ WellFormed(Fill(c, k, v, g))
         /\ Fill(c, k, v, g).generation = c.generation
         /\ \A x \in Key \ {k} : Fill(c, k, v, g).val[x] \in {c.val[x], NoValue}
         /\ Fill(c, k, v, g).val[k] = IF CacheOn /\ g = c.generation THEN v ELSE c.val[k]
BY StoreFacts DEF Fill

(***************************************************************************)
(* lru_invalidate forgets the key and no other, counts the write and keeps *)
(* the cache well formed.                                                  *)
(***************************************************************************)
THEOREM InvalidateFacts ==
  ASSUME NEW c, WellFormed(c), NEW k \in Key, CacheOn
  PROVE  /\ WellFormed(Invalidate(c, k))
         /\ Invalidate(c, k).val = [c.val EXCEPT ![k] = NoValue]
         /\ Invalidate(c, k).generation = c.generation + 1
<1>1. WellFormed(Bump(c)) /\ Bump(c).val = c.val /\ Bump(c).generation = c.generation + 1
  BY BumpFacts
<1>2. CASE Holds(c, k)
  <2>1. Invalidate(c, k) = Drop(Bump(c), k)
    BY <1>2 DEF Invalidate
  <2>2. Holds(Bump(c), k)
    BY <1>1, <1>2 DEF Holds
  <2> QED BY <1>1, <2>1, <2>2, DropFacts, SMTT(60)
<1>3. CASE ~Holds(c, k)
  <2>1. Invalidate(c, k) = Bump(c)
    BY <1>3 DEF Invalidate
  <2>2. c.val = [c.val EXCEPT ![k] = NoValue]
    BY <1>3 DEF Holds, WellFormed, Caches
  <2> QED BY <1>1, <2>1, <2>2
<1> QED BY <1>2, <1>3
=============================================================================
