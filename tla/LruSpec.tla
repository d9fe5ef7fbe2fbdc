------------------------------ MODULE LruSpec -------------------------------
(***************************************************************************)
(* What common/include/lru.h promises of the cache: every call acts at     *)
(* once on the value of LruCache and answers from it.                      *)
(***************************************************************************)
EXTENDS LruCache

VARIABLES contents,  \* the cache, as a value of LruCache
          answer     \* the last call and what it returned

Lookup(k) ==
    /\ answer' = <<"get", Found(contents, k)>>
    /\ contents' = Get(contents, k)

(***************************************************************************)
(* A put or a fill answers -1 when it finds no memory.                     *)
(***************************************************************************)
Write(k, v) ==
    \/ contents' = Put(contents, k, v) /\ answer' = <<"put", 0>>
    \/ contents' = PutWithoutMemory(contents) /\ answer' = <<"put", -1>>

(***************************************************************************)
(* A fill answers 1 when its generation is stale.                          *)
(***************************************************************************)
Refill(k, v, generation) ==
    IF contents.generation # generation
    THEN answer' = <<"fill", 1>> /\ UNCHANGED contents
    ELSE \/ contents' = Fill(contents, k, v, generation) /\ answer' = <<"fill", 0>>
         \/ UNCHANGED contents /\ answer' = <<"fill", -1>>

Remove(k) ==
    /\ answer' = <<"invalidate", Holds(contents, k)>>
    /\ contents' = Invalidate(contents, k)

SpecInit == contents = Empty /\ answer = <<"none">>

SpecNext ==
    \E k \in Key : \/ Lookup(k) \/ Remove(k)
                   \/ \E v \in Value : \/ Write(k, v)
                                       \/ \E g \in 0 .. contents.generation : Refill(k, v, g)

PromisedSpec == SpecInit /\ [][SpecNext]_<<contents, answer>>
=============================================================================
