------------------------------ MODULE PoolSpec ------------------------------
(***************************************************************************)
(* What the storage pool promises the threads that submit to it: an        *)
(* accepted task waits, is started at most once, and is finished or, when  *)
(* the pool is closed before it was started, dropped.  Closing waits for   *)
(* the tasks in progress, and nothing happens after it.                    *)
(***************************************************************************)
CONSTANT Task

VARIABLES waiting, running, open

SpecInit == waiting = {} /\ running = {} /\ open = TRUE

Submit(t) ==
    /\ open
    /\ t \notin waiting \cup running
    /\ waiting' = waiting \cup {t}
    /\ UNCHANGED <<running, open>>

Start(t) ==
    /\ open
    /\ t \in waiting
    /\ waiting' = waiting \ {t}
    /\ running' = running \cup {t}
    /\ UNCHANGED open

Finish(t) ==
    /\ open
    /\ t \in running
    /\ running' = running \ {t}
    /\ UNCHANGED <<waiting, open>>

Close ==
    /\ open
    /\ running = {}
    /\ waiting' = {}
    /\ open' = FALSE
    /\ UNCHANGED running

SpecNext == Close \/ \E t \in Task : Submit(t) \/ Start(t) \/ Finish(t)

PromisedSpec == SpecInit /\ [][SpecNext]_<<waiting, running, open>>
=============================================================================
