----------------------------- MODULE Selection ------------------------------
(***************************************************************************)
(* The balancer's view of its backends: their passive health and the four  *)
(* ways of selecting one (balancer/src/selection.c, the mark_backend_      *)
(* functions of balancer.c), as operators on lb->backends.  Time is left   *)
(* out: any unhealthy backend may be one whose last failure is             *)
(* HEALTH_RECOVERY_SECS ago.  So are the statistics that nothing reads.    *)
(***************************************************************************)
EXTENDS Integers, Sequences, FiniteSets

CONSTANT FailureThreshold     \* HEALTH_FAILURE_THRESHOLD

\* add_backend
AddedBackend(weight) ==
    [weight |-> weight, health_status |-> 1, consecutive_failures |-> 0,
     current_weight |-> 0, current_connections |-> 0]

mark_backend_failure(bs, b) ==
    [bs EXCEPT ![b].consecutive_failures = @ + 1,
               ![b].health_status =
                   IF bs[b].consecutive_failures + 1 >= FailureThreshold THEN 0 ELSE @]

mark_backend_success(bs, b) ==
    [bs EXCEPT ![b].consecutive_failures = 0, ![b].health_status = 1]

\* Mutant of passive_recovery: the failures are not forgotten.
passive_recovery_keeps_failures(bs, due) ==
    [b \in DOMAIN bs |-> IF bs[b].health_status = 0 /\ b \in due
                         THEN [bs[b] EXCEPT !.health_status = 1] ELSE bs[b]]

\* due: the backends whose recovery time has passed.
passive_recovery(bs, due) ==
    [b \in DOMAIN bs |-> IF bs[b].health_status = 0 /\ b \in due
                         THEN [bs[b] EXCEPT !.health_status = 1, !.consecutive_failures = 0]
                         ELSE bs[b]]

Healthy(bs) == {b \in DOMAIN bs : bs[b].health_status = 1}

\* The sum of f over its domain, a finite set.
SumOf(f) ==
    LET sum[S \in SUBSET DOMAIN f] ==
            IF S = {} THEN 0
            ELSE LET x == CHOOSE x \in S : TRUE IN f[x] + sum[S \ {x}]
    IN  sum[DOMAIN f]

total_weight(bs) == SumOf([b \in Healthy(bs) |-> bs[b].weight])

\* The first healthy backend whose rank no other exceeds.
FirstBest(bs, rank) ==
    LET best == {b \in Healthy(bs) : \A c \in Healthy(bs) : rank[c] <= rank[b]} IN
    CHOOSE b \in best : \A c \in best : b <= c

(***************************************************************************)
(* A selection: the backend and the backends as it leaves them, called     *)
(* only when there is a healthy one.                                       *)
(***************************************************************************)
Raised(bs) ==
    [b \in DOMAIN bs |-> IF b \in Healthy(bs)
                         THEN [bs[b] EXCEPT !.current_weight = @ + bs[b].weight] ELSE bs[b]]

\* Mutant of backend_round_robin_select: the selected backend pays its own
\* weight only.
round_robin_pays_own(bs) ==
    LET raised == Raised(bs)
        b == FirstBest(raised, [c \in DOMAIN bs |-> raised[c].current_weight])
    IN  [id |-> b, backends |-> [raised EXCEPT ![b].current_weight = @ - bs[b].weight]]

backend_round_robin_select(bs) ==
    LET raised == Raised(bs)
        b == FirstBest(raised, [c \in DOMAIN bs |-> raised[c].current_weight])
    IN  [id |-> b, backends |-> [raised EXCEPT ![b].current_weight = @ - total_weight(bs)]]

\* Mutant of least_connection_select: the connection is counted here already.
least_connection_reserves(bs) ==
    LET b == FirstBest(bs, [c \in DOMAIN bs |-> -bs[c].current_connections]) IN
    [id |-> b, backends |-> [bs EXCEPT ![b].current_connections = @ + 1]]

least_connection_select(bs) ==
    [id |-> FirstBest(bs, [b \in DOMAIN bs |-> -bs[b].current_connections]), backends |-> bs]

\* The first healthy backend from position hash % backend_count on.
ip_hash_select(bs, hash) ==
    [id |-> FirstBest(bs, [b \in DOMAIN bs |-> -((b - 1 - hash) % Len(bs))]), backends |-> bs]

\* Each of the healthy ones, for some value of rand().
random_select(bs, b) == [id |-> b, backends |-> bs]

\* The possible results of select_backend, over the client addresses' hashes
\* and rand().
select_backend(strategy, bs) ==
    IF Healthy(bs) = {} THEN {}
    ELSE CASE strategy = "round_robin" -> {backend_round_robin_select(bs)}
           [] strategy = "least_conn" -> {least_connection_select(bs)}
           [] strategy = "ip_hash" -> {ip_hash_select(bs, hash) : hash \in 0 .. Len(bs) - 1}
           [] strategy = "random" -> {random_select(bs, b) : b \in Healthy(bs)}
=============================================================================
