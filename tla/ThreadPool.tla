----------------------------- MODULE ThreadPool -----------------------------
(***************************************************************************)
(* The storage thread pool of common/src/thread_pool.c: one queue with a   *)
(* FIFO per priority behind a mutex and a condition variable, the workers  *)
(* that serve it, the callers of thread_pool_submit, and the thread that   *)
(* creates the pool and later destroys it.                                 *)
(*                                                                         *)
(* The pool is created as the server creates it, without work stealing;    *)
(* with it nothing would change but two probes of local queues that no     *)
(* code ever fills.  Timing and the counters are left out.                 *)
(***************************************************************************)
EXTENDS Integers, Sequences, FiniteSets

CONSTANTS
    Worker,         \* the pool's threads
    Submitter,      \* the threads that submit: the server's event loops
    Task,           \* the work submitted, one offloaded connection each
    NumPriorities,  \* STORAGE_POOL_PRIORITIES; the highest is served first
    None,           \* no task, no thread
    CreateMayFail,  \* may pthread_create fail?
    SubmitMayFail   \* may malloc fail in thread_pool_submit?

ASSUME WorkerAssumption == IsFiniteSet(Worker)
ASSUME NumPrioritiesAssumption == NumPriorities \in Nat \ {0}
ASSUME NoneAssumption == None \notin Task \cup Worker
ASSUME FailuresAssumption == CreateMayFail \in BOOLEAN /\ SubmitMayFail \in BOOLEAN

Priority == 0 .. NumPriorities - 1
Highest  == NumPriorities - 1

VARIABLES
    queues,         \* the tasks queued at each priority, oldest first
    size,           \* queue->size, the count task_queue_pop tests
    mutex,          \* the worker holding the queue's mutex across a step
    worker,         \* where each worker is, and the task it runs
    shutdown,       \* pool->shutdown
    queue_shutdown, \* pool->task_queue.shutdown
    submit,         \* each submitter's thread_pool_submit in progress
    owner           \* how far the owner is in creating or destroying the pool

vars == <<queues, size, mutex, worker, shutdown, queue_shutdown, submit, owner>>

-----------------------------------------------------------------------------
(***************************************************************************)
(* A worker is unborn until pthread_create returns.  Then it is at the     *)
(* head of its loop, at the mutex of task_queue_pop, deciding to wait with *)
(* the mutex held, parked on the condition, woken and back at the mutex,   *)
(* running a task, or gone.                                                *)
(***************************************************************************)
WorkerSteps == {"unborn", "loop", "pop", "deciding", "parked", "woken", "run", "exited"}
OwnerSteps  == {"creating", "open", "flag_queue", "broadcast", "join", "freed"}

At(w, step)  == worker[w].step = step
WorkersAt(S) == {w \in Worker : worker[w].step \in S}
Move(w, step) == worker' = [worker EXCEPT ![w].step = step]

Idle == [step |-> "idle", task |-> None, priority |-> 0]
Submits == [step : {"idle", "push", "left"}, task : Task \cup {None}, priority : Priority]

QueuedAt(p) == {queues[p][i] : i \in 1 .. Len(queues[p])}
Queued      == UNION {QueuedAt(p) : p \in Priority}
Running     == {worker[w].task : w \in WorkersAt({"run"})}
Pushing     == {submit[s].task : s \in {r \in Submitter : submit[r].step = "push"}}

Init ==
    /\ queues = [p \in Priority |-> <<>>]
    /\ size = 0
    /\ mutex = None
    /\ worker = [w \in Worker |-> [step |-> "unborn", task |-> None]]
    /\ shutdown = FALSE
    /\ queue_shutdown = FALSE
    /\ submit = [s \in Submitter |-> Idle]
    /\ owner = "creating"

-----------------------------------------------------------------------------
(***************************************************************************)
(* thread_pool_create starts the workers one by one; those started run     *)
(* while the others are being created.  If one cannot be started the pool  *)
(* is destroyed again.                                                     *)
(***************************************************************************)
CreateWorker(w) ==
    /\ owner = "creating"
    /\ At(w, "unborn")
    /\ Move(w, "loop")
    /\ UNCHANGED <<queues, size, mutex, shutdown, queue_shutdown, submit, owner>>

CreateReturns ==
    /\ owner = "creating"
    /\ WorkersAt({"unborn"}) = {}
    /\ owner' = "open"
    /\ UNCHANGED <<queues, size, mutex, worker, shutdown, queue_shutdown, submit>>

CreateFails ==
    /\ CreateMayFail
    /\ owner = "creating"
    /\ WorkersAt({"unborn"}) # {}
    /\ shutdown' = TRUE
    /\ owner' = "flag_queue"
    /\ UNCHANGED <<queues, size, mutex, worker, queue_shutdown, submit>>

-----------------------------------------------------------------------------
(***************************************************************************)
(* thread_pool_submit: the shutdown test and the allocation, then the push *)
(* under the mutex, which signals one parked worker if there is one.  A    *)
(* refused call returns -1 and leaves nothing behind.                      *)
(***************************************************************************)
SubmitCall(s, t, p) ==
    /\ owner \notin {"creating", "freed"}
    /\ submit[s].step = "idle"
    /\ t \notin Queued \cup Running \cup Pushing
    /\ ~shutdown
    /\ submit' = [submit EXCEPT ![s] = [step |-> "push", task |-> t, priority |-> p]]
    /\ UNCHANGED <<queues, size, mutex, worker, shutdown, queue_shutdown, owner>>

SubmitFails(s) ==
    /\ SubmitMayFail
    /\ submit[s].step = "push"
    /\ submit' = [submit EXCEPT ![s] = Idle]
    /\ UNCHANGED <<queues, size, mutex, worker, shutdown, queue_shutdown, owner>>

SignalOne ==
    \/ WorkersAt({"parked"}) = {} /\ UNCHANGED worker
    \/ \E w \in WorkersAt({"parked"}) : Move(w, "woken")

\* Mutant: a signal only when the queue was empty.
PushSignalsIfEmpty(s) ==
    /\ submit[s].step = "push"
    /\ mutex = None
    /\ queues' = [queues EXCEPT ![submit[s].priority] = Append(@, submit[s].task)]
    /\ size' = size + 1
    /\ IF size = 0 THEN SignalOne ELSE UNCHANGED worker
    /\ submit' = [submit EXCEPT ![s] = Idle]
    /\ UNCHANGED <<mutex, shutdown, queue_shutdown, owner>>

\* Mutant: the new task is put at the head of its queue.
PushAtHead(s) ==
    /\ submit[s].step = "push"
    /\ mutex = None
    /\ queues' = [queues EXCEPT ![submit[s].priority] = <<submit[s].task>> \o @]
    /\ size' = size + 1
    /\ SignalOne
    /\ submit' = [submit EXCEPT ![s] = Idle]
    /\ UNCHANGED <<mutex, shutdown, queue_shutdown, owner>>

task_queue_push(s) ==
    /\ submit[s].step = "push"
    /\ mutex = None
    /\ queues' = [queues EXCEPT ![submit[s].priority] = Append(@, submit[s].task)]
    /\ size' = size + 1
    /\ SignalOne
    /\ submit' = [submit EXCEPT ![s] = Idle]
    /\ UNCHANGED <<mutex, shutdown, queue_shutdown, owner>>

(***************************************************************************)
(* A submitting thread leaves for good: http_server_cleanup has stopped    *)
(* the event loops and joins them before it destroys the pool.             *)
(***************************************************************************)
SubmitterLeaves(s) ==
    /\ submit[s].step = "idle"
    /\ submit' = [submit EXCEPT ![s].step = "left"]
    /\ UNCHANGED <<queues, size, mutex, worker, shutdown, queue_shutdown, owner>>

-----------------------------------------------------------------------------
(***************************************************************************)
(* worker_thread and task_queue_pop.  The critical section of a pop that   *)
(* finds work is one step.  One that finds none holds the mutex until      *)
(* pthread_cond_wait releases it, since queue_shutdown is set without it.  *)
(***************************************************************************)
WorkerLoops(w) ==
    /\ At(w, "loop")
    /\ Move(w, IF shutdown THEN "exited" ELSE "pop")
    /\ UNCHANGED <<queues, size, mutex, shutdown, queue_shutdown, submit, owner>>

\* Mutant: the priorities are scanned from the lowest up.
ServedLowest == CHOOSE p \in Priority :
                  queues[p] # <<>> /\ \A q \in Priority : queues[q] # <<>> => q >= p

Served == CHOOSE p \in Priority :
            queues[p] # <<>> /\ \A q \in Priority : queues[q] # <<>> => q <= p

\* Mutant: the size is not decremented with the task taken.
PopTaskUncounted(w) ==
    /\ worker[w].step \in {"pop", "woken"}
    /\ mutex = None
    /\ size # 0
    /\ worker' = [worker EXCEPT ![w] = [step |-> "run", task |-> Head(queues[Served])]]
    /\ queues' = [queues EXCEPT ![Served] = Tail(@)]
    /\ UNCHANGED <<size, mutex, shutdown, queue_shutdown, submit, owner>>

PopTask(w) ==
    /\ worker[w].step \in {"pop", "woken"}
    /\ mutex = None
    /\ size # 0
    /\ worker' = [worker EXCEPT ![w] = [step |-> "run", task |-> Head(queues[Served])]]
    /\ queues' = [queues EXCEPT ![Served] = Tail(@)]
    /\ size' = size - 1
    /\ UNCHANGED <<mutex, shutdown, queue_shutdown, submit, owner>>

PopNothing(w) ==
    /\ worker[w].step \in {"pop", "woken"}
    /\ mutex = None
    /\ size = 0
    /\ IF queue_shutdown
       THEN Move(w, "loop") /\ UNCHANGED mutex
       ELSE Move(w, "deciding") /\ mutex' = w
    /\ UNCHANGED <<queues, size, shutdown, queue_shutdown, submit, owner>>

Park(w) ==
    /\ At(w, "deciding")
    /\ Move(w, "parked")
    /\ mutex' = None
    /\ UNCHANGED <<queues, size, shutdown, queue_shutdown, submit, owner>>

SpuriousWakeup(w) ==
    /\ At(w, "parked")
    /\ Move(w, "woken")
    /\ UNCHANGED <<queues, size, mutex, shutdown, queue_shutdown, submit, owner>>

TaskReturns(w) ==
    /\ At(w, "run")
    /\ worker' = [worker EXCEPT ![w] = [step |-> "loop", task |-> None]]
    /\ UNCHANGED <<queues, size, mutex, shutdown, queue_shutdown, submit, owner>>

-----------------------------------------------------------------------------
(***************************************************************************)
(* thread_pool_destroy, called once the submitters have been joined: both  *)
(* flags, the broadcast, the joins, then the queued tasks are freed        *)
(* without being run.                                                      *)
(***************************************************************************)
\* Mutant: the pool is destroyed before the submitters are joined.
DestroyBeginsEarly ==
    /\ owner = "open"
    /\ shutdown' = TRUE
    /\ owner' = "flag_queue"
    /\ UNCHANGED <<queues, size, mutex, worker, queue_shutdown, submit>>

DestroyBegins ==
    /\ owner = "open"
    /\ \A s \in Submitter : submit[s].step = "left"
    /\ shutdown' = TRUE
    /\ owner' = "flag_queue"
    /\ UNCHANGED <<queues, size, mutex, worker, queue_shutdown, submit>>

DestroyFlagsQueue ==
    /\ owner = "flag_queue"
    /\ queue_shutdown' = TRUE
    /\ owner' = "broadcast"
    /\ UNCHANGED <<queues, size, mutex, worker, shutdown, submit>>

WakeAll == worker' = [w \in Worker |-> IF At(w, "parked")
                                        THEN [worker[w] EXCEPT !.step = "woken"]
                                        ELSE worker[w]]

\* Mutant: the broadcast does not take the mutex.
DestroyBroadcastsUnlocked ==
    /\ owner = "broadcast"
    /\ WakeAll
    /\ owner' = "join"
    /\ UNCHANGED <<queues, size, mutex, shutdown, queue_shutdown, submit>>

DestroyBroadcasts ==
    /\ owner = "broadcast"
    /\ mutex = None
    /\ WakeAll
    /\ owner' = "join"
    /\ UNCHANGED <<queues, size, mutex, shutdown, queue_shutdown, submit>>

\* Mutant: the pool is freed without joining its workers.
DestroyFreesUnjoined ==
    /\ owner = "join"
    /\ queues' = [p \in Priority |-> <<>>]
    /\ size' = 0
    /\ owner' = "freed"
    /\ UNCHANGED <<mutex, worker, shutdown, queue_shutdown, submit>>

DestroyFrees ==
    /\ owner = "join"
    /\ \A w \in Worker : worker[w].step \in {"unborn", "exited"}
    /\ queues' = [p \in Priority |-> <<>>]
    /\ size' = 0
    /\ owner' = "freed"
    /\ UNCHANGED <<mutex, worker, shutdown, queue_shutdown, submit>>

-----------------------------------------------------------------------------
WorkerStep(w) == \/ WorkerLoops(w) \/ PopTask(w) \/ PopNothing(w) \/ Park(w)
                 \/ TaskReturns(w)

OwnerStep == \/ CreateReturns \/ CreateFails \/ DestroyBegins \/ DestroyFlagsQueue
             \/ DestroyBroadcasts \/ DestroyFrees

Next ==
    \/ OwnerStep
    \/ \E w \in Worker : CreateWorker(w) \/ WorkerStep(w) \/ SpuriousWakeup(w)
    \/ \E s \in Submitter :
          \/ \E t \in Task, p \in Priority : SubmitCall(s, t, p)
          \/ SubmitFails(s) \/ task_queue_push(s) \/ SubmitterLeaves(s)

Spec == Init /\ [][Next]_vars

(***************************************************************************)
(* Every thread keeps running: a runnable thread is scheduled, handlers    *)
(* return, and a submit begun ends.  Nothing obliges a submitter to call   *)
(* again or to leave, nor the condition variable to wake spuriously.       *)
(***************************************************************************)
Fairness ==
    /\ WF_vars(OwnerStep)
    /\ \A w \in Worker : WF_vars(CreateWorker(w)) /\ WF_vars(WorkerStep(w))
    /\ \A s \in Submitter : WF_vars(task_queue_push(s))

FairSpec == Spec /\ Fairness

-----------------------------------------------------------------------------
(***************************************************************************)
(* The types of the pool's fields and of each thread's position.           *)
(***************************************************************************)
TypeOK ==
    /\ queues \in [Priority -> Seq(Task)]
    /\ size \in Nat
    /\ mutex \in Worker \cup {None}
    /\ worker \in [Worker -> [step : WorkerSteps, task : Task \cup {None}]]
    /\ shutdown \in BOOLEAN
    /\ queue_shutdown \in BOOLEAN
    /\ submit \in [Submitter -> Submits]
    /\ owner \in OwnerSteps

(***************************************************************************)
(* No wakeup is lost: while any worker is parked, there are at least as    *)
(* many workers on their way to the queue as tasks in it.  One signal per  *)
(* push is enough even when a woken worker finds that another, which never *)
(* slept, has already taken the task it was woken for.                     *)
(***************************************************************************)
ParkedOnlyWhenCovered ==
    WorkersAt({"parked"}) # {} /\ ~shutdown =>
        size <= Cardinality(WorkersAt({"loop", "pop", "woken"}))

Promise == INSTANCE PoolSpec
             WITH waiting <- Queued, running <- Running, open <- (owner # "freed")

(***************************************************************************)
(* The pool keeps the promise of PoolSpec: push, pop, return and free are  *)
(* the only steps its users see; each accepted task is started once and    *)
(* none is started after thread_pool_destroy has freed the queue.          *)
(***************************************************************************)
KeepsPromise == Promise!PromisedSpec

(***************************************************************************)
(* size counts the queued tasks, so that a pop that saw size > 0 does find *)
(* one, no task sits in two queue slots, and every field has its type.     *)
(***************************************************************************)
SizeIsExact ==
    /\ TypeOK
    /\ size = Cardinality(Queued)
    /\ \A p, q \in Priority : \A i \in 1 .. Len(queues[p]), j \in 1 .. Len(queues[q]) :
          queues[p][i] = queues[q][j] => p = q /\ i = j

(***************************************************************************)
(* Once thread_pool_destroy frees the pool nobody is left to touch it: no  *)
(* worker is in its loop or at the mutex and no submit is under way.       *)
(***************************************************************************)
FreedIsUnused ==
    owner = "freed" => /\ \A w \in Worker : worker[w].step \in {"unborn", "exited"}
                       /\ \A s \in Submitter : submit[s].step # "push"
                       /\ mutex = None

(***************************************************************************)
(* thread_pool_destroy returns: no worker stays parked through the joins,  *)
(* although queue_shutdown is set without the mutex and a worker may be    *)
(* between testing it and parking at that moment.                          *)
(***************************************************************************)
DestroyReturns == (owner = "flag_queue") ~> (owner = "freed")

(***************************************************************************)
(* A read is served: a task queued at the highest priority is taken by a   *)
(* worker, or the pool is being destroyed.                                 *)
(***************************************************************************)
HighestServed == \A t \in Task : (t \in QueuedAt(Highest)) ~> (t \in Running \/ shutdown)

(***************************************************************************)
(* A write is served too once reads stop arriving: at any priority, a task *)
(* is taken unless higher ones keep coming or the pool is destroyed.       *)
(***************************************************************************)
LowerServedInLulls ==
    \A p \in Priority \ {Highest} : \A t \in Task :
        <>[](\A q \in p + 1 .. Highest : queues[q] = <<>>)
            => ((t \in QueuedAt(p)) ~> (t \in Running \/ shutdown))
=============================================================================
