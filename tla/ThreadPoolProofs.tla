-------------------------- MODULE ThreadPoolProofs --------------------------
(***************************************************************************)
(* Proofs about ThreadPool for any number of workers, submitters, tasks    *)
(* and priorities: no wake-up is lost, the size is exact, a freed pool is  *)
(* unused, and the pool implements PoolSpec.                               *)
(***************************************************************************)
EXTENDS ThreadPool, FiniteSetTheorems, WellFoundedInduction, TLAPS

(***************************************************************************)
(* A worker holds the mutex across a step only while it decides to wait,   *)
(* and nothing can be pushed while it does.                                *)
(***************************************************************************)
Deciders ==
    /\ mutex # None => At(mutex, "deciding")
    /\ \A w \in Worker : At(w, "deciding") => mutex = w /\ size = 0

(***************************************************************************)
(* A task is in one place: being pushed by one submitter, in one slot of   *)
(* the queues, or run by one worker.                                       *)
(***************************************************************************)
TasksApart ==
    /\ \A s \in Submitter : submit[s].step = "push" =>
          /\ submit[s].task \in Task \ Queued
          /\ \A r \in Submitter :
                submit[r].step = "push" /\ submit[r].task = submit[s].task => r = s
          /\ \A w \in Worker : At(w, "run") => worker[w].task # submit[s].task
    /\ \A w \in Worker : At(w, "run") =>
          /\ worker[w].task \in Task \ Queued
          /\ \A v \in Worker : At(v, "run") /\ worker[v].task = worker[w].task => v = w

(***************************************************************************)
(* Nobody submits before the pool is open or once it is being destroyed.   *)
(***************************************************************************)
Closing == {"flag_queue", "broadcast", "join", "freed"}

SubmitsInTime ==
    /\ owner \in {"creating"} \cup Closing =>
          \A s \in Submitter : submit[s].step # "push"
    /\ owner \in Closing => shutdown

PoolInv ==
    /\ SizeIsExact
    /\ IsFiniteSet(Queued)
    /\ Deciders
    /\ TasksApart
    /\ SubmitsInTime
    /\ ParkedOnlyWhenCovered
    /\ FreedIsUnused

-----------------------------------------------------------------------------
(***************************************************************************)
(* Appending to a queue adds the task to what is queued, behind the rest.  *)
(***************************************************************************)
LEMMA Appended ==
    ASSUME NEW q \in Seq(Task), NEW t \in Task
    PROVE  /\ Append(q, t) \in Seq(Task)
           /\ Len(Append(q, t)) = Len(q) + 1
           /\ Append(q, t)[Len(q) + 1] = t
           /\ \A i \in 1 .. Len(q) : Append(q, t)[i] = q[i]
  OBVIOUS

(***************************************************************************)
(* Taking the first task of a queue moves the others up by one.            *)
(***************************************************************************)
LEMMA Taken ==
    ASSUME NEW q \in Seq(Task), q # <<>>
    PROVE  /\ Head(q) \in Task
           /\ Head(q) = q[1]
           /\ Tail(q) \in Seq(Task)
           /\ Len(q) \in Nat \ {0}
           /\ Len(Tail(q)) = Len(q) - 1
           /\ \A i \in 1 .. Len(q) - 1 : Tail(q)[i] = q[i + 1]
  OBVIOUS

(***************************************************************************)
(* task_queue_push: the task joins the queued ones, in a slot of its own.  *)
(***************************************************************************)
LEMMA PushQueues ==
    ASSUME SizeIsExact, IsFiniteSet(Queued), NEW p \in Priority, NEW t \in Task \ Queued,
           queues' = [queues EXCEPT ![p] = Append(@, t)], size' = size + 1
    PROVE  /\ queues' \in [Priority -> Seq(Task)]
           /\ Queued' = Queued \cup {t}
           /\ IsFiniteSet(Queued')
           /\ size' \in Nat
           /\ size' = Cardinality(Queued')
           /\ \A a, b \in Priority : \A i \in 1 .. Len(queues'[a]), j \in 1 .. Len(queues'[b]) :
                queues'[a][i] = queues'[b][j] => a = b /\ i = j
  <1>1. /\ queues \in [Priority -> Seq(Task)]
        /\ size \in Nat
        /\ size = Cardinality(Queued)
        /\ \A a, b \in Priority : \A i \in 1 .. Len(queues[a]), j \in 1 .. Len(queues[b]) :
                queues[a][i] = queues[b][j] => a = b /\ i = j
    BY DEF SizeIsExact, TypeOK
  <1>q. queues[p] \in Seq(Task)
    BY <1>1
  <1>2. /\ queues' \in [Priority -> Seq(Task)]
        /\ \A a \in Priority \ {p} : queues'[a] = queues[a]
        /\ queues'[p] = Append(queues[p], t)
        /\ Len(queues[p]) \in Nat
        /\ Len(queues'[p]) = Len(queues[p]) + 1
        /\ queues'[p][Len(queues[p]) + 1] = t
        /\ \A i \in 1 .. Len(queues[p]) : queues'[p][i] = queues[p][i]
    BY <1>1, <1>q, Appended
  <1>3. Queued' = Queued \cup {t}
    <2>1. \A a \in Priority \ {p} : QueuedAt(a)' = QueuedAt(a)
      BY <1>2 DEF QueuedAt
    <2>2. QueuedAt(p)' = QueuedAt(p) \cup {t}
      <3>1. ASSUME NEW x \in QueuedAt(p)' PROVE x \in QueuedAt(p) \cup {t}
        <4>1. PICK i \in 1 .. Len(queues[p]) + 1 : x = queues'[p][i]
          BY <3>1, <1>2 DEF QueuedAt
        <4>2. CASE i = Len(queues[p]) + 1
          BY <4>1, <4>2, <1>2
        <4>3. CASE i \in 1 .. Len(queues[p])
          BY <4>1, <4>3, <1>2 DEF QueuedAt
        <4> QED
          BY <4>2, <4>3, <1>2
      <3>2. ASSUME NEW x \in QueuedAt(p) \cup {t} PROVE x \in QueuedAt(p)'
        <4>1. CASE x = t
          BY <4>1, <1>2 DEF QueuedAt
        <4>2. CASE x \in QueuedAt(p)
          <5>1. PICK i \in 1 .. Len(queues[p]) : x = queues[p][i]
            BY <4>2 DEF QueuedAt
          <5>2. i \in 1 .. Len(queues'[p]) /\ x = queues'[p][i]
            BY <5>1, <1>2
          <5> QED
            BY <5>2 DEF QueuedAt
        <4> QED
          BY <4>1, <4>2
      <3> QED
        BY <3>1, <3>2
    <2> QED
      BY <2>1, <2>2 DEF Queued
  <1>4. IsFiniteSet(Queued') /\ Cardinality(Queued') = Cardinality(Queued) + 1
    BY <1>3, FS_AddElement
  <1>5. \A a \in Priority : \A i \in 1 .. Len(queues[a]) : queues[a][i] # t
    BY DEF Queued, QueuedAt
  <1>6. ASSUME NEW a \in Priority, NEW b \in Priority,
               NEW i \in 1 .. Len(queues'[a]), NEW j \in 1 .. Len(queues'[b]),
               queues'[a][i] = queues'[b][j]
        PROVE  a = b /\ i = j
    <2>1. CASE a # p /\ b # p
      BY <1>1, <1>2, <1>6, <2>1
    <2>2. CASE a = p /\ b # p
      BY <1>1, <1>2, <1>5, <1>6, <2>2
    <2>3. CASE a # p /\ b = p
      BY <1>1, <1>2, <1>5, <1>6, <2>3
    <2>4. CASE a = p /\ b = p
      BY <1>1, <1>2, <1>5, <1>6, <2>4
    <2> QED
      BY <2>1, <2>2, <2>3, <2>4
  <1> QED
    BY <1>1, <1>2, <1>3, <1>4, <1>6, SMTT(60)

(***************************************************************************)
(* Every non-empty set of natural numbers has a least element.             *)
(***************************************************************************)
LEMMA LeastNumber ==
    ASSUME NEW S \in SUBSET Nat, S # {}
    PROVE  \E m \in S : \A k \in S : m <= k
  <1>1. PICK m \in S : \A k \in S : ~ (<<k, m>> \in OpToRel(<, Nat))
    <2>1. IsWellFoundedOn(OpToRel(<, Nat), Nat)
      BY NatLessThanWellFounded
    <2> HIDE DEF OpToRel
    <2> QED
      BY <2>1, WFMin
  <1>2. ASSUME NEW k \in S PROVE m <= k
    <2>1. ~ (k < m)
      BY <1>1, ZenonT(60) DEF OpToRel
    <2> QED
      BY <2>1
  <1> QED
    BY <1>2

(***************************************************************************)
(* While a task is queued there is a highest priority with one, which is   *)
(* the one task_queue_pop serves.                                          *)
(***************************************************************************)
LEMMA ServedExists ==
    ASSUME NEW a \in Priority, queues[a] # <<>>
    PROVE  Served \in Priority /\ queues[Served] # <<>>
  <1> DEFINE S == {NumPriorities - p : p \in {q \in Priority : queues[q] # <<>>}}
  <1>1. S \in SUBSET Nat /\ NumPriorities - a \in S
    BY NumPrioritiesAssumption DEF Priority
  <1>2. PICK m \in S : \A k \in S : m <= k
    <2> HIDE DEF S
    <2> QED
      BY <1>1, LeastNumber, SMTT(60)
  <1>3. PICK p \in Priority : queues[p] # <<>> /\ m = NumPriorities - p
    BY <1>2
  <1>4. \A q \in Priority : queues[q] # <<>> => q <= p
    <2>1. ASSUME NEW q \in Priority, queues[q] # <<>> PROVE q <= p
      <3>1. NumPriorities - q \in S
        BY <2>1
      <3>2. NumPriorities - p <= NumPriorities - q
        BY <3>1, <1>2, <1>3
      <3> QED
        BY <3>2, NumPrioritiesAssumption DEF Priority
    <2> QED
      BY <2>1
  <1> QED
    BY <1>3, <1>4 DEF Served

(***************************************************************************)
(* task_queue_pop: size # 0 means that a task is found, and it leaves the  *)
(* queues for good.                                                        *)
(***************************************************************************)
LEMMA PopQueues ==
    ASSUME SizeIsExact, IsFiniteSet(Queued), size # 0,
           queues' = [queues EXCEPT ![Served] = Tail(@)], size' = size - 1
    PROVE  /\ queues' \in [Priority -> Seq(Task)]
           /\ Head(queues[Served]) \in Queued
           /\ Head(queues[Served]) \in Task
           /\ Queued' = Queued \ {Head(queues[Served])}
           /\ IsFiniteSet(Queued')
           /\ size' \in Nat
           /\ size' = Cardinality(Queued')
           /\ \A a, b \in Priority : \A i \in 1 .. Len(queues'[a]), j \in 1 .. Len(queues'[b]) :
                queues'[a][i] = queues'[b][j] => a = b /\ i = j
  <1>1. /\ queues \in [Priority -> Seq(Task)]
        /\ size \in Nat
        /\ size = Cardinality(Queued)
        /\ \A a, b \in Priority : \A i \in 1 .. Len(queues[a]), j \in 1 .. Len(queues[b]) :
                queues[a][i] = queues[b][j] => a = b /\ i = j
    BY DEF SizeIsExact, TypeOK
  <1>2. PICK p \in Priority :
            p = Served /\ queues[p] \in Seq(Task) /\ queues[p] # <<>>
    <2>1. Queued # {}
      BY <1>1, FS_EmptySet
    <2>2. PICK a \in Priority : QueuedAt(a) # {}
      BY <2>1 DEF Queued
    <2>3. queues[a] # <<>>
      BY <2>2, <1>1 DEF QueuedAt
    <2> QED
      BY <2>3, <1>1, ServedExists
  <1>t. PICK t : t = Head(queues[p])
    OBVIOUS
  <1>3. /\ queues' \in [Priority -> Seq(Task)]
        /\ \A a \in Priority \ {p} : queues'[a] = queues[a]
        /\ queues'[p] = Tail(queues[p])
        /\ t \in Task /\ t = queues[p][1]
        /\ Len(queues[p]) \in Nat \ {0}
        /\ Len(queues'[p]) = Len(queues[p]) - 1
        /\ \A i \in 1 .. Len(queues[p]) - 1 : queues'[p][i] = queues[p][i + 1]
    <2>1. queues' = [queues EXCEPT ![p] = Tail(@)]
      BY <1>2
    <2> QED
      BY <2>1, <1>1, <1>2, <1>t, Taken
  <1>4. \A a \in Priority : \A i \in 1 .. Len(queues[a]) : queues[a][i] = t => a = p /\ i = 1
    BY <1>1, <1>2, <1>3
  <1>5. t \in QueuedAt(p) /\ t \in Queued
    BY <1>2, <1>3 DEF QueuedAt, Queued
  <1>6. Queued' = Queued \ {t}
    <2>1. \A a \in Priority \ {p} : QueuedAt(a)' = QueuedAt(a) /\ t \notin QueuedAt(a)
      BY <1>3, <1>4 DEF QueuedAt
    <2>2. QueuedAt(p)' = QueuedAt(p) \ {t}
      <3>1. ASSUME NEW x \in QueuedAt(p)' PROVE x \in QueuedAt(p) \ {t}
        <4>1. PICK i \in 1 .. Len(queues[p]) - 1 : x = queues'[p][i]
          BY <3>1, <1>3, ZenonT(60) DEF QueuedAt
        <4>2. i + 1 \in 1 .. Len(queues[p]) /\ x = queues[p][i + 1] /\ i + 1 # 1
          BY <4>1, <1>3
        <4> QED
          BY <4>2, <1>2, <1>4 DEF QueuedAt
      <3>2. ASSUME NEW x \in QueuedAt(p) \ {t} PROVE x \in QueuedAt(p)'
        <4>1. PICK i \in 1 .. Len(queues[p]) : x = queues[p][i]
          BY <3>2 DEF QueuedAt
        <4>2. i # 1
          BY <4>1, <1>3
        <4>3. i - 1 \in 1 .. Len(queues[p]) - 1 /\ x = queues'[p][i - 1]
          BY <4>1, <4>2, <1>3
        <4> QED
          BY <4>3, <1>3, ZenonT(60) DEF QueuedAt
      <3> QED
        BY <3>1, <3>2
    <2> QED
      BY <2>1, <2>2 DEF Queued
  <1>7. IsFiniteSet(Queued') /\ Cardinality(Queued') = Cardinality(Queued) - 1
    BY <1>5, <1>6, FS_RemoveElement
  <1>8. ASSUME NEW a \in Priority, NEW b \in Priority,
               NEW i \in 1 .. Len(queues'[a]), NEW j \in 1 .. Len(queues'[b]),
               queues'[a][i] = queues'[b][j]
        PROVE  a = b /\ i = j
    <2>1. CASE a # p /\ b # p
      BY <1>1, <1>3, <1>8, <2>1
    <2>2. CASE a = p /\ b # p
      BY <1>1, <1>2, <1>3, <1>8, <2>2
    <2>3. CASE a # p /\ b = p
      BY <1>1, <1>2, <1>3, <1>8, <2>3
    <2>4. CASE a = p /\ b = p
      BY <1>1, <1>2, <1>3, <1>8, <2>4
    <2> QED
      BY <2>1, <2>2, <2>3, <2>4
  <1>9. size' \in Nat /\ size' = Cardinality(Queued')
    BY <1>1, <1>5, <1>7, FS_CardinalityType, FS_EmptySet
  <1> QED
    BY <1>2, <1>t, <1>3, <1>5, <1>6, <1>7, <1>8, <1>9, ZenonT(60)

-----------------------------------------------------------------------------
Workers == [step : WorkerSteps, task : Task \cup {None}]

(***************************************************************************)
(* A worker that moves on keeps its task, and the others stay put.         *)
(***************************************************************************)
LEMMA Moved ==
    ASSUME worker \in [Worker -> Workers], NEW w \in Worker, NEW step \in WorkerSteps,
           Move(w, step)
    PROVE  /\ worker' \in [Worker -> Workers]
           /\ worker'[w].step = step
           /\ worker'[w].task = worker[w].task
           /\ \A v \in Worker \ {w} : worker'[v] = worker[v]
  BY DEF Move, Workers

(***************************************************************************)
(* The initial state: nothing queued, nobody running.                      *)
(***************************************************************************)
LEMMA PoolInvInit == Init => PoolInv
  <1> SUFFICES ASSUME Init PROVE PoolInv
    OBVIOUS
  <1>1. TypeOK
    <2>1. queues \in [Priority -> Seq(Task)]
      BY DEF Init
    <2>2. Idle \in Submits
      BY NumPrioritiesAssumption DEF Idle, Submits, Priority
    <2> QED
      BY <2>1, <2>2, ZenonT(60) DEF Init, TypeOK, WorkerSteps, OwnerSteps
  <1>2. Queued = {}
    BY DEF Init, Queued, QueuedAt
  <1>3. SizeIsExact /\ IsFiniteSet(Queued)
    BY <1>1, <1>2, FS_EmptySet DEF Init, SizeIsExact
  <1>4. Deciders /\ TasksApart /\ SubmitsInTime /\ FreedIsUnused
    BY DEF Init, Deciders, TasksApart, SubmitsInTime, FreedIsUnused, At, Idle, Closing
  <1>5. ParkedOnlyWhenCovered
    BY DEF Init, ParkedOnlyWhenCovered, WorkersAt
  <1> QED
    BY <1>3, <1>4, <1>5 DEF PoolInv

(***************************************************************************)
(* Steps that leave the queues alone leave what is queued alone.           *)
(***************************************************************************)
LEMMA QueuesKept ==
    ASSUME PoolInv, UNCHANGED <<queues, size>>, TypeOK'
    PROVE  SizeIsExact' /\ IsFiniteSet(Queued') /\ Queued' = Queued
  <1>1. Queued' = Queued
    BY DEF Queued, QueuedAt
  <1> QED
    BY <1>1 DEF PoolInv, SizeIsExact

(***************************************************************************)
(* A step of the owner other than waking or freeing changes flags only.    *)
(***************************************************************************)
LEMMA FlagSteps ==
    ASSUME PoolInv, CreateReturns \/ CreateFails \/ DestroyBegins \/ DestroyFlagsQueue
    PROVE  PoolInv'
  <1> USE DEF CreateReturns, CreateFails, DestroyBegins, DestroyFlagsQueue
  <1>1. TypeOK'
    BY ZenonT(60) DEF PoolInv, SizeIsExact, TypeOK, OwnerSteps
  <1>2. SizeIsExact' /\ IsFiniteSet(Queued') /\ Queued' = Queued
    BY <1>1, QueuesKept
  <1>3. Deciders' /\ FreedIsUnused'
    BY DEF PoolInv, Deciders, FreedIsUnused, At
  <1>4. TasksApart'
    BY <1>2 DEF PoolInv, TasksApart, At
  <1>5. SubmitsInTime'
    BY DEF PoolInv, SubmitsInTime, Closing
  <1>6. ParkedOnlyWhenCovered'
    BY DEF PoolInv, ParkedOnlyWhenCovered, WorkersAt
  <1> QED
    BY <1>2, <1>3, <1>4, <1>5, <1>6 DEF PoolInv

(***************************************************************************)
(* thread_pool_submit up to its push, and a submitter that leaves.         *)
(***************************************************************************)
LEMMA SubmitSteps ==
    ASSUME PoolInv, NEW s \in Submitter,
           \/ \E t \in Task, p \in Priority : SubmitCall(s, t, p)
           \/ SubmitFails(s)
           \/ SubmitterLeaves(s)
    PROVE  PoolInv'
  <1>1. UNCHANGED <<queues, size, mutex, worker, shutdown, queue_shutdown, owner>>
    BY DEF SubmitCall, SubmitFails, SubmitterLeaves
  <1>2. /\ submit' \in [Submitter -> Submits]
        /\ \A r \in Submitter \ {s} : submit'[r] = submit[r]
        /\ submit'[s].step = "push" =>
              /\ owner \notin {"creating", "freed"}
              /\ ~shutdown
              /\ submit'[s].task \in Task \ (Queued \cup Running \cup Pushing)
    <2>1. submit \in [Submitter -> Submits] /\ Idle \in Submits
      BY NumPrioritiesAssumption DEF PoolInv, SizeIsExact, TypeOK, Idle, Submits, Priority
    <2>2. CASE \E t \in Task, p \in Priority : SubmitCall(s, t, p)
      BY <2>1, <2>2 DEF SubmitCall, Submits
    <2>3. CASE SubmitFails(s)
      BY <2>1, <2>3 DEF SubmitFails, Idle
    <2>4. CASE SubmitterLeaves(s)
      BY <2>1, <2>4 DEF SubmitterLeaves, Submits
    <2> QED
      BY <2>2, <2>3, <2>4
  <1>3. TypeOK'
    BY <1>1, <1>2 DEF PoolInv, SizeIsExact, TypeOK
  <1>4. SizeIsExact' /\ IsFiniteSet(Queued') /\ Queued' = Queued
    BY <1>1, <1>3, QueuesKept
  <1>5. Deciders'
    BY <1>1, SMTT(60) DEF PoolInv, Deciders, At
  <1>6. TasksApart'
    BY <1>1, <1>2, <1>4, SMTT(60) DEF PoolInv, TasksApart, At, Running, Pushing, WorkersAt
  <1>7. SubmitsInTime' /\ FreedIsUnused'
    BY <1>1, <1>2, SMTT(60) DEF PoolInv, SubmitsInTime, FreedIsUnused, Closing
  <1>8. ParkedOnlyWhenCovered'
    BY <1>1 DEF PoolInv, ParkedOnlyWhenCovered, WorkersAt
  <1> QED
    BY <1>4, <1>5, <1>6, <1>7, <1>8 DEF PoolInv

(***************************************************************************)
(* The workers a wake-up need not reach: they will look at the queue.      *)
(***************************************************************************)
OnTheirWay == WorkersAt({"loop", "pop", "woken"})

(***************************************************************************)
(* Counting the workers on their way when one of them changes.             *)
(***************************************************************************)
LEMMA OneMoves ==
    ASSUME NEW w \in Worker, \A v \in Worker \ {w} : worker'[v].step = worker[v].step
    PROVE  /\ Cardinality(OnTheirWay) \in Nat
           /\ Cardinality(OnTheirWay') \in Nat
           /\ Cardinality(OnTheirWay') =
                 IF w \in OnTheirWay
                 THEN IF w \in OnTheirWay' THEN Cardinality(OnTheirWay)
                                            ELSE Cardinality(OnTheirWay) - 1
                 ELSE IF w \in OnTheirWay' THEN Cardinality(OnTheirWay) + 1
                                            ELSE Cardinality(OnTheirWay)
  <1>1. IsFiniteSet(OnTheirWay) /\ IsFiniteSet(OnTheirWay')
    BY WorkerAssumption, FS_Subset DEF OnTheirWay, WorkersAt
  <1>2. \/ OnTheirWay' = OnTheirWay
        \/ w \in OnTheirWay /\ OnTheirWay' = OnTheirWay \ {w}
        \/ w \notin OnTheirWay /\ OnTheirWay' = OnTheirWay \cup {w}
    BY DEF OnTheirWay, WorkersAt
  <1> QED
    BY <1>1, <1>2, FS_AddElement, FS_RemoveElement, FS_CardinalityType

(***************************************************************************)
(* A worker's steps other than taking a task.  It parks only from the      *)
(* decision it makes with the mutex held and the queue empty.              *)
(***************************************************************************)
LEMMA WorkerMoves ==
    ASSUME PoolInv, NEW w \in Worker,
           \/ CreateWorker(w) \/ WorkerLoops(w) \/ PopNothing(w) \/ Park(w)
           \/ SpuriousWakeup(w) \/ TaskReturns(w)
    PROVE  PoolInv'
  <1>t. TypeOK /\ worker \in [Worker -> Workers]
    BY DEF PoolInv, SizeIsExact, TypeOK, Workers
  <1>1. UNCHANGED <<queues, size, shutdown, queue_shutdown, submit, owner>>
    BY DEF CreateWorker, WorkerLoops, PopNothing, Park, SpuriousWakeup, TaskReturns
  <1>2. /\ worker' \in [Worker -> Workers]
        /\ \A v \in Worker \ {w} : worker'[v] = worker[v]
        /\ worker'[w].step # "run"
    <2>2. CASE TaskReturns(w)
      BY <1>t, <2>2 DEF TaskReturns, Workers, WorkerSteps
    <2>3. CASE CreateWorker(w)
      BY <1>t, <2>3, Moved DEF CreateWorker, WorkerSteps
    <2>4. CASE WorkerLoops(w)
      BY <1>t, <2>4, Moved DEF WorkerLoops, WorkerSteps
    <2>5. CASE PopNothing(w)
      BY <1>t, <2>5, Moved DEF PopNothing, WorkerSteps
    <2>6. CASE Park(w)
      BY <1>t, <2>6, Moved DEF Park, WorkerSteps
    <2>7. CASE SpuriousWakeup(w)
      BY <1>t, <2>7, Moved, SMTT(60) DEF SpuriousWakeup, WorkerSteps
    <2> QED
      BY <2>2, <2>3, <2>4, <2>5, <2>6, <2>7
  <1>3. \/ /\ mutex' = mutex
           /\ worker[w].step # "deciding"
           /\ worker'[w].step \notin {"deciding", "parked"}
           /\ shutdown \/ w \in OnTheirWay'
           /\ owner # "freed"
        \/ /\ mutex = None /\ mutex' = w /\ size = 0
           /\ worker'[w].step = "deciding"
           /\ owner # "freed"
        \/ /\ worker[w].step = "deciding" /\ mutex' = None
           /\ worker'[w].step = "parked"
           /\ owner # "freed"
    <2>u. worker[w].step \notin {"unborn", "exited"} \/ owner = "creating" => owner # "freed"
      BY DEF PoolInv, FreedIsUnused
    <2>2. CASE TaskReturns(w)
      BY <1>t, <2>2, <2>u, SMTT(60) DEF TaskReturns, Workers, WorkerSteps, OnTheirWay, WorkersAt, At
    <2>3. CASE CreateWorker(w)
      BY <1>t, <2>3, <2>u, Moved DEF CreateWorker, WorkerSteps, OnTheirWay, WorkersAt, At
    <2>4. CASE WorkerLoops(w)
      BY <1>t, <2>4, <2>u, Moved, SMTT(60) DEF WorkerLoops, WorkerSteps, OnTheirWay, WorkersAt, At
    <2>5. CASE PopNothing(w)
      BY <1>t, <2>5, <2>u, Moved DEF PopNothing, WorkerSteps, OnTheirWay, WorkersAt, At
    <2>6. CASE Park(w)
      BY <1>t, <2>6, <2>u, Moved DEF Park, WorkerSteps, OnTheirWay, WorkersAt, At
    <2>7. CASE SpuriousWakeup(w)
      BY <1>t, <2>7, <2>u, Moved, SMTT(60) DEF SpuriousWakeup, WorkerSteps, OnTheirWay, WorkersAt, At
    <2> QED
      BY <2>2, <2>3, <2>4, <2>5, <2>6, <2>7
  <1>4. TypeOK'
    BY <1>t, <1>1, <1>2, <1>3 DEF TypeOK, Workers
  <1>5. SizeIsExact' /\ IsFiniteSet(Queued') /\ Queued' = Queued
    BY <1>1, <1>4, QueuesKept
  <1>6. Deciders'
    <2>1. mutex \in Worker \cup {None} /\ None \notin Worker
      BY <1>t, NoneAssumption DEF TypeOK
    <2>2. /\ mutex # None => worker[mutex].step = "deciding"
          /\ \A v \in Worker : worker[v].step = "deciding" => mutex = v /\ size = 0
      BY DEF PoolInv, Deciders, At
    <2>3. SUFFICES /\ mutex' # None => worker'[mutex'].step = "deciding"
                   /\ \A v \in Worker : worker'[v].step = "deciding" => mutex' = v /\ size = 0
      BY <1>1 DEF Deciders, At
    <2> QED
      BY <1>2, <1>3, <2>1, <2>2
  <1>7. TasksApart'
    BY <1>1, <1>2, <1>5 DEF PoolInv, TasksApart, At
  <1>8. SubmitsInTime' /\ FreedIsUnused'
    BY <1>1, <1>3 DEF PoolInv, SubmitsInTime, FreedIsUnused
  <1>9. ParkedOnlyWhenCovered'
    <2>1. CASE size = 0
      BY <1>1, <1>2, <2>1, OneMoves DEF ParkedOnlyWhenCovered, OnTheirWay
    <2>2. CASE size # 0
      <3>1. mutex' = mutex /\ worker'[w].step # "parked" /\ (shutdown \/ w \in OnTheirWay')
        BY <1>3, <2>2 DEF PoolInv, Deciders, At
      <3>2. SUFFICES ASSUME WorkersAt({"parked"})' # {}, ~shutdown
                     PROVE  size <= Cardinality(OnTheirWay')
        BY <1>1 DEF ParkedOnlyWhenCovered, OnTheirWay
      <3>3. WorkersAt({"parked"}) # {}
        BY <1>2, <3>1, <3>2 DEF WorkersAt
      <3>4. size <= Cardinality(OnTheirWay) /\ size \in Nat
        BY <1>t, <3>2, <3>3 DEF PoolInv, ParkedOnlyWhenCovered, OnTheirWay, TypeOK
      <3> QED
        BY <1>2, <3>1, <3>2, <3>4, OneMoves
    <2> QED
      BY <2>1, <2>2
  <1> QED
    BY <1>5, <1>6, <1>7, <1>8, <1>9 DEF PoolInv

(***************************************************************************)
(* A push wakes one parked worker for the task it adds, if one is parked.  *)
(***************************************************************************)
LEMMA PushStep ==
    ASSUME PoolInv, NEW s \in Submitter, task_queue_push(s)
    PROVE  PoolInv'
  <1>t. TypeOK /\ worker \in [Worker -> Workers] /\ Idle \in Submits
    BY NumPrioritiesAssumption
       DEF PoolInv, SizeIsExact, TypeOK, Workers, Idle, Submits, Priority
  <1>1. /\ submit[s].step = "push" /\ mutex = None
        /\ submit' = [submit EXCEPT ![s] = Idle]
        /\ SignalOne
        /\ UNCHANGED <<mutex, shutdown, queue_shutdown, owner>>
    BY DEF task_queue_push
  <1>2. PICK t \in Task \ Queued, p \in Priority :
           t = submit[s].task /\ p = submit[s].priority
    BY <1>t, <1>1, SMTT(60) DEF PoolInv, TasksApart, TypeOK, Submits
  <1>3. /\ queues' \in [Priority -> Seq(Task)]
        /\ Queued' = Queued \cup {t}
        /\ IsFiniteSet(Queued')
        /\ size' \in Nat /\ size' = size + 1
        /\ size' = Cardinality(Queued')
        /\ \A a, b \in Priority : \A i \in 1 .. Len(queues'[a]), j \in 1 .. Len(queues'[b]) :
                queues'[a][i] = queues'[b][j] => a = b /\ i = j
    <2>1. queues' = [queues EXCEPT ![p] = Append(@, t)] /\ size' = size + 1
      BY <1>2 DEF task_queue_push
    <2> QED
      BY <1>2, <2>1, PushQueues, ZenonT(60) DEF PoolInv
  <1>4. /\ worker' \in [Worker -> Workers]
        /\ \/ WorkersAt({"parked"}) = {} /\ worker' = worker
           \/ \E w \in Worker : /\ worker[w].step = "parked"
                                /\ worker'[w].step = "woken"
                                /\ \A v \in Worker \ {w} : worker'[v] = worker[v]
    <2>1. CASE WorkersAt({"parked"}) = {} /\ UNCHANGED worker
      BY <1>t, <2>1
    <2>2. CASE \E w \in WorkersAt({"parked"}) : Move(w, "woken")
      <3>1. PICK w \in Worker : worker[w].step = "parked" /\ Move(w, "woken")
        BY <2>2 DEF WorkersAt
      <3> QED
        BY <1>t, <3>1, Moved DEF WorkerSteps
    <2> QED
      BY <1>1, <2>1, <2>2 DEF SignalOne
  <1>5. /\ submit' \in [Submitter -> Submits]
        /\ submit'[s].step # "push"
        /\ \A r \in Submitter \ {s} : submit'[r] = submit[r]
    BY <1>t, <1>1 DEF TypeOK, Idle
  <1>6. SizeIsExact'
    <2>1. TypeOK'
      BY <1>t, <1>1, <1>3, <1>4, <1>5 DEF TypeOK, Workers
    <2> QED
      BY <1>3, <2>1 DEF SizeIsExact
  <1>7. Deciders'
    BY <1>t, <1>1, <1>4, NoneAssumption, SMTT(60) DEF PoolInv, Deciders, At
  <1>8. TasksApart'
    <2>1. \A w \in Worker : worker'[w].step = "run" => worker'[w] = worker[w]
      BY <1>4, SMTT(60)
    <2>2. \A w \in Worker : worker[w].step = "run" => worker[w].task # t
      BY <1>1, <1>2 DEF PoolInv, TasksApart, At
    <2>3. \A r \in Submitter \ {s} : submit[r].step = "push" => submit[r].task # t
      BY <1>1, <1>2, SMTT(60) DEF PoolInv, TasksApart
    <2>4. ASSUME NEW r \in Submitter, submit'[r].step = "push"
          PROVE  /\ submit'[r].task \in Task \ Queued'
                 /\ \A q \in Submitter :
                       submit'[q].step = "push" /\ submit'[q].task = submit'[r].task => q = r
                 /\ \A w \in Worker : worker'[w].step = "run" => worker'[w].task # submit'[r].task
      <3>1. r # s /\ submit'[r] = submit[r]
        BY <2>4, <1>5
      <3>2. /\ submit[r].task \in Task \ Queued
            /\ \A q \in Submitter :
                  submit[q].step = "push" /\ submit[q].task = submit[r].task => q = r
            /\ \A w \in Worker : worker[w].step = "run" => worker[w].task # submit[r].task
        BY <2>4, <3>1 DEF PoolInv, TasksApart, At
      <3>3. submit[r].task # t
        BY <2>3, <2>4, <3>1
      <3> QED
        BY <1>3, <1>5, <2>1, <3>1, <3>2, <3>3, ZenonT(60)
    <2>5. ASSUME NEW w \in Worker, worker'[w].step = "run"
          PROVE  /\ worker'[w].task \in Task \ Queued'
                 /\ \A v \in Worker :
                       worker'[v].step = "run" /\ worker'[v].task = worker'[w].task => v = w
      BY <1>3, <2>1, <2>2, <2>5, ZenonT(60) DEF PoolInv, TasksApart, At
    <2> QED
      BY <2>4, <2>5 DEF TasksApart, At
  <1>9. SubmitsInTime' /\ FreedIsUnused'
    <2>1. owner \notin {"creating"} \cup Closing
      BY <1>1 DEF PoolInv, SubmitsInTime
    <2> QED
      BY <1>1, <2>1 DEF SubmitsInTime, FreedIsUnused, Closing
  <1>10. ParkedOnlyWhenCovered'
    <2>1. CASE WorkersAt({"parked"}) = {} /\ worker' = worker
      BY <2>1 DEF ParkedOnlyWhenCovered, WorkersAt
    <2>2. CASE \E w \in Worker : /\ worker[w].step = "parked"
                                 /\ worker'[w].step = "woken"
                                 /\ \A v \in Worker \ {w} : worker'[v] = worker[v]
      <3>1. PICK w \in Worker : /\ worker[w].step = "parked"
                                /\ worker'[w].step = "woken"
                                /\ \A v \in Worker \ {w} : worker'[v] = worker[v]
        BY <2>2
      <3>2. w \notin OnTheirWay /\ w \in OnTheirWay' /\ WorkersAt({"parked"}) # {}
        BY <3>1 DEF OnTheirWay, WorkersAt
      <3>3. Cardinality(OnTheirWay') = Cardinality(OnTheirWay) + 1
            /\ Cardinality(OnTheirWay) \in Nat
        BY <3>1, <3>2, OneMoves
      <3>4. ~shutdown => size <= Cardinality(OnTheirWay)
        BY <3>2 DEF PoolInv, ParkedOnlyWhenCovered, OnTheirWay
      <3>5. size \in Nat
        BY <1>t DEF TypeOK
      <3> QED
        BY <1>1, <1>3, <3>3, <3>4, <3>5 DEF ParkedOnlyWhenCovered, OnTheirWay
    <2> QED
      BY <1>4, <2>1, <2>2
  <1> QED
    BY <1>3, <1>6, <1>7, <1>8, <1>9, <1>10 DEF PoolInv

(***************************************************************************)
(* A pop takes a task and its worker along, so that as many workers are    *)
(* left for the tasks left.                                                *)
(***************************************************************************)
LEMMA PopStep ==
    ASSUME PoolInv, NEW w \in Worker, PopTask(w)
    PROVE  PoolInv'
  <1>t. TypeOK /\ worker \in [Worker -> Workers]
    BY DEF PoolInv, SizeIsExact, TypeOK, Workers
  <1>1. /\ worker[w].step \in {"pop", "woken"} /\ mutex = None /\ size # 0
        /\ UNCHANGED <<mutex, shutdown, queue_shutdown, submit, owner>>
    BY DEF PopTask
  <1>2. PICK t : t = Head(queues[Served])
    OBVIOUS
  <1>3. /\ queues' \in [Priority -> Seq(Task)]
        /\ t \in Queued /\ t \in Task
        /\ Queued' = Queued \ {t}
        /\ IsFiniteSet(Queued')
        /\ size' \in Nat /\ size' = size - 1
        /\ size' = Cardinality(Queued')
        /\ \A a, b \in Priority : \A i \in 1 .. Len(queues'[a]), j \in 1 .. Len(queues'[b]) :
                queues'[a][i] = queues'[b][j] => a = b /\ i = j
    BY <1>1, <1>2, PopQueues, ZenonT(60) DEF PoolInv, PopTask
  <1>4. /\ worker' \in [Worker -> Workers]
        /\ worker'[w].step = "run" /\ worker'[w].task = t
        /\ \A v \in Worker \ {w} : worker'[v] = worker[v]
    <2>1. worker' = [worker EXCEPT ![w] = [step |-> "run", task |-> t]]
      BY <1>2 DEF PopTask
    <2> QED
      BY <1>t, <1>3, <2>1 DEF Workers, WorkerSteps
  <1>5. SizeIsExact'
    <2>1. TypeOK'
      BY <1>t, <1>1, <1>3, <1>4 DEF TypeOK, Workers
    <2> QED
      BY <1>3, <2>1 DEF SizeIsExact
  <1>6. Deciders'
    BY <1>t, <1>1, <1>4, NoneAssumption, SMTT(60) DEF PoolInv, Deciders, At
  <1>7. TasksApart'
    <2>1. ASSUME NEW r \in Submitter, submit[r].step = "push"
          PROVE  /\ submit[r].task \in Task \ Queued'
                 /\ \A q \in Submitter :
                       submit[q].step = "push" /\ submit[q].task = submit[r].task => q = r
                 /\ \A v \in Worker : worker'[v].step = "run" => worker'[v].task # submit[r].task
      BY <1>3, <1>4, <2>1 DEF PoolInv, TasksApart, At
    <2>2. ASSUME NEW u \in Worker, worker'[u].step = "run"
          PROVE  /\ worker'[u].task \in Task \ Queued'
                 /\ \A v \in Worker :
                       worker'[v].step = "run" /\ worker'[v].task = worker'[u].task => v = u
      BY <1>3, <1>4, <2>2 DEF PoolInv, TasksApart, At
    <2> QED
      BY <1>1, <2>1, <2>2 DEF TasksApart, At
  <1>8. SubmitsInTime' /\ FreedIsUnused'
    BY <1>1 DEF PoolInv, SubmitsInTime, FreedIsUnused
  <1>9. ParkedOnlyWhenCovered'
    <2>1. w \in OnTheirWay /\ w \notin OnTheirWay'
      BY <1>1, <1>4 DEF OnTheirWay, WorkersAt
    <2>2. Cardinality(OnTheirWay') = Cardinality(OnTheirWay) - 1
          /\ Cardinality(OnTheirWay) \in Nat
      BY <1>4, <2>1, OneMoves
    <2>3. WorkersAt({"parked"})' # {} => WorkersAt({"parked"}) # {}
      BY <1>4 DEF WorkersAt
    <2>4. WorkersAt({"parked"})' # {} /\ ~shutdown => size <= Cardinality(OnTheirWay)
      BY <2>3 DEF PoolInv, ParkedOnlyWhenCovered, OnTheirWay
    <2>5. size \in Nat
      BY <1>t DEF TypeOK
    <2> QED
      BY <1>1, <1>3, <2>2, <2>4, <2>5 DEF ParkedOnlyWhenCovered, OnTheirWay
  <1> QED
    BY <1>3, <1>5, <1>6, <1>7, <1>8, <1>9 DEF PoolInv

(***************************************************************************)
(* The broadcast, under the mutex, leaves nobody parked; the pool is freed *)
(* when every worker has been joined.                                      *)
(***************************************************************************)
LEMMA DestroySteps ==
    ASSUME PoolInv, DestroyBroadcasts \/ DestroyFrees
    PROVE  PoolInv'
  <1>t. TypeOK /\ worker \in [Worker -> Workers]
    BY DEF PoolInv, SizeIsExact, TypeOK, Workers
  <1>1. CASE DestroyBroadcasts
    <2>1. /\ owner = "broadcast" /\ owner' = "join" /\ mutex = None
          /\ UNCHANGED <<queues, size, mutex, shutdown, queue_shutdown, submit>>
      BY <1>1 DEF DestroyBroadcasts
    <2>2. /\ worker' \in [Worker -> Workers]
          /\ \A w \in Worker : /\ worker'[w].step \notin {"deciding", "run"} \/ worker'[w] = worker[w]
                               /\ worker'[w].step # "parked"
      BY <1>t, <1>1 DEF DestroyBroadcasts, WakeAll, Workers, WorkerSteps, At
    <2>3. TypeOK'
      BY <1>t, <2>1, <2>2 DEF TypeOK, Workers, OwnerSteps
    <2>4. SizeIsExact' /\ IsFiniteSet(Queued') /\ Queued' = Queued
      BY <2>1, <2>3, QueuesKept
    <2>5. Deciders' /\ FreedIsUnused'
      BY <2>1, <2>2, SMTT(60) DEF PoolInv, Deciders, At, FreedIsUnused
    <2>6. TasksApart'
      BY <2>1, <2>2, <2>4 DEF PoolInv, TasksApart, At
    <2>7. SubmitsInTime'
      BY <2>1 DEF PoolInv, SubmitsInTime, Closing
    <2>8. ParkedOnlyWhenCovered'
      BY <2>2 DEF ParkedOnlyWhenCovered, WorkersAt
    <2> QED
      BY <2>4, <2>5, <2>6, <2>7, <2>8 DEF PoolInv
  <1>2. CASE DestroyFrees
    <2>1. /\ owner = "join" /\ owner' = "freed" /\ size' = 0
          /\ \A w \in Worker : worker[w].step \in {"unborn", "exited"}
          /\ queues' = [p \in Priority |-> <<>>]
          /\ UNCHANGED <<mutex, worker, shutdown, queue_shutdown, submit>>
      BY <1>2 DEF DestroyFrees
    <2>2. TypeOK'
      BY <1>t, <2>1 DEF TypeOK, OwnerSteps
    <2>3. Queued' = {} /\ SizeIsExact' /\ IsFiniteSet(Queued')
      <3>1. Queued' = {}
        BY <2>1 DEF Queued, QueuedAt
      <3> QED
        BY <2>1, <2>2, <3>1, FS_EmptySet DEF SizeIsExact
    <2>4. Deciders' /\ mutex = None
      BY <1>t, <2>1, SMTT(60) DEF PoolInv, Deciders, At, TypeOK
    <2>5. SubmitsInTime' /\ FreedIsUnused' /\ TasksApart'
      BY <2>1, <2>4, SMTT(60) DEF PoolInv, SubmitsInTime, FreedIsUnused, TasksApart, Closing, At
    <2>6. ParkedOnlyWhenCovered'
      BY <2>1 DEF ParkedOnlyWhenCovered, WorkersAt
    <2> QED
      BY <2>3, <2>4, <2>5, <2>6 DEF PoolInv
  <1> QED
    BY <1>1, <1>2

-----------------------------------------------------------------------------
(***************************************************************************)
(* PoolInv is inductive.                                                   *)
(***************************************************************************)
LEMMA PoolInvStep ==
    ASSUME PoolInv, [Next]_vars
    PROVE  PoolInv'
  <1>1. CASE UNCHANGED vars
    <2>1. TypeOK'
      BY <1>1 DEF vars, PoolInv, SizeIsExact, TypeOK
    <2>2. SizeIsExact' /\ IsFiniteSet(Queued') /\ Queued' = Queued
      BY <1>1, <2>1, QueuesKept, SMTT(60) DEF vars
    <2>3. Deciders' /\ TasksApart' /\ SubmitsInTime' /\ FreedIsUnused'
      BY <1>1, <2>2, SMTT(60)
         DEF vars, PoolInv, Deciders, TasksApart, SubmitsInTime, FreedIsUnused, At
    <2>4. ParkedOnlyWhenCovered'
      BY <1>1 DEF vars, PoolInv, ParkedOnlyWhenCovered, WorkersAt
    <2> QED
      BY <2>2, <2>3, <2>4 DEF PoolInv
  <1>2. CASE Next
    BY <1>2, FlagSteps, SubmitSteps, WorkerMoves, PushStep, PopStep, DestroySteps
       DEF Next, OwnerStep, WorkerStep
  <1> QED
    BY <1>1, <1>2

(***************************************************************************)
(* The invariant holds throughout.                                         *)
(***************************************************************************)
LEMMA PoolInvAlways == Spec => []PoolInv
  BY PoolInvInit, PoolInvStep, PTL DEF Spec

(***************************************************************************)
(* With any number of workers and submitters, no wake-up is lost: while a  *)
(* worker is parked, as many others are on their way to the queue as there *)
(* are tasks in it.                                                        *)
(***************************************************************************)
THEOREM NoLostWakeup == Spec => []ParkedOnlyWhenCovered
  <1>1. PoolInv => ParkedOnlyWhenCovered
    BY DEF PoolInv
  <1> QED
    BY <1>1, PoolInvAlways, PTL

(***************************************************************************)
(* queue->size is the number of queued tasks, whatever the interleaving.   *)
(***************************************************************************)
THEOREM SizeStaysExact == Spec => []SizeIsExact
  <1>1. PoolInv => SizeIsExact
    BY DEF PoolInv
  <1> QED
    BY <1>1, PoolInvAlways, PTL

(***************************************************************************)
(* thread_pool_destroy frees a pool that nobody uses any more.             *)
(***************************************************************************)
THEOREM FreedPoolIsUnused == Spec => []FreedIsUnused
  <1>1. PoolInv => FreedIsUnused
    BY DEF PoolInv
  <1> QED
    BY <1>1, PoolInvAlways, PTL

-----------------------------------------------------------------------------
(***************************************************************************)
(* The tasks that run change only when a pop starts one and a handler      *)
(* returns.                                                                *)
(***************************************************************************)
LEMMA RunningKept ==
    ASSUME \A w \in Worker : \/ worker'[w] = worker[w]
                             \/ worker[w].step # "run" /\ worker'[w].step # "run"
    PROVE  Running' = Running
  BY DEF Running, WorkersAt

(***************************************************************************)
(* A push is seen by the users as PoolSpec's Submit of its task.           *)
(***************************************************************************)
LEMMA PushRefines ==
    ASSUME PoolInv, NEW s \in Submitter, task_queue_push(s)
    PROVE  Promise!SpecNext
  <1>t. TypeOK /\ worker \in [Worker -> Workers]
    BY DEF PoolInv, SizeIsExact, TypeOK, Workers
  <1>1. submit[s].step = "push" /\ UNCHANGED owner /\ SignalOne
    BY DEF task_queue_push
  <1>2. PICK t \in Task \ Queued, p \in Priority :
           t = submit[s].task /\ p = submit[s].priority
    BY <1>t, <1>1, SMTT(60) DEF PoolInv, TasksApart, TypeOK, Submits
  <1>3. Queued' = Queued \cup {t}
    <2>1. queues' = [queues EXCEPT ![p] = Append(@, t)] /\ size' = size + 1
      BY <1>2 DEF task_queue_push
    <2> QED
      BY <1>2, <2>1, PushQueues, ZenonT(60) DEF PoolInv
  <1>4. Running' = Running
    <2>1. CASE UNCHANGED worker
      BY <2>1, RunningKept
    <2>2. CASE \E w \in WorkersAt({"parked"}) : Move(w, "woken")
      <3>1. PICK w \in Worker : worker[w].step = "parked" /\ Move(w, "woken")
        BY <2>2 DEF WorkersAt
      <3>2. worker'[w].step = "woken" /\ \A v \in Worker \ {w} : worker'[v] = worker[v]
        BY <1>t, <3>1, Moved DEF WorkerSteps
      <3> QED
        BY <3>1, <3>2, RunningKept
    <2> QED
      BY <1>1, <2>1, <2>2 DEF SignalOne
  <1>5. t \notin Running
    BY <1>1, <1>2 DEF PoolInv, TasksApart, Running, WorkersAt, At
  <1>6. owner # "freed"
    BY <1>1 DEF PoolInv, SubmitsInTime, Closing
  <1>7. Promise!Submit(t)
    BY <1>1, <1>2, <1>3, <1>4, <1>5, <1>6 DEF Promise!Submit
  <1> QED
    BY <1>2, <1>7 DEF Promise!SpecNext

(***************************************************************************)
(* A pop that finds work is PoolSpec's Start of the task taken.            *)
(***************************************************************************)
LEMMA PopRefines ==
    ASSUME PoolInv, NEW w \in Worker, PopTask(w)
    PROVE  Promise!SpecNext
  <1>t. TypeOK /\ worker \in [Worker -> Workers]
    BY DEF PoolInv, SizeIsExact, TypeOK, Workers
  <1>1. worker[w].step \in {"pop", "woken"} /\ UNCHANGED owner
    BY DEF PopTask
  <1>2. PICK t : t = Head(queues[Served])
    OBVIOUS
  <1>3. t \in Task /\ t \in Queued /\ Queued' = Queued \ {t}
    BY <1>2, PopQueues DEF PoolInv, PopTask
  <1>4. worker'[w] = [step |-> "run", task |-> t] /\ \A v \in Worker \ {w} : worker'[v] = worker[v]
    BY <1>t, <1>2 DEF PopTask
  <1>5. Running' = Running \cup {t}
    BY <1>1, <1>4 DEF Running, WorkersAt
  <1>6. owner # "freed"
    BY <1>1 DEF PoolInv, FreedIsUnused
  <1>7. Promise!Start(t)
    BY <1>1, <1>3, <1>5, <1>6 DEF Promise!Start
  <1> QED
    BY <1>3, <1>7 DEF Promise!SpecNext

(***************************************************************************)
(* A handler's return is PoolSpec's Finish: no other worker runs its task. *)
(***************************************************************************)
LEMMA ReturnRefines ==
    ASSUME PoolInv, NEW w \in Worker, TaskReturns(w)
    PROVE  Promise!SpecNext
  <1>t. TypeOK /\ worker \in [Worker -> Workers]
    BY DEF PoolInv, SizeIsExact, TypeOK, Workers
  <1>1. worker[w].step = "run" /\ UNCHANGED <<queues, owner>>
    BY DEF TaskReturns, At
  <1>2. PICK t \in Task : t = worker[w].task
    BY <1>1 DEF PoolInv, TasksApart, At
  <1>3. worker'[w].step = "loop" /\ \A v \in Worker \ {w} : worker'[v] = worker[v]
    BY <1>t DEF TaskReturns, Workers
  <1>4. \A v \in Worker \ {w} : worker[v].step = "run" => worker[v].task # t
    BY <1>1, <1>2 DEF PoolInv, TasksApart, At
  <1>5. t \in Running /\ Running' = Running \ {t}
    BY <1>1, <1>2, <1>3, <1>4 DEF Running, WorkersAt
  <1>6. owner # "freed" /\ Queued' = Queued
    BY <1>1 DEF PoolInv, FreedIsUnused, Queued, QueuedAt
  <1>7. Promise!Finish(t)
    BY <1>1, <1>5, <1>6 DEF Promise!Finish
  <1> QED
    BY <1>2, <1>7 DEF Promise!SpecNext

(***************************************************************************)
(* Freeing the pool is PoolSpec's Close: the joins have seen every worker  *)
(* off, so nothing runs.                                                   *)
(***************************************************************************)
LEMMA FreeRefines ==
    ASSUME DestroyFrees
    PROVE  Promise!SpecNext
  <1>1. owner = "join" /\ owner' = "freed" /\ UNCHANGED worker
    BY DEF DestroyFrees
  <1>2. Running = {} /\ Running' = {}
    BY <1>1 DEF DestroyFrees, Running, WorkersAt
  <1>3. Queued' = {}
    BY DEF DestroyFrees, Queued, QueuedAt
  <1>4. Promise!Close
    BY <1>1, <1>2, <1>3 DEF Promise!Close
  <1> QED
    BY <1>4 DEF Promise!SpecNext

(***************************************************************************)
(* The users see nothing of a worker's other steps.                        *)
(***************************************************************************)
LEMMA HiddenMoves ==
    ASSUME PoolInv, NEW w \in Worker,
           \/ CreateWorker(w) \/ WorkerLoops(w) \/ PopNothing(w) \/ Park(w)
           \/ SpuriousWakeup(w)
    PROVE  UNCHANGED <<Queued, Running, owner>>
  <1>t. worker \in [Worker -> Workers]
    BY DEF PoolInv, SizeIsExact, TypeOK, Workers
  <1>1. UNCHANGED <<queues, owner>>
    BY DEF CreateWorker, WorkerLoops, PopNothing, Park, SpuriousWakeup
  <1>2. /\ worker[w].step # "run"
        /\ \E step \in WorkerSteps \ {"run"} : Move(w, step)
    BY DEF CreateWorker, WorkerLoops, PopNothing, Park, SpuriousWakeup, At, WorkerSteps
  <1>3. worker'[w].step # "run" /\ \A v \in Worker \ {w} : worker'[v] = worker[v]
    BY <1>t, <1>2, Moved
  <1> QED
    BY <1>1, <1>2, <1>3, RunningKept DEF Queued, QueuedAt

(***************************************************************************)
(* Nor of the creation, of a submit before its push, or of the flags and   *)
(* the broadcast of a destroy.                                             *)
(***************************************************************************)
LEMMA HiddenSteps ==
    ASSUME PoolInv,
           \/ CreateReturns \/ CreateFails \/ DestroyBegins \/ DestroyFlagsQueue
           \/ DestroyBroadcasts
           \/ \E s \in Submitter :
                 \/ \E t \in Task, p \in Priority : SubmitCall(s, t, p)
                 \/ SubmitFails(s) \/ SubmitterLeaves(s)
    PROVE  UNCHANGED <<Queued, Running, owner # "freed">>
  <1>1. UNCHANGED queues /\ (owner' # "freed") = (owner # "freed")
    BY DEF CreateReturns, CreateFails, DestroyBegins, DestroyFlagsQueue, DestroyBroadcasts,
           SubmitCall, SubmitFails, SubmitterLeaves
  <1>2. \/ UNCHANGED worker
        \/ DestroyBroadcasts
    BY DEF CreateReturns, CreateFails, DestroyBegins, DestroyFlagsQueue,
           SubmitCall, SubmitFails, SubmitterLeaves
  <1>3. Running' = Running
    <2>1. CASE UNCHANGED worker
      BY <2>1, RunningKept
    <2>2. CASE DestroyBroadcasts
      <3>1. worker \in [Worker -> Workers]
        BY DEF PoolInv, SizeIsExact, TypeOK, Workers
      <3>2. \A w \in Worker : \/ worker'[w] = worker[w]
                              \/ worker[w].step # "run" /\ worker'[w].step # "run"
        <4>1. ASSUME NEW w \in Worker, worker[w].step = "parked"
              PROVE  worker'[w].step = "woken"
          BY <2>2, <3>1, <4>1 DEF DestroyBroadcasts, WakeAll, At, Workers
        <4>2. ASSUME NEW w \in Worker, worker[w].step # "parked"
              PROVE  worker'[w] = worker[w]
          BY <2>2, <4>2 DEF DestroyBroadcasts, WakeAll, At
        <4> QED
          BY <4>1, <4>2
      <3> QED
        BY <3>2, RunningKept
    <2> QED
      BY <1>2, <2>1, <2>2
  <1> QED
    BY <1>1, <1>3 DEF Queued, QueuedAt

(***************************************************************************)
(* Every step of the pool is a step of PoolSpec or hidden from its users.  *)
(***************************************************************************)
LEMMA PoolStepRefines ==
    ASSUME PoolInv, [Next]_vars
    PROVE  [Promise!SpecNext]_<<Queued, Running, owner # "freed">>
  <1>1. CASE UNCHANGED vars
    BY <1>1 DEF vars, Queued, QueuedAt, Running, WorkersAt
  <1>2. CASE Next
    BY <1>2, PushRefines, PopRefines, ReturnRefines, FreeRefines, HiddenMoves, HiddenSteps
       DEF Next, OwnerStep, WorkerStep
  <1> QED
    BY <1>1, <1>2

(***************************************************************************)
(* The pool implements PoolSpec, for any number of workers, submitters and *)
(* tasks: an accepted task is started at most once and in no other way     *)
(* lost than by closing the pool, and nothing runs in a closed pool.       *)
(***************************************************************************)
THEOREM PoolImplementsPromise == Spec => KeepsPromise
  <1>1. Init => Promise!SpecInit
    BY DEF Init, Promise!SpecInit, Queued, QueuedAt, Running, WorkersAt
  <1>2. PoolInv /\ [Next]_vars => [Promise!SpecNext]_<<Queued, Running, owner # "freed">>
    BY PoolStepRefines
  <1> QED
    BY <1>1, <1>2, PoolInvAlways, PTL DEF Spec, KeepsPromise, Promise!PromisedSpec
=============================================================================
