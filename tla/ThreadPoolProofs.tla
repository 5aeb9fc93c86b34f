-------------------------- MODULE ThreadPoolProofs --------------------------
(***************************************************************************)
(* That no wake-up of a worker is lost, that a task is in one place and    *)
(* that the pool is destroyed with nothing left, for every number of       *)
(* producers, tasks, workers and changes: Spec => []NoWakeupLost.          *)
(*                                                                         *)
(* A wake-up could be lost to a worker that has to go.  It is not, since   *)
(* only workers within the size sleep: whenever one of them gets beyond    *)
(* it, all are woken.  That a pool is destroyed empty needs that the last  *)
(* worker leaves an empty queue, to which nobody adds any more; and that a *)
(* task is in one place, that no task is queued twice, which is counted    *)
(* here without a count: the queue has no task twice, and it, the hands of *)
(* each worker and the tasks executed have none in common.                 *)
(***************************************************************************)
EXTENDS ThreadPool, FiniteSetTheorems, TLAPS

WorkerState == {"none", "ready", "waiting", "notifying", "running",
                "finished", "signalling"}

Typed ==
  /\ pool_size \in Nat /\ workers \in 0 .. MaxWorkers
  /\ pool_size <= workers
  /\ tasks \in Seq(Task) /\ run \subseteq Task
  /\ in_flight \in Nat /\ stop \in BOOLEAN
  /\ worker \in [Workers -> [state : WorkerState, task : SUBSET Task]]
  /\ producer \in [Producer -> [state : {"ready", "waiting", "woken"},
                                left : 0 .. TasksEach]]
  /\ owner \in {"using", "waiting", "destroying", "destroyed"}
  /\ \A p \in Producer : producer[p].state # "ready" => producer[p].left > 0

\* The threads of the pool are the first ones; those that sleep are within its
\* size; those that run a task, or are about to, have one.
ThreadsOK ==
  \A i \in Workers :
    /\ worker[i].state # "none" <=> i < workers
    /\ worker[i].state = "waiting" => i < pool_size
    /\ IF worker[i].state \in {"notifying", "running"}
       THEN \E t \in Task : worker[i].task = {t}
       ELSE worker[i].task = {}

\* The pool is stopped by its owner, with all tasks enqueued, and the last
\* thread leaves an empty queue.
Stopping ==
  /\ IF owner = "using" THEN ~stop ELSE stop
  /\ IF stop THEN pool_size = 0 ELSE pool_size > 0
  /\ stop => \A p \in Producer : producer[p].left = 0
  /\ workers = 0 => tasks = <<>>
  /\ owner = "destroyed" => workers = 0

\* A task is queued once, is in the hands of one worker, or is executed.
Distinct(s) == \A i, j \in 1 .. Len(s) : s[i] = s[j] => i = j
Elements(s) == {s[i] : i \in 1 .. Len(s)}

InOnePlace ==
  /\ Distinct(tasks)
  /\ \A i \in Workers : \A t \in worker[i].task :
       t \notin Elements(tasks) /\ t \notin run
  /\ Elements(tasks) \cap run = {}
  /\ \A i, j \in Workers :
       i # j => worker[i].task \cap worker[j].task = {}
  /\ \A t \in Task :
       t \in Enqueued <=> \/ t \in Elements(tasks) \cup run
                          \/ \E i \in Workers : t \in worker[i].task

\* The workers that may take a task, those that sleep and those that have one.
MayTake == {i \in Workers : worker[i].state = "ready" /\ i < pool_size}
Sleeping == {i \in Workers : worker[i].state = "waiting"}
AtWork == {i \in Workers : Busy(i)}

Wakeups == Sleeping # {} => Len(tasks) <= Cardinality(MayTake)
Counted == in_flight = Len(tasks) + Cardinality(AtWork)

PInv ==
  /\ Typed
  /\ ThreadsOK
  /\ Stopping
  /\ InOnePlace
  /\ Wakeups
  /\ Counted

-----------------------------------------------------------------------------

\* Sets of workers are finite, and grow and shrink by one.
LEMMA WorkersFinite ==
  ASSUME NEW W, W \subseteq Workers
  PROVE  /\ Cardinality(W) \in Nat
         /\ W = {} <=> Cardinality(W) = 0
         /\ \A w \in W : Cardinality(W \ {w}) = Cardinality(W) - 1
         /\ \A w : w \notin W => Cardinality(W \union {w}) = Cardinality(W) + 1
         /\ \A V : V \subseteq W => /\ Cardinality(V) \in Nat
                                    /\ Cardinality(V) <= Cardinality(W)
  <1>1. IsFiniteSet(Workers) BY FS_Interval, ThreadPoolAssumption DEF Workers
  <1>2. IsFiniteSet(W) BY <1>1, FS_Subset
  <1>3. \A V : V \subseteq W => /\ IsFiniteSet(V)
                                /\ Cardinality(V) <= Cardinality(W)
    BY <1>2, FS_Subset
  <1> QED BY <1>2, <1>3, FS_CardinalityType, FS_EmptySet, FS_RemoveElement,
             FS_AddElement

\* A task pushed is queued once more, and it alone.
LEMMA PushedTask ==
  ASSUME NEW S, NEW s \in Seq(S), NEW t \in S, Distinct(s), t \notin Elements(s)
  PROVE  /\ Append(s, t) \in Seq(S) /\ Append(s, t) # <<>>
         /\ Len(s) \in Nat /\ Len(Append(s, t)) = Len(s) + 1
         /\ Distinct(Append(s, t))
         /\ Elements(Append(s, t)) = Elements(s) \union {t}
  <1>1. /\ Append(s, t) \in Seq(S) /\ Append(s, t) # <<>>
        /\ Len(s) \in Nat /\ Len(Append(s, t)) = Len(s) + 1
        /\ \A i \in 1 .. Len(s) : Append(s, t)[i] = s[i]
        /\ Append(s, t)[Len(s) + 1] = t
    OBVIOUS
  <1>2. Distinct(Append(s, t)) BY <1>1 DEF Distinct, Elements
  <1>3. Elements(Append(s, t)) = Elements(s) \union {t}
    BY <1>1 DEF Elements
  <1> QED BY <1>1, <1>2, <1>3

\* A task taken is not queued any more, and it alone.
LEMMA TakenTask ==
  ASSUME NEW S, NEW s \in Seq(S), s # <<>>, Distinct(s)
  PROVE  /\ Head(s) \in S /\ Head(s) \in Elements(s)
         /\ Tail(s) \in Seq(S)
         /\ Len(s) \in Nat /\ Len(s) > 0 /\ Len(Tail(s)) = Len(s) - 1
         /\ Distinct(Tail(s))
         /\ Elements(Tail(s)) = Elements(s) \ {Head(s)}
  <1>1. /\ Head(s) = s[1] /\ Tail(s) \in Seq(S)
        /\ Len(s) \in Nat /\ Len(s) > 0 /\ Len(Tail(s)) = Len(s) - 1
        /\ \A i \in 1 .. Len(s) - 1 : Tail(s)[i] = s[i + 1]
        /\ \A i \in 1 .. Len(s) : s[i] \in S
    OBVIOUS
  <1>2. Head(s) \in S /\ Head(s) \in Elements(s) BY <1>1 DEF Elements
  <1>3. Distinct(Tail(s)) BY <1>1 DEF Distinct
  <1>4. Elements(Tail(s)) = Elements(s) \ {Head(s)}
    <2>1. ASSUME NEW i \in 1 .. Len(Tail(s))
          PROVE  Tail(s)[i] \in Elements(s) \ {Head(s)}
      <3>1. i + 1 \in 1 .. Len(s) /\ 1 \in 1 .. Len(s) /\ i + 1 # 1
        BY <1>1, <2>1
      <3>2. Tail(s)[i] = s[i + 1] BY <1>1, <2>1
      <3>3. s[i + 1] # s[1] BY <3>1 DEF Distinct
      <3> QED BY <1>1, <3>1, <3>2, <3>3 DEF Elements
    <2>2. ASSUME NEW i \in 1 .. Len(s), s[i] # Head(s)
          PROVE  s[i] \in Elements(Tail(s))
      <3>1. i # 1 BY <1>1, <2>2
      <3>2. i - 1 \in 1 .. Len(Tail(s)) /\ (i - 1) + 1 = i
        BY <1>1, <2>2, <3>1
      <3>3. Tail(s)[i - 1] = s[i] BY <1>1, <3>2
      <3> QED BY <3>2, <3>3 DEF Elements
    <2> QED BY <2>1, <2>2 DEF Elements
  <1> QED BY <1>1, <1>2, <1>3, <1>4

\* An empty queue, with all workers of the initial size ready.
LEMMA InitPInv == Init => PInv
  <1> SUFFICES ASSUME Init PROVE PInv OBVIOUS
  <1> USE DEF Init
  <1>0. /\ InitialSize \in Nat /\ InitialSize > 0 /\ InitialSize <= MaxWorkers
        /\ MaxWorkers \in Nat /\ TasksEach \in Nat
    BY ThreadPoolAssumption
  <1>1. Typed
    <2>1. worker \in [Workers -> [state : WorkerState, task : SUBSET Task]]
      BY DEF WorkerState, Started, NoThread
    <2>2. producer \in [Producer -> [state : {"ready", "waiting", "woken"},
                                     left : 0 .. TasksEach]]
      BY <1>0
    <2>3. tasks \in Seq(Task) OBVIOUS
    <2>4. \A p \in Producer : producer[p].state = "ready" OBVIOUS
    <2>5. /\ pool_size \in Nat /\ workers \in 0 .. MaxWorkers
          /\ pool_size <= workers /\ in_flight \in Nat
      BY <1>0
    <2>6. run \subseteq Task /\ stop \in BOOLEAN /\ owner = "using" OBVIOUS
    <2> HIDE DEF Init
    <2> QED BY <2>1, <2>2, <2>3, <2>4, <2>5, <2>6 DEF Typed
  <1>2. ThreadsOK BY <1>0 DEF ThreadsOK, Workers, Started, NoThread
  <1>3. Stopping BY <1>0 DEF Stopping
  <1>4. InOnePlace
    <2>1. Elements(tasks) = {} /\ Distinct(tasks) BY DEF Elements, Distinct
    <2>2. \A i \in Workers : worker[i].task = {} BY DEF Started, NoThread
    <2>3. \A t \in Task : t \notin Enqueued
      <3> SUFFICES ASSUME NEW t \in Task PROVE t \notin Enqueued OBVIOUS
      <3>1. t[1] \in Producer /\ t[2] \in 1 .. TasksEach BY DEF Task
      <3> QED BY <1>0, <3>1 DEF Enqueued
    <2> QED BY <2>1, <2>2, <2>3 DEF InOnePlace
  <1>5. Sleeping = {} /\ AtWork = {}
    BY DEF Sleeping, AtWork, Busy, Started, NoThread
  <1>6. Wakeups BY <1>5 DEF Wakeups
  <1>7. Counted BY <1>5, FS_EmptySet DEF Counted
  <1> QED BY <1>1, <1>2, <1>3, <1>4, <1>6, <1>7 DEF PInv

\* A step that leaves the queue and the workers as they are, and enqueues
\* nothing: only who waits for room may change.
LEMMA SameWork ==
  ASSUME PInv,
         UNCHANGED <<pool_size, workers, tasks, stop, in_flight, worker, run,
                     owner>>,
         producer' \in [Producer -> [state : {"ready", "waiting", "woken"},
                                     left : 0 .. TasksEach]],
         \A p \in Producer :
           /\ producer'[p].left = producer[p].left
           /\ producer'[p].state # "ready" => producer'[p].left > 0
  PROVE  PInv'
  <1> USE DEF PInv
  <1>1. Typed' BY DEF Typed
  <1>2. ThreadsOK' BY DEF ThreadsOK
  <1>3. Stopping' BY DEF Stopping
  <1>4. InOnePlace'
    <2>1. \A t \in Task : t \in Enqueued' <=> t \in Enqueued
      <3> SUFFICES ASSUME NEW t \in Task
                   PROVE  t \in Enqueued' <=> t \in Enqueued
        OBVIOUS
      <3>1. t[1] \in Producer BY DEF Task
      <3> QED BY <3>1 DEF Enqueued, Task
    <2> QED BY <2>1 DEF InOnePlace, Distinct, Elements, Task
  <1>5. Wakeups' BY DEF Wakeups, Sleeping, MayTake
  <1>6. Counted' BY DEF Counted, AtWork, Busy
  <1> QED BY <1>1, <1>2, <1>3, <1>4, <1>5, <1>6

\* Waking a producer makes it look at the queue again.
LEMMA WokenProducers ==
  ASSUME Typed,
         NEW woken, woken = [p \in Producer |-> WokenProducer(p)]
  PROVE  /\ woken \in [Producer -> [state : {"ready", "waiting", "woken"},
                                    left : 0 .. TasksEach]]
         /\ \A p \in Producer :
              /\ woken[p].left = producer[p].left
              /\ woken[p].state # "ready" => woken[p].left > 0
  <1> SUFFICES ASSUME NEW p \in Producer
               PROVE  /\ woken[p] \in [state : {"ready", "waiting", "woken"},
                                       left : 0 .. TasksEach]
                      /\ woken[p].left = producer[p].left
                      /\ woken[p].state # "ready" => woken[p].left > 0
    OBVIOUS
  <1> QED BY DEF Typed, WokenProducer

\* Waiting changes nothing but the one who waits.
LEMMA WaitUntilPInv ==
  ASSUME PInv, NEW w \in Waiters, WaitUntil(w)
  PROVE  PInv'
  <1>1. UNCHANGED <<pool_size, workers, tasks, stop, in_flight, worker, run,
                    owner, producer>>
    BY DEF WaitUntil
  <1> QED BY <1>1, SameWork DEF PInv, Typed

\* A higher limit wakes those who wait for room.
LEMMA SetQueueSizeLimitPInv ==
  ASSUME PInv, NEW n, SetQueueSizeLimit(n)
  PROVE  PInv'
  <1>1. /\ UNCHANGED <<pool_size, workers, tasks, stop, in_flight, worker, run,
                       owner>>
        /\ \/ producer' = producer
           \/ producer' = [p \in Producer |-> WokenProducer(p)]
    BY DEF SetQueueSizeLimit
  <1>2. CASE producer' = producer BY <1>1, <1>2, SameWork DEF PInv, Typed
  <1>3. CASE producer' = [p \in Producer |-> WokenProducer(p)]
    BY <1>1, <1>3, SameWork, WokenProducers DEF PInv
  <1> QED BY <1>1, <1>2, <1>3

-----------------------------------------------------------------------------

\* A task pushed is a new one, and a worker that sleeps wakes for it.
LEMMA PushPInv ==
  ASSUME PInv, NEW p \in Producer, NEW others,
         others \in [Producer -> [state : {"ready", "waiting", "woken"},
                                  left : 0 .. TasksEach]],
         \A q \in Producer :
           /\ others[q].left = producer[q].left
           /\ others[q].state # "ready" => others[q].left > 0,
         producer[p].left > 0, ~stop, Push(p, others),
         UNCHANGED <<pool_size, workers, stop, owner, run>>
  PROVE  PInv'
  <1> DEFINE t == NextTask(p)
  <1>1. /\ Typed /\ ThreadsOK /\ Stopping /\ InOnePlace /\ Wakeups /\ Counted
        /\ tasks' = Append(tasks, t) /\ in_flight' = in_flight + 1
        /\ producer' = [others EXCEPT ![p] =
                          [state |-> "ready", left |-> producer[p].left - 1]]
        /\ NotifyOneConsumer
    BY DEF PInv, Push
  <1>2. TasksEach \in Nat /\ producer[p].left \in 1 .. TasksEach
    BY <1>1, ThreadPoolAssumption DEF Typed
  <1>3. /\ producer' \in [Producer -> [state : {"ready", "waiting", "woken"},
                                       left : 0 .. TasksEach]]
        /\ producer'[p].left = producer[p].left - 1
        /\ \A q \in Producer : /\ q # p => producer'[q].left = producer[q].left
                               /\ producer'[q].state # "ready"
                                    => producer'[q].left > 0
    BY <1>1, <1>2
  <1>4. /\ t = <<p, TasksEach - producer[p].left + 1>>
        /\ t \in Task /\ t[1] = p /\ t[2] = TasksEach - producer[p].left + 1
    BY <1>2 DEF NextTask, Task
  <1>5. t \notin Enqueued BY <1>2, <1>4 DEF Enqueued
  <1>6. \A u \in Task : u \in Enqueued' <=> u \in Enqueued \/ u = t
    <2> SUFFICES ASSUME NEW u \in Task
                 PROVE  u \in Enqueued' <=> u \in Enqueued \/ u = t
      OBVIOUS
    <2>1. /\ u[1] \in Producer /\ u[2] \in 1 .. TasksEach /\ u = <<u[1], u[2]>>
          /\ Task' = Task
      BY DEF Task
    <2>2. CASE u[1] # p
      <3>1. u # t BY <1>4, <2>2
      <3> QED BY <1>3, <2>1, <2>2, <3>1 DEF Enqueued
    <2>3. CASE u[1] = p
      <3>1. u = t <=> u[2] = TasksEach - producer[p].left + 1
        BY <1>4, <2>1, <2>3
      <3>2. u \in Enqueued' <=> u[2] <= TasksEach - (producer[p].left - 1)
        BY <1>3, <2>1, <2>3 DEF Enqueued
      <3>3. u \in Enqueued <=> u[2] <= TasksEach - producer[p].left
        BY <2>1, <2>3 DEF Enqueued
      <3> QED BY <1>2, <2>1, <3>1, <3>2, <3>3
    <2> QED BY <2>2, <2>3
  <1> HIDE DEF t
  <1>7. /\ t \notin Elements(tasks) /\ t \notin run
        /\ \A i \in Workers : t \notin worker[i].task
    BY <1>1, <1>4, <1>5 DEF InOnePlace
  <1>8. /\ tasks' \in Seq(Task) /\ tasks' # <<>> /\ Len(tasks) \in Nat
        /\ Len(tasks') = Len(tasks) + 1
        /\ Distinct(tasks') /\ Elements(tasks') = Elements(tasks) \union {t}
    <2>1. tasks \in Seq(Task) /\ Distinct(tasks)
      BY <1>1 DEF Typed, InOnePlace
    <2>2. t \in Task /\ t \notin Elements(tasks) BY <1>4, <1>7
    <2>3. /\ Append(tasks, t) \in Seq(Task) /\ Append(tasks, t) # <<>>
          /\ Len(tasks) \in Nat /\ Len(Append(tasks, t)) = Len(tasks) + 1
          /\ Distinct(Append(tasks, t))
          /\ Elements(Append(tasks, t)) = Elements(tasks) \union {t}
      BY <2>1, <2>2, PushedTask
    <2>4. tasks' = Append(tasks, t) BY <1>1
    <2> QED BY <2>3, <2>4
  <1>9. /\ worker' \in [Workers -> [state : WorkerState, task : SUBSET Task]]
        /\ \A j \in Workers : worker'[j].task = worker[j].task
        /\ \/ Sleeping = {}
              /\ \A j \in Workers : worker'[j].state = worker[j].state
           \/ \E i \in Sleeping : \A j \in Workers :
                worker'[j].state = IF j = i THEN "ready" ELSE worker[j].state
    <2>1. CASE Sleeping = {}
      BY <1>1, <2>1 DEF NotifyOneConsumer, Sleeping, Typed
    <2>2. CASE Sleeping # {}
      <3>1. PICK i \in Sleeping : worker' = [worker EXCEPT ![i] = Woken(@)]
        BY <1>1, <2>2 DEF NotifyOneConsumer, Sleeping
      <3>2. i \in Workers /\ worker[i].state = "waiting" BY DEF Sleeping
      <3>3. /\ Woken(worker[i]) \in [state : WorkerState, task : SUBSET Task]
            /\ Woken(worker[i]).state = "ready"
            /\ Woken(worker[i]).task = worker[i].task
        BY <1>1, <3>2 DEF Woken, Typed, WorkerState
      <3>4. worker' \in [Workers -> [state : WorkerState, task : SUBSET Task]]
        BY <1>1, <3>1, <3>3 DEF Typed
      <3>5. \A j \in Workers :
              worker'[j] = IF j = i THEN Woken(worker[i]) ELSE worker[j]
        BY <1>1, <3>1, <3>2 DEF Typed
      <3> QED BY <3>3, <3>4, <3>5
    <2> QED BY <2>1, <2>2
  <1>10. \A j \in Workers :
           \/ worker'[j].state = worker[j].state
           \/ worker[j].state = "waiting" /\ worker'[j].state = "ready"
    BY <1>9 DEF Sleeping
  <1>11. /\ in_flight \in Nat /\ pool_size \in Nat /\ workers \in Nat
         /\ pool_size > 0 /\ pool_size <= workers
    BY <1>1 DEF Typed, Stopping
  <1>12. Typed' BY <1>1, <1>3, <1>8, <1>9, <1>11 DEF Typed, Task
  <1>13. ThreadsOK'
    <2> SUFFICES ASSUME NEW j \in Workers
                 PROVE  /\ worker'[j].state # "none" <=> j < workers
                        /\ worker'[j].state = "waiting" => j < pool_size
                        /\ IF worker'[j].state \in {"notifying", "running"}
                           THEN \E u \in Task : worker'[j].task = {u}
                           ELSE worker'[j].task = {}
      BY <1>1 DEF ThreadsOK, Task, Workers
    <2>1. worker'[j].task = worker[j].task BY <1>9
    <2> QED BY <1>1, <1>10, <2>1 DEF ThreadsOK
  <1>14. Stopping' BY <1>1, <1>11 DEF Stopping
  <1>15. InOnePlace'
    <2>1. \A u \in Task : u \in Enqueued' <=>
            \/ u \in Elements(tasks') \union run'
            \/ \E i \in Workers : u \in worker'[i].task
      BY <1>1, <1>6, <1>8, <1>9 DEF InOnePlace
    <2>2. ASSUME NEW i \in Workers, NEW u \in worker'[i].task
          PROVE  u \notin Elements(tasks') /\ u \notin run'
      <3>1. u \in worker[i].task BY <1>9, <2>2
      <3>2. u \notin Elements(tasks) /\ u \notin run /\ u # t
        BY <1>1, <1>7, <3>1 DEF InOnePlace
      <3> QED BY <1>8, <3>2
    <2>3. Elements(tasks') \cap run' = {}
      BY <1>1, <1>7, <1>8 DEF InOnePlace
    <2>4. \A i, j \in Workers :
            i # j => worker'[i].task \cap worker'[j].task = {}
      BY <1>1, <1>9 DEF InOnePlace
    <2> QED BY <1>8, <2>1, <2>2, <2>3, <2>4 DEF InOnePlace, Elements, Distinct,
               Task
  <1>16. Wakeups'
    <2>1. CASE Sleeping' = {} BY <2>1 DEF Wakeups
    <2>2. CASE Sleeping' # {}
      <3>1. PICK i \in Sleeping : \A j \in Workers :
                worker'[j].state = IF j = i THEN "ready" ELSE worker[j].state
        BY <1>9, <2>2 DEF Sleeping
      <3>2. i \in Workers /\ i < pool_size /\ i \notin MayTake
        BY <1>1, <3>1 DEF Sleeping, ThreadsOK, MayTake
      <3>3. MayTake' = MayTake \union {i} BY <3>1, <3>2 DEF MayTake
      <3>4. Len(tasks) <= Cardinality(MayTake) BY <1>1, <3>1 DEF Wakeups
      <3>5. /\ Cardinality(MayTake) \in Nat
            /\ Cardinality(MayTake \union {i}) = Cardinality(MayTake) + 1
        BY <3>2, WorkersFinite DEF MayTake
      <3>6. Len(tasks') <= Cardinality(MayTake \union {i})
        BY <1>8, <3>4, <3>5
      <3> QED BY <3>3, <3>6 DEF Wakeups
    <2> QED BY <2>1, <2>2
  <1>17. Counted'
    <2>1. AtWork' = AtWork BY <1>10 DEF AtWork, Busy
    <2>2. Cardinality(AtWork) \in Nat BY WorkersFinite DEF AtWork
    <2>3. in_flight' = Len(tasks') + Cardinality(AtWork)
      BY <1>1, <1>8, <1>11, <2>2 DEF Counted
    <2> QED BY <2>1, <2>3 DEF Counted
  <1> QED BY <1>12, <1>13, <1>14, <1>15, <1>16, <1>17 DEF PInv

\* Once there is room, after as much doubling as one call does.
LEMMA EnqueuePInv ==
  ASSUME PInv, NEW p \in Producer, Enqueue(p)
  PROVE  PInv'
  <1> DEFINE full == Len(tasks) >= max_queue_size
             others == IF full THEN [q \in Producer |-> WokenProducer(q)]
                       ELSE producer
  <1>1. /\ producer[p].left > 0 /\ ~stop
        /\ UNCHANGED <<pool_size, workers, stop, owner, changes, run>>
        /\ \/ Push(p, others)
           \/ /\ producer' = [others EXCEPT ![p].state = "waiting"]
              /\ UNCHANGED <<tasks, in_flight, worker>>
    BY DEF Enqueue
  <1>2. /\ others \in [Producer -> [state : {"ready", "waiting", "woken"},
                                    left : 0 .. TasksEach]]
        /\ \A q \in Producer :
             /\ others[q].left = producer[q].left
             /\ others[q].state # "ready" => others[q].left > 0
    BY WokenProducers DEF PInv, Typed
  <1> HIDE DEF others
  <1>3. CASE Push(p, others) BY <1>1, <1>2, <1>3, PushPInv
  <1>4. CASE /\ producer' = [others EXCEPT ![p].state = "waiting"]
             /\ UNCHANGED <<tasks, in_flight, worker>>
    BY <1>1, <1>2, <1>4, SameWork
  <1> QED BY <1>1, <1>3, <1>4

\* Once there is room, as often as it takes.
LEMMA ResumeEnqueuePInv ==
  ASSUME PInv, NEW p \in Producer, ResumeEnqueue(p)
  PROVE  PInv'
  <1>1. /\ ~stop /\ producer[p].state = "woken"
        /\ UNCHANGED <<pool_size, workers, stop, owner, changes, run>>
        /\ \/ Push(p, producer)
           \/ /\ producer' = [producer EXCEPT ![p].state = "waiting"]
              /\ UNCHANGED <<tasks, in_flight, worker>>
    BY DEF ResumeEnqueue
  <1>2. /\ producer \in [Producer -> [state : {"ready", "waiting", "woken"},
                                      left : 0 .. TasksEach]]
        /\ producer[p].left > 0
        /\ \A q \in Producer : producer[q].state # "ready" =>
                                 producer[q].left > 0
    BY <1>1 DEF PInv, Typed
  <1>3. CASE Push(p, producer) BY <1>1, <1>2, <1>3, PushPInv
  <1>4. CASE /\ producer' = [producer EXCEPT ![p].state = "waiting"]
             /\ UNCHANGED <<tasks, in_flight, worker>>
    BY <1>1, <1>2, <1>4, SameWork
  <1> QED BY <1>1, <1>3, <1>4

-----------------------------------------------------------------------------

\* Nothing is moved: each task is where it was.
LEMMA PlacesKept ==
  ASSUME InOnePlace,
         \A j \in Workers : worker'[j].task = worker[j].task,
         \A p \in Producer : producer'[p].left = producer[p].left,
         UNCHANGED <<tasks, run>>
  PROVE  InOnePlace'
  <1>1. ASSUME NEW t \in Task PROVE t \in Enqueued' <=> t \in Enqueued
    <2>1. t[1] \in Producer BY DEF Task
    <2> QED BY <2>1 DEF Enqueued, Task
  <1>2. \A t \in Task : t \in Enqueued' <=>
            \/ t \in Elements(tasks') \union run'
            \/ \E i \in Workers : t \in worker'[i].task
    BY <1>1 DEF InOnePlace
  <1>3. \A i \in Workers : \A t \in worker'[i].task :
          t \notin Elements(tasks') /\ t \notin run'
    BY DEF InOnePlace
  <1>4. \A i, j \in Workers :
          i # j => worker'[i].task \cap worker'[j].task = {}
    BY DEF InOnePlace
  <1> QED BY <1>2, <1>3, <1>4 DEF InOnePlace, Elements, Distinct, Task

\* No worker falls asleep, and none that may take a task is lost.
LEMMA WakeupsKept ==
  ASSUME Wakeups, tasks \in Seq(Task), tasks' = tasks,
         Sleeping' \subseteq Sleeping, MayTake \subseteq MayTake'
  PROVE  Wakeups'
  <1>1. /\ Cardinality(MayTake) \in Nat /\ Cardinality(MayTake') \in Nat
        /\ Cardinality(MayTake) <= Cardinality(MayTake')
    <2>1. MayTake' \subseteq Workers /\ MayTake \subseteq Workers
      BY DEF MayTake, Workers
    <2> QED BY <2>1, WorkersFinite
  <1>2. Len(tasks) \in Nat OBVIOUS
  <1> QED BY <1>1, <1>2 DEF Wakeups

\* A step of one worker, and what it does to the three sets.
LEMMA OneWorker ==
  ASSUME Typed, ThreadsOK,
         NEW i \in Workers, worker[i].state # "none",
         NEW st \in WorkerState \ {"none"}, NEW ts \in SUBSET Task,
         IF st \in {"notifying", "running"} THEN \E t \in Task : ts = {t}
         ELSE ts = {},
         st = "waiting" => i < pool_size,
         worker' = [worker EXCEPT ![i] = [state |-> st, task |-> ts]],
         UNCHANGED <<pool_size, workers>>
  PROVE  /\ worker' \in [Workers -> [state : WorkerState, task : SUBSET Task]]
         /\ worker'[i].task = ts
         /\ \A j \in Workers : j # i => worker'[j] = worker[j]
         /\ ThreadsOK'
         /\ Sleeping' = IF st = "waiting" THEN Sleeping \union {i}
                        ELSE Sleeping \ {i}
         /\ MayTake' = IF st = "ready" /\ i < pool_size
                       THEN MayTake \union {i} ELSE MayTake \ {i}
         /\ AtWork' = IF st \in {"notifying", "running", "finished"}
                      THEN AtWork \union {i} ELSE AtWork \ {i}
  <1> DEFINE now == [state |-> st, task |-> ts]
  <1>1. /\ now \in [state : WorkerState, task : SUBSET Task]
        /\ now.state = st /\ now.task = ts
    OBVIOUS
  <1> HIDE DEF now
  <1>2. worker' \in [Workers -> [state : WorkerState, task : SUBSET Task]]
    BY <1>1 DEF Typed, now
  <1>3. worker'[i].state = st /\ worker'[i].task = ts BY <1>1 DEF Typed, now
  <1>4. \A j \in Workers : j # i => worker'[j] = worker[j] BY DEF Typed
  <1>5. ThreadsOK'
    <2> SUFFICES ASSUME NEW j \in Workers
                 PROVE  /\ worker'[j].state # "none" <=> j < workers
                        /\ worker'[j].state = "waiting" => j < pool_size
                        /\ IF worker'[j].state \in {"notifying", "running"}
                           THEN \E u \in Task : worker'[j].task = {u}
                           ELSE worker'[j].task = {}
      BY DEF ThreadsOK, Task, Workers
    <2>1. CASE j = i BY <1>3, <2>1 DEF ThreadsOK
    <2>2. CASE j # i BY <1>4, <2>2 DEF ThreadsOK
    <2> QED BY <2>1, <2>2
  <1>6. Sleeping' = IF st = "waiting" THEN Sleeping \union {i}
                    ELSE Sleeping \ {i}
    BY <1>3, <1>4 DEF Sleeping, Workers
  <1>7. MayTake' = IF st = "ready" /\ i < pool_size
                   THEN MayTake \union {i} ELSE MayTake \ {i}
    BY <1>3, <1>4 DEF MayTake, Workers
  <1>8. AtWork' = IF st \in {"notifying", "running", "finished"}
                  THEN AtWork \union {i} ELSE AtWork \ {i}
    BY <1>3, <1>4 DEF AtWork, Busy, Workers
  <1> QED BY <1>2, <1>3, <1>4, <1>5, <1>6, <1>7, <1>8

\* A change of the state alone is one of the record.
LEMMA StateOnly ==
  ASSUME Typed, NEW i \in Workers, NEW st,
         worker' = [worker EXCEPT ![i].state = st]
  PROVE  worker' = [worker EXCEPT ![i] =
                      [state |-> st, task |-> worker[i].task]]
  <1>1. worker[i] \in [state : WorkerState, task : SUBSET Task] BY DEF Typed
  <1>2. [worker[i] EXCEPT !.state = st] =
          [state |-> st, task |-> worker[i].task]
    BY <1>1
  <1> QED BY <1>2

-----------------------------------------------------------------------------
(* The steps of a worker.                                                  *)

\* A worker sleeps on an empty queue, within the size of the pool.
LEMMA SleepPInv ==
  ASSUME PInv, NEW i \in Workers, Sleep(i)
  PROVE  PInv'
  <1> USE DEF PInv
  <1>1. /\ worker[i].state = "ready" /\ tasks = <<>> /\ ~stop
        /\ worker' = [worker EXCEPT ![i].state = "waiting"]
        /\ UNCHANGED <<pool_size, workers, tasks, max_queue_size, stop,
                       in_flight, producer, waiter, owner, changes, run>>
    BY DEF Sleep
  <1>2. i < pool_size /\ worker[i].task = {} /\ i \notin AtWork
    BY <1>1 DEF Sleep, Typed, Workers, ThreadsOK, AtWork, Busy
  <1>3. worker' = [worker EXCEPT ![i] = [state |-> "waiting", task |-> {}]]
    BY <1>1, <1>2, StateOnly
  <1>4. /\ worker' \in [Workers -> [state : WorkerState, task : SUBSET Task]]
        /\ worker'[i].task = {}
        /\ \A j \in Workers : j # i => worker'[j] = worker[j]
        /\ ThreadsOK' /\ AtWork' = AtWork \ {i}
    BY <1>1, <1>2, <1>3, OneWorker DEF WorkerState
  <1>5. Typed' BY <1>1, <1>4 DEF Typed, Task
  <1>6. Stopping' BY <1>1 DEF Stopping
  <1>7. InOnePlace' BY <1>1, <1>2, <1>4, PlacesKept
  <1>8. Wakeups'
    <2>1. MayTake' \subseteq Workers BY DEF MayTake, Workers
    <2>2. Cardinality(MayTake') \in Nat BY <2>1, WorkersFinite
    <2>3. Len(tasks') = 0 BY <1>1
    <2> QED BY <2>2, <2>3 DEF Wakeups
  <1>9. Counted'
    <2>1. AtWork' = AtWork BY <1>2, <1>4
    <2> QED BY <1>1, <2>1 DEF Counted
  <1> QED BY <1>4, <1>5, <1>6, <1>7, <1>8, <1>9

\* A task taken is one less in the queue, and one worker less to take it.
LEMMA TakePInv ==
  ASSUME PInv, NEW i \in Workers, Take(i)
  PROVE  PInv'
  <1> DEFINE t == Head(tasks)
             st == IF MakesRoom THEN "notifying" ELSE "running"
  <1>1. /\ Typed /\ ThreadsOK /\ Stopping /\ InOnePlace /\ Wakeups /\ Counted
        /\ worker[i].state = "ready" /\ tasks # <<>> /\ tasks' = Tail(tasks)
        /\ worker' = [worker EXCEPT ![i] = [state |-> st, task |-> {t}]]
        /\ UNCHANGED <<pool_size, workers, stop, in_flight, producer, owner,
                       run>>
    BY DEF PInv, Take
  <1>2. worker[i].task = {} /\ i \notin AtWork
    BY <1>1 DEF ThreadsOK, AtWork, Busy
  <1>3. /\ t \in Task /\ t \in Elements(tasks)
        /\ Tail(tasks) \in Seq(Task)
        /\ Len(tasks) \in Nat /\ Len(tasks) > 0
        /\ Len(Tail(tasks)) = Len(tasks) - 1
        /\ Distinct(Tail(tasks))
        /\ Elements(Tail(tasks)) = Elements(tasks) \ {t}
    <2>1. tasks \in Seq(Task) /\ Distinct(tasks) /\ tasks # <<>>
      BY <1>1 DEF Typed, InOnePlace
    <2> QED BY <2>1, TakenTask
  <1>4. st \in {"notifying", "running"} OBVIOUS
  <1> HIDE DEF t, st
  <1>5. /\ worker' \in [Workers -> [state : WorkerState, task : SUBSET Task]]
        /\ worker'[i].task = {t}
        /\ \A j \in Workers : j # i => worker'[j] = worker[j]
        /\ ThreadsOK'
        /\ Sleeping' = Sleeping \ {i} /\ MayTake' = MayTake \ {i}
        /\ AtWork' = AtWork \union {i}
    <2>1. /\ st \in WorkerState \ {"none"} /\ {t} \in SUBSET Task
          /\ \E u \in Task : {t} = {u}
          /\ st # "waiting" /\ st # "ready"
      BY <1>3, <1>4 DEF WorkerState
    <2> QED BY <1>1, <1>4, <2>1, OneWorker
  <1>6. Typed' BY <1>1, <1>3, <1>5 DEF Typed, Task
  <1>7. Stopping'
    <2>1. workers # 0 BY <1>1 DEF ThreadsOK, Workers, Typed
    <2> QED BY <1>1, <2>1 DEF Stopping
  <1>8. InOnePlace'
    <2>1. /\ t \notin run /\ \A j \in Workers : t \notin worker[j].task
      BY <1>1, <1>3 DEF InOnePlace
    <2>2. ASSUME NEW u \in Task PROVE u \in Enqueued' <=> u \in Enqueued
      BY <1>1 DEF Enqueued, Task
    <2>3. ASSUME NEW u \in Task
          PROVE  u \in Enqueued' <=>
                   \/ u \in Elements(tasks') \union run'
                   \/ \E j \in Workers : u \in worker'[j].task
      <3>1. (\E j \in Workers : u \in worker'[j].task)
              <=> u = t \/ \E j \in Workers : u \in worker[j].task
        BY <1>2, <1>5
      <3>2. u \in Elements(tasks') \union run'
              <=> (u \in Elements(tasks) /\ u # t) \/ u \in run
        BY <1>1, <1>3
      <3>3. u \in Enqueued <=>
              \/ u \in Elements(tasks) \union run
              \/ \E j \in Workers : u \in worker[j].task
        BY <1>1, <2>3 DEF InOnePlace
      <3> QED BY <1>3, <2>2, <2>3, <3>1, <3>2, <3>3
    <2>4. ASSUME NEW j \in Workers, NEW u \in worker'[j].task
          PROVE  u \notin Elements(tasks') /\ u \notin run'
      <3>1. CASE j = i BY <1>1, <1>3, <1>5, <2>1, <2>4, <3>1
      <3>2. CASE j # i
        <4>1. u \in worker[j].task BY <1>5, <2>4, <3>2
        <4> QED BY <1>1, <1>3, <4>1 DEF InOnePlace
      <3> QED BY <3>1, <3>2
    <2>5. Elements(tasks') \cap run' = {}
      BY <1>1, <1>3 DEF InOnePlace
    <2>6. ASSUME NEW j \in Workers, NEW k \in Workers, j # k
          PROVE  worker'[j].task \cap worker'[k].task = {}
      <3>1. worker[j].task \cap worker[k].task = {}
        BY <1>1, <2>6 DEF InOnePlace
      <3> QED BY <1>5, <2>1, <2>6, <3>1
    <2>7. Distinct(tasks') BY <1>1, <1>3
    <2> QED BY <2>3, <2>4, <2>5, <2>6, <2>7
            DEF InOnePlace, Elements, Distinct, Task
  <1>9. Wakeups'
    <2>1. CASE Sleeping = {} BY <1>5, <2>1 DEF Wakeups
    <2>2. CASE Sleeping # {}
      <3>1. Len(tasks) <= Cardinality(MayTake) BY <1>1, <2>2 DEF Wakeups
      <3>2. /\ Cardinality(MayTake) \in Nat
            /\ Cardinality(MayTake \ {i}) \in Nat
            /\ Cardinality(MayTake \ {i}) >= Cardinality(MayTake) - 1
        <4>1. MayTake \subseteq Workers BY DEF MayTake
        <4>2. CASE i \in MayTake BY <4>1, <4>2, WorkersFinite
        <4>3. CASE i \notin MayTake
          <5>1. MayTake \ {i} = MayTake BY <4>3
          <5> QED BY <4>1, <5>1, WorkersFinite
        <4> QED BY <4>2, <4>3
      <3>3. Len(tasks') <= Cardinality(MayTake \ {i})
        BY <1>1, <1>3, <3>1, <3>2
      <3> QED BY <1>5, <3>3 DEF Wakeups
    <2> QED BY <2>1, <2>2
  <1>10. Counted'
    <2>1. /\ Cardinality(AtWork) \in Nat
          /\ Cardinality(AtWork \union {i}) = Cardinality(AtWork) + 1
      BY <1>2, WorkersFinite DEF AtWork
    <2>2. in_flight' = Len(tasks') + Cardinality(AtWork \union {i})
      BY <1>1, <1>3, <2>1 DEF Counted
    <2> QED BY <1>5, <2>2 DEF Counted
  <1> QED BY <1>5, <1>6, <1>7, <1>8, <1>9, <1>10 DEF PInv

\* Notifying makes the worker run its task, and nobody else.
LEMMA NotifyProducersPInv ==
  ASSUME PInv, NEW i \in Workers, NotifyProducers(i)
  PROVE  PInv'
  <1> USE DEF PInv
  <1>1. /\ worker[i].state = "notifying"
        /\ worker' = [worker EXCEPT ![i].state = "running"]
        /\ producer' = [p \in Producer |-> WokenProducer(p)]
        /\ UNCHANGED <<pool_size, workers, tasks, stop, in_flight, owner, run>>
    BY DEF NotifyProducers
  <1>2. PICK t \in Task : worker[i].task = {t} BY <1>1 DEF ThreadsOK
  <1>3. i \in AtWork BY <1>1 DEF AtWork, Busy
  <1>4. worker' = [worker EXCEPT ![i] = [state |-> "running", task |-> {t}]]
    BY <1>1, <1>2, StateOnly
  <1>5. /\ worker' \in [Workers -> [state : WorkerState, task : SUBSET Task]]
        /\ worker'[i].task = worker[i].task
        /\ \A j \in Workers : j # i => worker'[j] = worker[j]
        /\ ThreadsOK' /\ AtWork' = AtWork \union {i}
        /\ Sleeping' = Sleeping \ {i} /\ MayTake' = MayTake \ {i}
    <2>1. /\ Typed /\ ThreadsOK /\ worker[i].state # "none"
          /\ "running" \in WorkerState \ {"none"} /\ {t} \in SUBSET Task
          /\ UNCHANGED <<pool_size, workers>>
      BY <1>1 DEF WorkerState
    <2>2. IF "running" \in {"notifying", "running"}
          THEN \E u \in Task : {t} = {u} ELSE {t} = {}
      OBVIOUS
    <2>3. "running" = "waiting" => i < pool_size OBVIOUS
    <2> HIDE DEF PInv
    <2>4. /\ worker' \in [Workers -> [state : WorkerState, task : SUBSET Task]]
          /\ worker'[i].task = {t}
          /\ \A j \in Workers : j # i => worker'[j] = worker[j]
          /\ ThreadsOK'
      BY <1>4, <2>1, <2>2, <2>3, OneWorker
    <2>5. Sleeping' = IF "running" = "waiting" THEN Sleeping \union {i}
                      ELSE Sleeping \ {i}
      BY <1>4, <2>1, <2>2, <2>3, OneWorker
    <2>6. MayTake' = IF "running" = "ready" /\ i < pool_size
                     THEN MayTake \union {i} ELSE MayTake \ {i}
      BY <1>4, <2>1, <2>2, <2>3, OneWorker
    <2>7. AtWork' = IF "running" \in {"notifying", "running", "finished"}
                    THEN AtWork \union {i} ELSE AtWork \ {i}
      BY <1>4, <2>1, <2>2, <2>3, OneWorker
    <2> QED BY <1>2, <2>4, <2>5, <2>6, <2>7
  <1>6. /\ producer' \in [Producer -> [state : {"ready", "waiting", "woken"},
                                       left : 0 .. TasksEach]]
        /\ \A p \in Producer :
             /\ producer'[p].left = producer[p].left
             /\ producer'[p].state # "ready" => producer'[p].left > 0
    BY <1>1, WokenProducers
  <1>7. Typed' BY <1>1, <1>5, <1>6 DEF Typed, Task
  <1>8. Stopping' BY <1>1, <1>6 DEF Stopping
  <1>9. InOnePlace'
    <2>1. \A j \in Workers : worker'[j].task = worker[j].task BY <1>5
    <2> QED BY <1>1, <1>6, <2>1, PlacesKept
  <1>10. i \notin MayTake /\ tasks \in Seq(Task) BY <1>1 DEF MayTake, Typed
  <1>11. Wakeups'
    <2>1. Sleeping' \subseteq Sleeping /\ MayTake \subseteq MayTake'
      BY <1>5, <1>10
    <2> QED BY <1>1, <1>10, <2>1, WakeupsKept
  <1>12. AtWork' = AtWork BY <1>3, <1>5
  <1>13. Counted' BY <1>1, <1>12 DEF Counted
  <1> QED BY <1>5, <1>7, <1>8, <1>9, <1>11, <1>13

\* A task executed leaves the worker's hands, which still counts as at work.
LEMMA RunTaskPInv ==
  ASSUME PInv, NEW i \in Workers, RunTask(i)
  PROVE  PInv'
  <1> USE DEF PInv
  <1>1. /\ worker[i].state = "running"
        /\ run' = run \cup worker[i].task
        /\ worker' = [worker EXCEPT ![i] = [state |-> "finished", task |-> {}]]
        /\ UNCHANGED <<pool_size, workers, tasks, stop, in_flight, producer,
                       owner>>
    BY DEF RunTask
  <1>2. PICK t \in Task : worker[i].task = {t} BY <1>1 DEF ThreadsOK
  <1>3. i \in AtWork /\ i \notin MayTake BY <1>1 DEF AtWork, Busy, MayTake
  <1>4. /\ worker' \in [Workers -> [state : WorkerState, task : SUBSET Task]]
        /\ worker'[i].task = {}
        /\ \A j \in Workers : j # i => worker'[j] = worker[j]
        /\ ThreadsOK' /\ AtWork' = AtWork \union {i}
        /\ Sleeping' = Sleeping \ {i} /\ MayTake' = MayTake \ {i}
    <2>1. /\ Typed /\ ThreadsOK /\ worker[i].state # "none"
          /\ "finished" \in WorkerState \ {"none"} /\ {} \in SUBSET Task
      BY <1>1 DEF WorkerState
    <2>2. /\ worker' = [worker EXCEPT ![i] = [state |-> "finished", task |-> {}]]
          /\ UNCHANGED <<pool_size, workers>>
      BY <1>1
    <2>3. IF "finished" \in {"notifying", "running"}
          THEN \E u \in Task : {} = {u} ELSE {} = {}
      OBVIOUS
    <2>4. "finished" = "waiting" => i < pool_size OBVIOUS
    <2> HIDE DEF PInv
    <2>5. /\ worker' \in [Workers -> [state : WorkerState, task : SUBSET Task]]
          /\ worker'[i].task = {}
          /\ \A j \in Workers : j # i => worker'[j] = worker[j]
          /\ ThreadsOK'
      BY <2>1, <2>2, <2>3, <2>4, OneWorker
    <2>6. Sleeping' = Sleeping \ {i} BY <2>1, <2>2, <2>3, <2>4, OneWorker
    <2>7. MayTake' = IF "finished" = "ready" /\ i < pool_size
                     THEN MayTake \union {i} ELSE MayTake \ {i}
      BY <2>1, <2>2, <2>3, <2>4, OneWorker
    <2>8. AtWork' = AtWork \union {i} BY <2>1, <2>2, <2>3, <2>4, OneWorker
    <2> QED BY <2>5, <2>6, <2>7, <2>8
  <1>5. Typed' BY <1>1, <1>2, <1>4 DEF Typed, Task
  <1>6. Stopping' BY <1>1 DEF Stopping
  <1>7. InOnePlace'
    <2>1. ASSUME NEW u \in Task PROVE u \in Enqueued' <=> u \in Enqueued
      BY <1>1 DEF Enqueued, Task
    <2>2. ASSUME NEW u \in Task
          PROVE  u \in Enqueued' <=>
                   \/ u \in Elements(tasks') \union run'
                   \/ \E j \in Workers : u \in worker'[j].task
      <3>1. (\E j \in Workers : u \in worker[j].task)
              <=> u = t \/ \E j \in Workers : u \in worker'[j].task
        BY <1>2, <1>4
      <3>2. u \in Elements(tasks') \union run'
              <=> u \in Elements(tasks) \union run \/ u = t
        BY <1>1, <1>2
      <3> QED BY <2>1, <2>2, <3>1, <3>2 DEF InOnePlace
    <2>3. ASSUME NEW j \in Workers, NEW u \in worker'[j].task
          PROVE  u \notin Elements(tasks') /\ u \notin run'
      <3>1. j # i BY <1>4, <2>3
      <3>2. u \in worker[j].task BY <1>4, <2>3, <3>1
      <3>3. worker[i].task \cap worker[j].task = {}
        BY <3>1 DEF InOnePlace
      <3> QED BY <1>1, <3>2, <3>3 DEF InOnePlace
    <2>4. Elements(tasks') \cap run' = {} BY <1>1 DEF InOnePlace
    <2>5. \A j, k \in Workers :
            j # k => worker'[j].task \cap worker'[k].task = {}
      BY <1>4 DEF InOnePlace
    <2> QED BY <1>1, <2>2, <2>3, <2>4, <2>5
            DEF InOnePlace, Elements, Distinct, Task
  <1>8. tasks \in Seq(Task) BY DEF Typed
  <1>9. Wakeups' BY <1>1, <1>3, <1>4, <1>8, WakeupsKept
  <1>10. AtWork' = AtWork BY <1>3, <1>4
  <1>11. Counted' BY <1>1, <1>10 DEF Counted
  <1> QED BY <1>4, <1>5, <1>6, <1>7, <1>9, <1>11

\* The count in flight goes down for a worker that was at work.
LEMMA DecrementPInv ==
  ASSUME PInv, NEW i \in Workers, Decrement(i)
  PROVE  PInv'
  <1> USE DEF PInv
  <1> DEFINE st == IF in_flight = 1 THEN "signalling" ELSE "ready"
  <1>1. /\ worker[i].state = "finished" /\ in_flight' = in_flight - 1
        /\ worker' = [worker EXCEPT ![i].state = st]
        /\ UNCHANGED <<pool_size, workers, tasks, stop, producer, owner, run>>
    BY DEF Decrement
  <1>2. st \in {"signalling", "ready"} OBVIOUS
  <1> HIDE DEF st
  <1>3. worker[i].task = {} /\ i \in AtWork /\ i \notin MayTake
    BY <1>1 DEF ThreadsOK, AtWork, Busy, MayTake
  <1>4. worker' = [worker EXCEPT ![i] = [state |-> st, task |-> {}]]
    BY <1>1, <1>3, StateOnly
  <1>5. /\ worker' \in [Workers -> [state : WorkerState, task : SUBSET Task]]
        /\ worker'[i].task = {}
        /\ \A j \in Workers : j # i => worker'[j] = worker[j]
        /\ ThreadsOK' /\ AtWork' = AtWork \ {i}
        /\ Sleeping' = Sleeping \ {i} /\ MayTake \subseteq MayTake'
    <2>1. /\ st \in WorkerState \ {"none"} /\ {} \in SUBSET Task
          /\ st \notin {"notifying", "running", "finished", "waiting"}
          /\ worker[i].state # "none" /\ Typed /\ ThreadsOK
          /\ UNCHANGED <<pool_size, workers>>
      BY <1>1, <1>2 DEF WorkerState
    <2>2. IF st \in {"notifying", "running"}
          THEN \E u \in Task : {} = {u} ELSE {} = {}
      BY <2>1
    <2>3. st = "waiting" => i < pool_size BY <2>1
    <2> HIDE DEF PInv
    <2>4. /\ worker' \in [Workers -> [state : WorkerState, task : SUBSET Task]]
          /\ worker'[i].task = {}
          /\ \A j \in Workers : j # i => worker'[j] = worker[j]
          /\ ThreadsOK'
      BY <1>4, <2>1, <2>2, <2>3, OneWorker
    <2>5. Sleeping' = IF st = "waiting" THEN Sleeping \union {i}
                      ELSE Sleeping \ {i}
      BY <1>4, <2>1, <2>2, <2>3, OneWorker
    <2>6. MayTake' = IF st = "ready" /\ i < pool_size
                     THEN MayTake \union {i} ELSE MayTake \ {i}
      BY <1>4, <2>1, <2>2, <2>3, OneWorker
    <2>7. AtWork' = IF st \in {"notifying", "running", "finished"}
                    THEN AtWork \union {i} ELSE AtWork \ {i}
      BY <1>4, <2>1, <2>2, <2>3, OneWorker
    <2> QED BY <1>3, <2>1, <2>4, <2>5, <2>6, <2>7
  <1>6. /\ Cardinality(AtWork) \in Nat /\ Cardinality(AtWork) # 0
        /\ Cardinality(AtWork \ {i}) = Cardinality(AtWork) - 1
    BY <1>3, WorkersFinite DEF AtWork
  <1>7. tasks \in Seq(Task) /\ Len(tasks) \in Nat BY DEF Typed
  <1>8. in_flight' \in Nat /\ in_flight' = Len(tasks') + Cardinality(AtWork')
    BY <1>1, <1>5, <1>6, <1>7 DEF Counted
  <1>9. Typed' BY <1>1, <1>5, <1>8 DEF Typed, Task
  <1>10. Stopping' BY <1>1 DEF Stopping
  <1>11. InOnePlace' BY <1>1, <1>3, <1>5, PlacesKept
  <1>12. Wakeups' BY <1>1, <1>5, <1>7, WakeupsKept
  <1> QED BY <1>5, <1>8, <1>9, <1>10, <1>11, <1>12 DEF Counted

\* Signalling that nothing is in flight leaves the worker ready.
LEMMA SignalInFlightPInv ==
  ASSUME PInv, NEW i \in Workers, SignalInFlight(i)
  PROVE  PInv'
  <1> USE DEF PInv
  <1>1. /\ worker[i].state = "signalling"
        /\ worker' = [worker EXCEPT ![i].state = "ready"]
        /\ UNCHANGED <<pool_size, workers, tasks, stop, in_flight, producer,
                       owner, run>>
    BY DEF SignalInFlight
  <1>2. worker[i].task = {} /\ i \notin AtWork /\ i \notin MayTake
    BY <1>1 DEF ThreadsOK, AtWork, Busy, MayTake
  <1>3. worker' = [worker EXCEPT ![i] = [state |-> "ready", task |-> {}]]
    BY <1>1, <1>2, StateOnly
  <1>4. /\ worker' \in [Workers -> [state : WorkerState, task : SUBSET Task]]
        /\ worker'[i].task = {}
        /\ \A j \in Workers : j # i => worker'[j] = worker[j]
        /\ ThreadsOK' /\ AtWork' = AtWork \ {i}
        /\ Sleeping' = Sleeping \ {i} /\ MayTake \subseteq MayTake'
    <2>1. /\ Typed /\ ThreadsOK /\ worker[i].state # "none"
          /\ "ready" \in WorkerState \ {"none"} /\ {} \in SUBSET Task
          /\ UNCHANGED <<pool_size, workers>>
      BY <1>1 DEF WorkerState
    <2>2. IF "ready" \in {"notifying", "running"}
          THEN \E u \in Task : {} = {u} ELSE {} = {}
      OBVIOUS
    <2>3. "ready" = "waiting" => i < pool_size OBVIOUS
    <2> HIDE DEF PInv
    <2>4. /\ worker' \in [Workers -> [state : WorkerState, task : SUBSET Task]]
          /\ worker'[i].task = {}
          /\ \A j \in Workers : j # i => worker'[j] = worker[j]
          /\ ThreadsOK'
      BY <1>3, <2>1, <2>2, <2>3, OneWorker
    <2>5. Sleeping' = Sleeping \ {i} BY <1>3, <2>1, <2>2, <2>3, OneWorker
    <2>6. MayTake' = IF "ready" = "ready" /\ i < pool_size
                     THEN MayTake \union {i} ELSE MayTake \ {i}
      BY <1>3, <2>1, <2>2, <2>3, OneWorker
    <2>7. AtWork' = AtWork \ {i} BY <1>3, <2>1, <2>2, <2>3, OneWorker
    <2> QED BY <1>2, <2>4, <2>5, <2>6, <2>7
  <1>5. Typed' BY <1>1, <1>4 DEF Typed, Task
  <1>6. Stopping' BY <1>1 DEF Stopping
  <1>7. InOnePlace' BY <1>1, <1>2, <1>4, PlacesKept
  <1>8. tasks \in Seq(Task) BY DEF Typed
  <1>9. Wakeups' BY <1>1, <1>4, <1>8, WakeupsKept
  <1>10. AtWork' = AtWork BY <1>2, <1>4
  <1>11. Counted' BY <1>1, <1>10 DEF Counted
  <1> QED BY <1>4, <1>5, <1>6, <1>7, <1>9, <1>11

-----------------------------------------------------------------------------
(* The steps that wake all workers, or none.                               *)

LEMMA AllWoken ==
  ASSUME NEW w \in [Workers -> [state : WorkerState, task : SUBSET Task]],
         NEW v, v = [j \in Workers |-> Woken(w[j])]
  PROVE  /\ v \in [Workers -> [state : WorkerState, task : SUBSET Task]]
         /\ \A j \in Workers :
              /\ v[j].task = w[j].task
              /\ v[j].state = IF w[j].state = "waiting" THEN "ready"
                              ELSE w[j].state
  <1> SUFFICES ASSUME NEW j \in Workers
               PROVE  /\ v[j] \in [state : WorkerState, task : SUBSET Task]
                      /\ v[j].task = w[j].task
                      /\ v[j].state = IF w[j].state = "waiting" THEN "ready"
                                      ELSE w[j].state
    OBVIOUS
  <1>1. w[j] \in [state : WorkerState, task : SUBSET Task] OBVIOUS
  <1>2. v[j] = [w[j] EXCEPT !.state = IF @ = "waiting" THEN "ready" ELSE @]
    BY DEF Woken
  <1> QED BY <1>1, <1>2 DEF WorkerState

\* What does not depend on who is awake, once nobody sleeps.
LEMMA NobodySleeps ==
  ASSUME InOnePlace, Counted,
         \A j \in Workers :
           /\ worker'[j].task = worker[j].task
           /\ worker'[j].state # "waiting"
           /\ worker'[j].state \in {"notifying", "running", "finished"}
                <=> worker[j].state \in {"notifying", "running", "finished"},
         UNCHANGED <<tasks, run, producer, in_flight>>
  PROVE  InOnePlace' /\ Wakeups' /\ Counted'
  <1>1. InOnePlace' BY PlacesKept
  <1>2. Sleeping' = {} BY DEF Sleeping, Workers
  <1>3. AtWork' = AtWork BY DEF AtWork, Busy, Workers
  <1> QED BY <1>1, <1>2, <1>3 DEF Wakeups, Counted

\* A worker that leaves is beyond the size, or leaves an empty queue behind.
LEMMA LeavePInv ==
  ASSUME PInv, NEW i \in Workers, Leave(i)
  PROVE  PInv'
  <1> DEFINE left == [worker EXCEPT ![i] = NoThread]
  <1>1. /\ Typed /\ ThreadsOK /\ Stopping /\ InOnePlace /\ Counted
        /\ worker[i].state = "ready" /\ i = workers - 1
        /\ (stop /\ tasks = <<>>) \/ (~stop /\ pool_size < i + 1)
        /\ workers' = workers - 1
        /\ worker' = [j \in Workers |-> Woken(left[j])]
        /\ owner' = IF owner = "waiting" THEN "destroying" ELSE owner
        /\ UNCHANGED <<pool_size, tasks, stop, in_flight, producer, run>>
    BY DEF PInv, Leave, MustLeave, NotifyConsumers
  <1>2. worker[i].task = {} BY <1>1 DEF ThreadsOK
  <1>3. /\ left \in [Workers -> [state : WorkerState, task : SUBSET Task]]
        /\ left[i].state = "none" /\ left[i].task = {}
        /\ \A j \in Workers : j # i => left[j] = worker[j]
    BY <1>1 DEF Typed, NoThread, WorkerState
  <1> HIDE DEF left
  <1>4. /\ worker' \in [Workers -> [state : WorkerState, task : SUBSET Task]]
        /\ \A j \in Workers :
             /\ worker'[j].task = left[j].task
             /\ worker'[j].state = IF left[j].state = "waiting" THEN "ready"
                                   ELSE left[j].state
    BY <1>1, <1>3, AllWoken
  <1>5. /\ worker'[i].state = "none" /\ worker'[i].task = {}
        /\ \A j \in Workers : j # i =>
             /\ worker'[j].task = worker[j].task
             /\ worker'[j].state = IF worker[j].state = "waiting" THEN "ready"
                                   ELSE worker[j].state
    BY <1>3, <1>4
  <1>6. /\ pool_size \in Nat /\ workers \in 0 .. MaxWorkers
        /\ MaxWorkers \in Nat /\ i \in Nat /\ i < MaxWorkers
        /\ stop => pool_size = 0
        /\ ~stop => pool_size > 0
    BY <1>1, ThreadPoolAssumption DEF Typed, Stopping, Workers
  <1>7. /\ workers' \in 0 .. MaxWorkers /\ pool_size <= workers'
        /\ workers' = 0 => stop
    BY <1>1, <1>6
  <1>8. Typed'
    <2>1. owner' \in {"using", "waiting", "destroying", "destroyed"}
      BY <1>1 DEF Typed
    <2> QED BY <1>1, <1>4, <1>7, <2>1 DEF Typed, Task, Workers
  <1>9. ThreadsOK'
    <2> SUFFICES ASSUME NEW j \in Workers
                 PROVE  /\ worker'[j].state # "none" <=> j < workers'
                        /\ worker'[j].state = "waiting" => j < pool_size
                        /\ IF worker'[j].state \in {"notifying", "running"}
                           THEN \E u \in Task : worker'[j].task = {u}
                           ELSE worker'[j].task = {}
      BY <1>1 DEF ThreadsOK, Task, Workers
    <2>1. CASE j = i BY <1>1, <1>5, <1>6, <2>1
    <2>2. CASE j # i
      <3>1. j < workers <=> j < workers' BY <1>1, <1>6, <2>2 DEF Workers
      <3>2. worker[j].state # "none" <=> worker'[j].state # "none"
        BY <1>5, <2>2
      <3>3. worker[j].state # "none" <=> j < workers BY <1>1 DEF ThreadsOK
      <3>4. worker'[j].state # "waiting" BY <1>5, <2>2
      <3>5. IF worker[j].state \in {"notifying", "running"}
            THEN \E u \in Task : worker[j].task = {u}
            ELSE worker[j].task = {}
        BY <1>1 DEF ThreadsOK
      <3>6. worker'[j].state \in {"notifying", "running"}
              <=> worker[j].state \in {"notifying", "running"}
        BY <1>5, <2>2
      <3>7. worker'[j].task = worker[j].task BY <1>5, <2>2
      <3> QED BY <3>1, <3>2, <3>3, <3>4, <3>5, <3>6, <3>7
    <2> QED BY <2>1, <2>2
  <1>10. Stopping'
    <2>1. workers # 0 BY <1>1, <1>6
    <2>2. owner' # "destroyed" BY <1>1, <2>1 DEF Stopping
    <2>3. owner' = "using" <=> owner = "using" BY <1>1
    <2> QED BY <1>1, <1>7, <2>2, <2>3 DEF Stopping
  <1>11. InOnePlace' /\ Wakeups' /\ Counted'
    <2>1. ASSUME NEW j \in Workers
          PROVE  /\ worker'[j].task = worker[j].task
                 /\ worker'[j].state # "waiting"
                 /\ worker'[j].state \in {"notifying", "running", "finished"}
                      <=> worker[j].state \in {"notifying", "running",
                                               "finished"}
      <3>1. CASE j = i BY <1>1, <1>2, <1>5, <3>1
      <3>2. CASE j # i BY <1>5, <3>2
      <3> QED BY <3>1, <3>2
    <2> QED BY <1>1, <2>1, NobodySleeps
  <1> QED BY <1>8, <1>9, <1>10, <1>11 DEF PInv

\* All wake while the pool gets a smaller size, or is stopped.
LEMMA WokenPInv ==
  ASSUME PInv, worker' = [j \in Workers |-> Woken(worker[j])],
         UNCHANGED <<workers, tasks, in_flight, producer, run>>,
         pool_size' \in Nat, pool_size' <= workers, stop' \in BOOLEAN,
         owner' \in {"using", "waiting", "destroying", "destroyed"},
         Stopping'
  PROVE  PInv'
  <1>1. /\ Typed /\ ThreadsOK /\ InOnePlace /\ Counted
        /\ worker \in [Workers -> [state : WorkerState, task : SUBSET Task]]
    BY DEF PInv, Typed
  <1>2. /\ worker' \in [Workers -> [state : WorkerState, task : SUBSET Task]]
        /\ \A j \in Workers :
             /\ worker'[j].task = worker[j].task
             /\ worker'[j].state = IF worker[j].state = "waiting" THEN "ready"
                                   ELSE worker[j].state
    BY <1>1, AllWoken
  <1>3. Typed' BY <1>1, <1>2 DEF Typed, Task, Workers
  <1>4. ThreadsOK' BY <1>1, <1>2 DEF ThreadsOK, Task, Workers
  <1>5. InOnePlace' /\ Wakeups' /\ Counted'
    <2>1. \A j \in Workers :
            /\ worker'[j].task = worker[j].task
            /\ worker'[j].state # "waiting"
            /\ worker'[j].state \in {"notifying", "running", "finished"}
                 <=> worker[j].state \in {"notifying", "running", "finished"}
      BY <1>2
    <2> QED BY <1>1, <2>1, NobodySleeps
  <1> QED BY <1>3, <1>4, <1>5 DEF PInv

\* A larger pool has more workers, all ready; a smaller one has them all look
\* whether they have to go.
LEMMA SetPoolSizePInv ==
  ASSUME PInv, NEW n \in 1 .. MaxWorkers, SetPoolSize(n)
  PROVE  PInv'
  <1>1. /\ Typed /\ ThreadsOK /\ Stopping /\ InOnePlace /\ Wakeups /\ Counted
        /\ owner = "using" /\ pool_size' = n
        /\ UNCHANGED <<tasks, stop, in_flight, producer, run>>
    BY DEF PInv, SetPoolSize
  <1>2. /\ MaxWorkers \in Nat /\ n \in Nat /\ n > 0 /\ n <= MaxWorkers
        /\ ~stop /\ pool_size \in Nat /\ workers \in Nat
        /\ workers <= MaxWorkers /\ pool_size <= workers /\ pool_size > 0
    BY <1>1, ThreadPoolAssumption DEF Stopping, Typed
  <1>3. CASE n < workers
    <2>1. /\ workers' = workers
          /\ worker' = [j \in Workers |-> Woken(worker[j])]
          /\ owner' = owner
      BY <1>1, <1>2, <1>3 DEF SetPoolSize, NotifyConsumers
    <2>2. Stopping' BY <1>1, <1>2, <2>1 DEF Stopping
    <2>3. /\ pool_size' \in Nat /\ pool_size' <= workers /\ stop' \in BOOLEAN
          /\ owner' \in {"using", "waiting", "destroying", "destroyed"}
      BY <1>1, <1>2, <1>3, <2>1 DEF Typed
    <2> QED BY <1>1, <2>1, <2>2, <2>3, WokenPInv
  <1>4. CASE n >= workers
    <2>1. /\ workers' = n /\ owner' = owner
          /\ \A j \in Workers :
               worker'[j] = IF j \in workers .. n - 1 THEN Started
                            ELSE worker[j]
          /\ worker' \in [Workers -> [state : WorkerState, task : SUBSET Task]]
      <3>1. CASE n > workers
        <4>1. /\ workers' = n /\ owner' = owner
              /\ worker' = [j \in Workers |->
                              IF j \in workers .. n - 1 THEN Started
                              ELSE worker[j]]
          BY <1>2, <3>1 DEF SetPoolSize
        <4>2. Started \in [state : WorkerState, task : SUBSET Task]
          BY DEF Started, WorkerState
        <4> QED BY <1>1, <4>1, <4>2 DEF Typed
      <3>2. CASE n = workers
        <4>1. /\ workers' = n /\ owner' = owner /\ worker' = worker
          BY <1>2, <3>2 DEF SetPoolSize
        <4>2. workers .. n - 1 = {} BY <1>2, <3>2
        <4> QED BY <1>1, <4>1, <4>2 DEF Typed
      <3> QED BY <1>2, <1>4, <3>1, <3>2
    <2>2. /\ Started.state = "ready" /\ Started.task = {} BY DEF Started
    <2>3. \A j \in Workers :
            /\ j \in workers .. n - 1 <=> (~(j < workers) /\ j < n)
            /\ j < workers => j < n
      BY <1>2, <1>4 DEF Workers
    <2>4. \A j \in Workers :
            j \in workers .. n - 1 =>
              worker[j].state = "none" /\ worker[j].task = {}
      BY <1>1, <2>3 DEF ThreadsOK
    <2>5. Typed'
      <3>1. workers' \in 0 .. MaxWorkers /\ pool_size' <= workers'
        BY <1>1, <1>2, <2>1
      <3> QED BY <1>1, <1>2, <2>1, <3>1 DEF Typed, Task, Workers
    <2>6. ThreadsOK'
      <3> SUFFICES ASSUME NEW j \in Workers
                   PROVE  /\ worker'[j].state # "none" <=> j < workers'
                          /\ worker'[j].state = "waiting" => j < pool_size'
                          /\ IF worker'[j].state \in {"notifying", "running"}
                             THEN \E u \in Task : worker'[j].task = {u}
                             ELSE worker'[j].task = {}
        BY DEF ThreadsOK, Task, Workers
      <3>1. CASE j \in workers .. n - 1
        <4>1. worker'[j].state = "ready" /\ worker'[j].task = {}
          BY <2>1, <2>2, <3>1
        <4>2. j < workers' BY <2>1, <2>3, <3>1
        <4> QED BY <4>1, <4>2
      <3>2. CASE j \notin workers .. n - 1
        <4>1. worker'[j] = worker[j] BY <2>1, <3>2
        <4>2. j < workers' <=> j < workers BY <2>1, <2>3, <3>2
        <4>3. worker[j].state = "waiting" => j < pool_size'
          <5>1. worker[j].state = "waiting" => j < workers
            BY <1>1 DEF ThreadsOK
          <5> QED BY <1>1, <2>3, <5>1
        <4> QED BY <1>1, <4>1, <4>2, <4>3 DEF ThreadsOK
      <3> QED BY <3>1, <3>2
    <2>7. Stopping' BY <1>1, <1>2, <2>1 DEF Stopping
    <2>8. InOnePlace'
      <3>1. \A j \in Workers : worker'[j].task = worker[j].task
        BY <2>1, <2>2, <2>4
      <3> QED BY <1>1, <3>1, PlacesKept
    <2>9. Wakeups'
      <3>1. Sleeping' \subseteq Sleeping
        BY <2>1, <2>2 DEF Sleeping, Workers
      <3>2. MayTake \subseteq MayTake'
        <4> SUFFICES ASSUME NEW j \in MayTake PROVE j \in MayTake' OBVIOUS
        <4>1. /\ j \in Workers /\ worker[j].state = "ready" /\ j < pool_size
          BY DEF MayTake
        <4>2. worker'[j] = worker[j] BY <2>1, <2>4, <4>1
        <4>3. j < pool_size' BY <1>1, <1>2, <1>4, <4>1 DEF Workers
        <4> QED BY <4>1, <4>2, <4>3 DEF MayTake, Workers
      <3>3. tasks \in Seq(Task) BY <1>1 DEF Typed
      <3> QED BY <1>1, <3>1, <3>2, <3>3, WakeupsKept
    <2>10. Counted'
      <3>1. AtWork' = AtWork
        <4>1. \A j \in Workers :
                worker'[j].state \in {"notifying", "running", "finished"}
                  <=> worker[j].state \in {"notifying", "running", "finished"}
          BY <2>1, <2>2, <2>4
        <4> QED BY <4>1 DEF AtWork, Busy, Workers
      <3> QED BY <1>1, <3>1 DEF Counted
    <2> QED BY <2>5, <2>6, <2>7, <2>8, <2>9, <2>10 DEF PInv
  <1> QED BY <1>2, <1>3, <1>4

\* The pool is stopped when nobody has anything to enqueue any more.
LEMMA StopPoolPInv ==
  ASSUME PInv, StopPool
  PROVE  PInv'
  <1>1. /\ owner = "using" /\ \A p \in Producer : producer[p].left = 0
        /\ stop' = TRUE /\ pool_size' = 0 /\ owner' = "destroying"
        /\ worker' = [j \in Workers |-> Woken(worker[j])]
        /\ UNCHANGED <<workers, tasks, in_flight, producer, run>>
    BY DEF StopPool
  <1>2. pool_size' \in Nat /\ pool_size' <= workers
    BY <1>1, ThreadPoolAssumption DEF PInv, Typed
  <1>3. Stopping' BY <1>1 DEF PInv, Stopping
  <1> QED BY <1>1, <1>2, <1>3, WokenPInv

\* The pool is gone once the last thread has left.
LEMMA JoinWorkersPInv ==
  ASSUME PInv, JoinWorkers
  PROVE  PInv'
  <1>1. /\ owner = "destroying"
        /\ owner' = IF workers = 0 THEN "destroyed" ELSE "waiting"
        /\ UNCHANGED <<pool_size, workers, tasks, stop, in_flight, worker,
                       producer, run>>
    BY DEF JoinWorkers
  <1>2. Typed' BY <1>1 DEF PInv, Typed, Task, Workers
  <1>3. ThreadsOK' BY <1>1 DEF PInv, ThreadsOK, Task, Workers
  <1>4. Stopping' BY <1>1 DEF PInv, Stopping
  <1>5. InOnePlace'
    <2>1. InOnePlace BY DEF PInv
    <2> QED BY <1>1, <2>1, PlacesKept
  <1>6. Wakeups' BY <1>1 DEF PInv, Wakeups, Sleeping, MayTake, Workers
  <1>7. Counted' BY <1>1 DEF PInv, Counted, AtWork, Busy, Workers
  <1> QED BY <1>2, <1>3, <1>4, <1>5, <1>6, <1>7 DEF PInv

-----------------------------------------------------------------------------
(* The theorem.                                                            *)

LEMMA NextPInv ==
  ASSUME PInv, [Next]_vars
  PROVE  PInv'
  <1>1. ASSUME NEW i \in Workers, WorkerStep(i) PROVE PInv'
    BY <1>1, SleepPInv, LeavePInv, TakePInv, NotifyProducersPInv,
       RunTaskPInv, DecrementPInv, SignalInFlightPInv DEF WorkerStep
  <1>2. ASSUME NEW p \in Producer, ProducerStep(p) PROVE PInv'
    BY <1>2, EnqueuePInv, ResumeEnqueuePInv DEF ProducerStep
  <1>3. ASSUME NEW w \in Waiters, WaitUntil(w) PROVE PInv'
    BY <1>3, WaitUntilPInv
  <1>4. ASSUME NEW n \in 1 .. MaxWorkers, SetPoolSize(n) PROVE PInv'
    BY <1>4, SetPoolSizePInv
  <1>5. ASSUME NEW n \in 1 .. InitialLimit, SetQueueSizeLimit(n) PROVE PInv'
    BY <1>5, SetQueueSizeLimitPInv
  <1>6. CASE UNCHANGED vars
    <2>1. UNCHANGED <<pool_size, workers, tasks, stop, in_flight, worker, run,
                      owner, producer>>
      BY <1>6 DEF vars
    <2> QED BY <2>1, SameWork DEF PInv, Typed
  <1> QED BY <1>1, <1>2, <1>3, <1>4, <1>5, <1>6, StopPoolPInv, JoinWorkersPInv
          DEF Next

\* How often a task is found where it is at most once.
LEMMA CountedOnce ==
  /\ \A t : Cardinality({t} \cap run) = IF t \in run THEN 1 ELSE 0
  /\ \A t : Distinct(tasks) /\ tasks \in Seq(Task) =>
       Cardinality({i \in DOMAIN tasks : tasks[i] = t})
         = IF t \in Elements(tasks) THEN 1 ELSE 0
  /\ \A t : (\A i, j \in Workers :
               i # j => worker[i].task \cap worker[j].task = {}) =>
       Cardinality({i \in Workers : t \in worker[i].task})
         = IF \E i \in Workers : t \in worker[i].task THEN 1 ELSE 0
  <1>1. ASSUME NEW t
        PROVE  Cardinality({t} \cap run) = IF t \in run THEN 1 ELSE 0
    <2>1. CASE t \in run
      <3>1. {t} \cap run = {t} BY <2>1
      <3> QED BY <2>1, <3>1, FS_Singleton
    <2>2. CASE t \notin run
      <3>1. {t} \cap run = {} BY <2>2
      <3> QED BY <2>2, <3>1, FS_EmptySet
    <2> QED BY <2>1, <2>2
  <1>2. ASSUME NEW t, Distinct(tasks), tasks \in Seq(Task)
        PROVE  Cardinality({i \in DOMAIN tasks : tasks[i] = t})
                 = IF t \in Elements(tasks) THEN 1 ELSE 0
    <2>1. DOMAIN tasks = 1 .. Len(tasks) BY <1>2
    <2>2. CASE t \in Elements(tasks)
      <3>1. PICK k \in 1 .. Len(tasks) : tasks[k] = t BY <2>2 DEF Elements
      <3>2. {i \in DOMAIN tasks : tasks[i] = t} = {k}
        BY <1>2, <2>1, <3>1 DEF Distinct
      <3> QED BY <2>2, <3>2, FS_Singleton
    <2>3. CASE t \notin Elements(tasks)
      <3>1. {i \in DOMAIN tasks : tasks[i] = t} = {}
        BY <2>1, <2>3 DEF Elements
      <3> QED BY <2>3, <3>1, FS_EmptySet
    <2> QED BY <2>2, <2>3
  <1>3. ASSUME NEW t,
               \A i, j \in Workers :
                 i # j => worker[i].task \cap worker[j].task = {}
        PROVE  Cardinality({i \in Workers : t \in worker[i].task})
                 = IF \E i \in Workers : t \in worker[i].task THEN 1 ELSE 0
    <2>1. CASE \E i \in Workers : t \in worker[i].task
      <3>1. PICK k \in Workers : t \in worker[k].task BY <2>1
      <3>2. {i \in Workers : t \in worker[i].task} = {k} BY <1>3, <3>1
      <3> QED BY <2>1, <3>2, FS_Singleton
    <2>2. CASE ~ \E i \in Workers : t \in worker[i].task
      <3>1. {i \in Workers : t \in worker[i].task} = {} BY <2>2
      <3> QED BY <2>2, <3>1, FS_EmptySet
    <2> QED BY <2>1, <2>2
  <1> QED BY <1>1, <1>2, <1>3

\* What the invariant says of the pool at rest and at its end.
LEMMA PInvKept == PInv => NoWakeupLost
  <1> SUFFICES ASSUME PInv PROVE NoWakeupLost OBVIOUS
  <1>1. /\ Typed /\ ThreadsOK /\ Stopping /\ InOnePlace /\ Wakeups /\ Counted
    BY DEF PInv
  <1>2. TypeOK
    <2>1. pool_size \in 0 .. MaxWorkers
      BY <1>1, ThreadPoolAssumption DEF Typed
    <2>2. Queued \subseteq Task BY <1>1 DEF Typed, Queued
    <2> QED BY <1>1, <2>1, <2>2 DEF TypeOK, Typed, ThreadsOK
  <1>3. NoLostWakeup BY <1>1 DEF Wakeups, NoLostWakeup, Sleeping, MayTake
  <1>4. TaskInOnePlace
    <2>1. ASSUME NEW t \in Enqueued
          PROVE  Cardinality({i \in DOMAIN tasks : tasks[i] = t})
                 + Cardinality({i \in Workers : t \in worker[i].task})
                 + Cardinality({t} \cap run) = 1
      <3>1. t \in Task BY DEF Enqueued
      <3>2. /\ Cardinality({t} \cap run) = IF t \in run THEN 1 ELSE 0
            /\ Cardinality({i \in DOMAIN tasks : tasks[i] = t})
                 = IF t \in Elements(tasks) THEN 1 ELSE 0
            /\ Cardinality({i \in Workers : t \in worker[i].task})
                 = IF \E i \in Workers : t \in worker[i].task THEN 1 ELSE 0
        BY <1>1, CountedOnce DEF InOnePlace, Typed
      <3>3. \/ t \in Elements(tasks) \cup run
            \/ \E i \in Workers : t \in worker[i].task
        BY <1>1, <3>1 DEF InOnePlace
      <3>4. /\ t \in Elements(tasks) => t \notin run
            /\ (\E i \in Workers : t \in worker[i].task)
                 => t \notin Elements(tasks) /\ t \notin run
        BY <1>1 DEF InOnePlace
      <3> QED BY <3>2, <3>3, <3>4
    <2> QED BY <1>1, <2>1 DEF TaskInOnePlace, Counted, AtWork
  <1>5. DestroyedEmpty
    <2> SUFFICES ASSUME owner = "destroyed" PROVE run = Task /\ in_flight = 0
      BY DEF DestroyedEmpty
    <2>1. /\ workers = 0 /\ tasks = <<>> /\ stop
          /\ \A p \in Producer : producer[p].left = 0
      BY <1>1 DEF Stopping
    <2>2. \A i \in Workers : worker[i].state = "none" /\ worker[i].task = {}
      BY <1>1, <2>1 DEF ThreadsOK, Workers
    <2>3. Elements(tasks) = {} BY <2>1 DEF Elements
    <2>4. \A t \in Task : t \in Enqueued
      <3> SUFFICES ASSUME NEW t \in Task PROVE t \in Enqueued OBVIOUS
      <3>1. /\ t[1] \in Producer /\ t[2] \in 1 .. TasksEach
            /\ TasksEach \in Nat
        BY ThreadPoolAssumption DEF Task
      <3> QED BY <2>1, <3>1 DEF Enqueued
    <2>5. \A t \in Task : t \in run BY <1>1, <2>2, <2>3, <2>4 DEF InOnePlace
    <2>6. AtWork = {} BY <2>2 DEF AtWork, Busy
    <2>7. in_flight = 0 BY <1>1, <2>1, <2>6, FS_EmptySet DEF Counted
    <2> QED BY <1>1, <2>5, <2>7 DEF Typed
  <1> QED BY <1>2, <1>3, <1>4, <1>5 DEF NoWakeupLost

\* No wake-up of a worker is lost, a task is queued once, in the hands of one
\* worker or executed, and the destructor leaves nothing behind, whatever
\* threads enqueue, resize, change the limit and wait (enqueue's notify_one,
\* thread_pool_worker and the destructor).
THEOREM Kept == Spec => []NoWakeupLost
  <1>1. PInv /\ [Next]_vars => PInv' BY NextPInv
  <1> QED BY <1>1, InitPInv, PInvKept, PTL DEF Spec

=============================================================================
