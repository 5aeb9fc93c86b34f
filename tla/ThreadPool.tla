----------------------------- MODULE ThreadPool -----------------------------
(***************************************************************************)
(* The pool of threads that runs the tasks of all computations.  Threads   *)
(* enqueue tasks, resize the pool and change the limit of the queue, wait  *)
(* until the queue is empty or nothing is in flight, and at last one of    *)
(* them destroys the pool.                                                 *)
(*                                                                         *)
(* What is done under queue_mutex is one step.  A condition variable is    *)
(* the set of those that wait for it: a notification makes them look       *)
(* again; nobody wakes without one (spurious wake-ups would only help).  A *)
(* worker that has to go but is not the last of the vector looks again and *)
(* again, which changes nothing.                                           *)
(***************************************************************************)
EXTENDS Integers, Sequences, FiniteSets

CONSTANTS
  Producer,      \* the threads that enqueue
  TasksEach,     \* bound: how many tasks each of them has
  MaxWorkers,    \* bound: the largest size asked for
  InitialSize,   \* the size the pool is made with
  InitialLimit,  \* max_queue_size, 100000 in the code
  MaxChanges     \* bound: how often size or limit are changed

ASSUME ThreadPoolAssumption ==
  /\ {TasksEach, InitialLimit, MaxWorkers} \subseteq Nat \ {0}
  /\ InitialSize \in 1 .. MaxWorkers
  /\ MaxChanges \in Nat

VARIABLES
  pool_size,
  workers,          \* the length of the vector of threads
  tasks,
  max_queue_size,
  stop,
  in_flight,
  worker,           \* what each worker is doing: state and task
  producer,         \* what each producer is doing, and what it has still to enqueue
  waiter,           \* the threads in wait_until_empty and wait_until_nothing_in_flight
  owner,            \* the thread that will destroy the pool
  changes,
  run               \* the tasks that have been executed

vars == <<pool_size, workers, tasks, max_queue_size, stop, in_flight,
          worker, producer, waiter, owner, changes, run>>

Workers == 0 .. MaxWorkers - 1
Waiters == {"empty", "in_flight"}
Task == Producer \X (1 .. TasksEach)

NoThread == [state |-> "none", task |-> {}]
Started == [state |-> "ready", task |-> {}]

Init ==
  /\ pool_size = InitialSize
  /\ workers = InitialSize
  /\ tasks = <<>>
  /\ max_queue_size = InitialLimit
  /\ stop = FALSE
  /\ in_flight = 0
  /\ worker = [i \in Workers |-> IF i < InitialSize THEN Started ELSE NoThread]
  /\ producer = [p \in Producer |-> [state |-> "ready", left |-> TasksEach]]
  /\ waiter = [w \in Waiters |-> "ready"]
  /\ owner = "using"
  /\ changes = 0
  /\ run = {}

(***************************************************************************)
(* Notifications.                                                          *)
(***************************************************************************)
Woken(thread) == [thread EXCEPT !.state = IF @ = "waiting" THEN "ready" ELSE @]

NotifyConsumers(threads) ==
  /\ worker' = [i \in Workers |-> Woken(threads[i])]
  /\ owner' = IF owner = "waiting" THEN "destroying" ELSE owner

\* Mutant: a consumer is told only of the first task of an empty queue.
NotifyOneWhenEmpty ==
  LET waiting == {i \in Workers : worker[i].state = "waiting"}
  IN  IF waiting = {} \/ tasks # <<>> THEN UNCHANGED worker
      ELSE \E i \in waiting : worker' = [worker EXCEPT ![i] = Woken(@)]

NotifyOneConsumer ==
  LET waiting == {i \in Workers : worker[i].state = "waiting"}
  IN  IF waiting = {} THEN UNCHANGED worker
      ELSE \E i \in waiting : worker' = [worker EXCEPT ![i] = Woken(@)]

\* Those who wait for room wake in the middle of enqueue.
WokenProducer(p) == [producer[p] EXCEPT !.state = IF @ = "waiting" THEN "woken" ELSE @]
WokenWaiter == [waiter EXCEPT !["empty"] = IF @ = "waiting" THEN "ready" ELSE @]

(***************************************************************************)
(* enqueue.  When the queue has reached its limit, the limit is doubled;   *)
(* only a limit that was lowered before makes the thread wait.             *)
(***************************************************************************)
NextTask(p) == <<p, TasksEach - producer[p].left + 1>>

Push(p, others) ==
  /\ tasks' = Append(tasks, NextTask(p))
  /\ in_flight' = in_flight + 1
  /\ producer' = [others EXCEPT ![p] = [state |-> "ready", left |-> producer[p].left - 1]]
  /\ NotifyOneConsumer

Enqueue(p) ==
  LET full == Len(tasks) >= max_queue_size
      limit == IF full THEN 2 * max_queue_size ELSE max_queue_size
      others == IF full THEN [q \in Producer |-> WokenProducer(q)] ELSE producer
  IN  /\ producer[p].state = "ready" /\ producer[p].left > 0
      /\ ~stop
      /\ max_queue_size' = limit
      /\ waiter' = IF full THEN WokenWaiter ELSE waiter
      /\ IF Len(tasks) < limit THEN Push(p, others)
         ELSE /\ producer' = [others EXCEPT ![p].state = "waiting"]
              /\ UNCHANGED <<tasks, in_flight, worker>>
      /\ UNCHANGED <<pool_size, workers, stop, owner, changes, run>>

ResumeEnqueue(p) ==
  /\ producer[p].state = "woken"
  /\ ~stop
  /\ IF Len(tasks) < max_queue_size THEN Push(p, producer)
     ELSE /\ producer' = [producer EXCEPT ![p].state = "waiting"]
          /\ UNCHANGED <<tasks, in_flight, worker>>
  /\ UNCHANGED <<pool_size, workers, max_queue_size, stop, waiter, owner, changes, run>>

(***************************************************************************)
(* A worker.                                                               *)
(***************************************************************************)

MustLeave(i) == (stop /\ tasks = <<>>) \/ (~stop /\ pool_size < i + 1)

\* Mutant: a worker waits without a look at the queue.
SleepFirst(i) ==
  /\ worker[i].state = "ready"
  /\ ~stop /\ pool_size >= i + 1
  /\ worker' = [worker EXCEPT ![i].state = "waiting"]
  /\ UNCHANGED <<pool_size, workers, tasks, max_queue_size, stop, in_flight, producer, waiter, owner, changes, run>>

Sleep(i) ==
  /\ worker[i].state = "ready"
  /\ ~stop /\ tasks = <<>> /\ pool_size >= i + 1
  /\ worker' = [worker EXCEPT ![i].state = "waiting"]
  /\ UNCHANGED <<pool_size, workers, tasks, max_queue_size, stop, in_flight, producer, waiter, owner, changes, run>>

Leave(i) ==
  /\ worker[i].state = "ready"
  /\ MustLeave(i)
  /\ i = workers - 1
  /\ workers' = workers - 1
  /\ NotifyConsumers([worker EXCEPT ![i] = NoThread])
  /\ UNCHANGED <<pool_size, tasks, max_queue_size, stop, in_flight, producer, waiter, changes, run>>

\* Whether taking a task makes room, or leaves the queue empty.
MakesRoom == Len(tasks) = max_queue_size \/ Len(tasks) = 1

Take(i) ==
  /\ worker[i].state = "ready"
  /\ ~MustLeave(i)
  /\ tasks # <<>>
  /\ tasks' = Tail(tasks)
  /\ worker' = [worker EXCEPT ![i] = [state |-> IF MakesRoom THEN "notifying" ELSE "running",
                                      task |-> {Head(tasks)}]]
  /\ UNCHANGED <<pool_size, workers, max_queue_size, stop, in_flight, producer, waiter, owner, changes, run>>

NotifyProducers(i) ==
  /\ worker[i].state = "notifying"
  /\ worker' = [worker EXCEPT ![i].state = "running"]
  /\ producer' = [p \in Producer |-> WokenProducer(p)]
  /\ waiter' = WokenWaiter
  /\ UNCHANGED <<pool_size, workers, tasks, max_queue_size, stop, in_flight, owner, changes, run>>

RunTask(i) ==
  /\ worker[i].state = "running"
  /\ run' = run \cup worker[i].task
  /\ worker' = [worker EXCEPT ![i] = [state |-> "finished", task |-> {}]]
  /\ UNCHANGED <<pool_size, workers, tasks, max_queue_size, stop, in_flight, producer, waiter, owner, changes>>

\* handle_in_flight_decrement: the count goes down without the lock, the last
\* one then takes it to notify.
Decrement(i) ==
  /\ worker[i].state = "finished"
  /\ in_flight' = in_flight - 1
  /\ worker' = [worker EXCEPT ![i].state = IF in_flight = 1 THEN "signalling" ELSE "ready"]
  /\ UNCHANGED <<pool_size, workers, tasks, max_queue_size, stop, producer, waiter, owner, changes, run>>

SignalInFlight(i) ==
  /\ worker[i].state = "signalling"
  /\ worker' = [worker EXCEPT ![i].state = "ready"]
  /\ waiter' = [waiter EXCEPT !["in_flight"] = IF @ = "waiting" THEN "ready" ELSE @]
  /\ UNCHANGED <<pool_size, workers, tasks, max_queue_size, stop, in_flight, producer, owner, changes, run>>

(***************************************************************************)
(* The other operations.                                                   *)
(***************************************************************************)
WaitUntil(w) ==
  /\ waiter[w] = "ready"
  /\ ~stop
  /\ LET over == IF w = "empty" THEN tasks = <<>> ELSE in_flight = 0
     IN  waiter' = [waiter EXCEPT ![w] = IF over THEN "returned" ELSE "waiting"]
  /\ UNCHANGED <<pool_size, workers, tasks, max_queue_size, stop, in_flight, worker, producer, owner, changes, run>>

SetPoolSize(limit) ==
  /\ owner = "using"
  /\ changes < MaxChanges
  /\ changes' = changes + 1
  /\ pool_size' = limit
  /\ IF limit > workers
     THEN /\ workers' = limit
          /\ worker' = [i \in Workers |-> IF i \in workers .. limit - 1 THEN Started ELSE worker[i]]
          /\ UNCHANGED owner
     ELSE /\ UNCHANGED workers
          /\ IF limit < workers THEN NotifyConsumers(worker) ELSE UNCHANGED <<worker, owner>>
  /\ UNCHANGED <<tasks, max_queue_size, stop, in_flight, producer, waiter, run>>

SetQueueSizeLimit(limit) ==
  /\ owner = "using"
  /\ changes < MaxChanges
  /\ changes' = changes + 1
  /\ max_queue_size' = limit
  /\ IF max_queue_size < limit
     THEN producer' = [p \in Producer |-> WokenProducer(p)] /\ waiter' = WokenWaiter
     ELSE UNCHANGED <<producer, waiter>>
  /\ UNCHANGED <<pool_size, workers, tasks, stop, in_flight, worker, owner, run>>

\* The destructor.  Nobody else uses the pool any more, but tasks may be left.
StopPool ==
  /\ owner = "using"
  /\ \A p \in Producer : producer[p].left = 0
  /\ \A w \in Waiters : waiter[w] = "returned"
  /\ stop' = TRUE
  /\ pool_size' = 0
  /\ worker' = [i \in Workers |-> Woken(worker[i])]
  /\ owner' = "destroying"
  /\ UNCHANGED <<workers, tasks, max_queue_size, in_flight, producer, waiter, changes, run>>

JoinWorkers ==
  /\ owner = "destroying"
  /\ owner' = IF workers = 0 THEN "destroyed" ELSE "waiting"
  /\ UNCHANGED <<pool_size, workers, tasks, max_queue_size, stop, in_flight, worker, producer, waiter, changes, run>>

WorkerStep(i) ==
  Sleep(i) \/ Leave(i) \/ Take(i) \/ NotifyProducers(i) \/ RunTask(i) \/ Decrement(i) \/ SignalInFlight(i)
ProducerStep(p) == Enqueue(p) \/ ResumeEnqueue(p)

Next ==
  \/ \E i \in Workers : WorkerStep(i)
  \/ \E p \in Producer : ProducerStep(p)
  \/ \E w \in Waiters : WaitUntil(w)
  \/ \E n \in 1 .. MaxWorkers : SetPoolSize(n)
  \/ \E n \in 1 .. InitialLimit : SetQueueSizeLimit(n)
  \/ StopPool \/ JoinWorkers

\* Every thread goes on when it can; the pool is destroyed at last.
Fairness ==
  /\ \A i \in Workers : WF_vars(WorkerStep(i))
  /\ \A p \in Producer : WF_vars(ProducerStep(p))
  /\ \A w \in Waiters : WF_vars(WaitUntil(w))
  /\ WF_vars(StopPool) /\ WF_vars(JoinWorkers)

Spec == Init /\ [][Next]_vars /\ Fairness

(***************************************************************************)
(* Properties.                                                             *)
(***************************************************************************)
Busy(i) == worker[i].state \in {"notifying", "running", "finished"}

Enqueued == {t \in Task : t[2] <= TasksEach - producer[t[1]].left}
Queued == {tasks[i] : i \in DOMAIN tasks}

TypeOK ==
  /\ pool_size \in 0 .. MaxWorkers
  /\ workers \in 0 .. MaxWorkers
  /\ Queued \subseteq Task /\ run \subseteq Task
  /\ in_flight \in Nat
  /\ \A i \in Workers : worker[i].state # "none" <=> i < workers

\* Every task that was enqueued is in one place: queued, with one worker, or
\* executed; in_flight counts those that are not over.
TaskInOnePlace ==
  /\ \A t \in Enqueued :
       Cardinality({i \in DOMAIN tasks : tasks[i] = t}) + Cardinality({i \in Workers : t \in worker[i].task})
       + Cardinality({t} \cap run) = 1
  /\ in_flight = Len(tasks) + Cardinality({i \in Workers : Busy(i)})

\* assert(in_flight == 0) in the destructor: the pool is gone when all is done.
DestroyedEmpty == owner = "destroyed" => run = Task /\ in_flight = 0

\* No wake-up is lost: while a worker sleeps, as many workers that may take a
\* task are up as tasks are queued (one notify_one in enqueue for each task).
NoLostWakeup ==
  (\E i \in Workers : worker[i].state = "waiting")
    => Len(tasks) <= Cardinality({i \in Workers : worker[i].state = "ready" /\ i < pool_size})

\* No wake-up of a worker is lost; a task is in one place, and the pool is
\* destroyed with none of them left.
NoWakeupLost == TypeOK /\ NoLostWakeup /\ TaskInOnePlace /\ DestroyedEmpty

\* A task that was enqueued is executed.
TasksRun == \A t \in Task : t \in Enqueued ~> t \in run

\* enqueue and the waits return; the destructor does, too.
EveryoneReturns == <>(owner = "destroyed")

=============================================================================
