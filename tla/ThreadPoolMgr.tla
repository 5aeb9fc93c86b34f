--------------------------- MODULE ThreadPoolMgr ---------------------------
(***************************************************************************)
(* How calls share the one pool of threads.  A call constructs a           *)
(* ThreadPoolMgr, enqueues a task for each bundle, waits for the futures   *)
(* in order, and destructs the manager; the first manager makes the pool   *)
(* and the last one destroys it.  A future hands on the exception of its   *)
(* task: the call then leaves without a look at the other futures.  The    *)
(* task of a bundle whose cache is stale is such a call itself: it waits,  *)
(* on a thread of the pool, for tasks in the same pool (regen_polyns; that *)
(* regen_plaintexts does so again adds nothing).                           *)
(*                                                                         *)
(* A frame is a call, <<c>>, or the task <<c, n>> of a stale bundle; the   *)
(* tasks of frame f are Append(f, n).  ThreadPool says what the pool does. *)
(***************************************************************************)
EXTENDS Integers, Sequences, FiniteSets

CONSTANTS
  Caller,               \* the threads that call
  Bundles,              \* the number of tasks of a call
  Stale,                \* the tasks that find the cache of their bundle stale
  Bins,                 \* the number of tasks that regenerate a cache
  HardwareConcurrency,  \* the number of threads the machine offers
  ThreadCounts,         \* what SetThreadCount is called with
  MaxChanges,           \* bound: how often
  MayFail               \* whether a task may throw

ThreadPoolMgrAssumption ==
  /\ {Bundles, Bins, HardwareConcurrency} \subseteq Nat \ {0}
  /\ Stale \subseteq Caller \X (1 .. Bundles)
  /\ ThreadCounts \subseteq Nat
  /\ MaxChanges \in Nat
  /\ MayFail \in BOOLEAN

VARIABLES
  ref_count_,
  thread_pool_,        \* whether there is a pool
  thread_count,        \* also phys_thread_count: they differ in tests only
  pool_size,
  queue,
  task,                \* the state of each task
  frame,               \* where each frame is, and the task or future it is at
  changes

mgrVars == <<ref_count_, thread_pool_, thread_count, pool_size, queue, task, frame, changes>>

Frame == {<<c>> : c \in Caller} \cup Stale
Width(f) == IF Len(f) = 1 THEN Bundles ELSE Bins
TasksOf(f) == {Append(f, n) : n \in 1 .. Width(f)}
Task == UNION {TasksOf(f) : f \in Frame}

Is(f, state) == frame[f].state = state
GoTo(f, state) == frame' = [frame EXCEPT ![f] = [state |-> state, at |-> 1]]

\* tp_mutex is held for a longer time only by the last manager.
MutexFree == \A f \in Frame : ~Is(f, "destroying")

MgrInit ==
  /\ ref_count_ = 0
  /\ thread_pool_ = FALSE
  /\ thread_count = HardwareConcurrency
  /\ pool_size = 0
  /\ queue = <<>>
  /\ task = [t \in Task |-> "none"]
  /\ frame = [f \in Frame |-> [state |-> IF Len(f) = 1 THEN "called" ELSE "none", at |-> 1]]
  /\ changes = 0

Construct(f) ==
  /\ Is(f, "called")
  /\ MutexFree
  /\ thread_pool_' = TRUE
  /\ pool_size' = IF ref_count_ = 0 THEN thread_count ELSE pool_size
  /\ ref_count_' = ref_count_ + 1
  /\ GoTo(f, "enqueueing")
  /\ UNCHANGED <<thread_count, queue, task, changes>>

\* After the last task the frame goes on to the first future.
NextAt(f, now, next) ==
  frame' = [frame EXCEPT ![f] = IF @.at < Width(f) THEN [state |-> now, at |-> @.at + 1]
                                                   ELSE [state |-> next, at |-> 1]]

EnqueueTask(f) ==
  LET t == Append(f, frame[f].at)
  IN  /\ Is(f, "enqueueing")
      /\ thread_pool_
      /\ queue' = Append(queue, t)
      /\ task' = [task EXCEPT ![t] = "queued"]
      /\ NextAt(f, "enqueueing", "waiting")
      /\ UNCHANGED <<ref_count_, thread_pool_, thread_count, pool_size, changes>>

\* f.get()
Get(f) ==
  LET t == Append(f, frame[f].at)
  IN  /\ Is(f, "waiting")
      /\ \/ task[t] = "returned" /\ NextAt(f, "waiting", "leaving")
         \/ task[t] = "threw" /\ GoTo(f, "unwinding")
      /\ UNCHANGED <<ref_count_, thread_pool_, thread_count, pool_size, queue, task, changes>>

Over(f) == IF Is(f, "leaving") THEN "returned" ELSE "threw"

\* Mutant: the manager that leaves last does not wait for the tasks.
DestructAtOnce(f) ==
  /\ frame[f].state \in {"leaving", "unwinding"}
  /\ MutexFree
  /\ ref_count_' = ref_count_ - 1
  /\ thread_pool_' = (ref_count_ > 1)
  /\ GoTo(f, Over(f))
  /\ UNCHANGED <<thread_count, pool_size, queue, task, changes>>

Destruct(f) ==
  /\ frame[f].state \in {"leaving", "unwinding"}
  /\ MutexFree
  /\ ref_count_' = ref_count_ - 1
  /\ IF ref_count_ > 1 THEN GoTo(f, Over(f))
     ELSE frame' = [frame EXCEPT ![f] = [state |-> "destroying", at |-> IF Is(f, "leaving") THEN 1 ELSE 2]]
  /\ UNCHANGED <<thread_pool_, thread_count, pool_size, queue, task, changes>>

Running == {t \in Task : task[t] = "running"}

\* The destructor of the pool returns when its workers have run all tasks.
DestroyPool(f) ==
  /\ Is(f, "destroying")
  /\ queue = <<>> /\ Running = {}
  /\ thread_pool_' = FALSE
  /\ GoTo(f, IF frame[f].at = 1 THEN "returned" ELSE "threw")
  /\ UNCHANGED <<ref_count_, thread_count, pool_size, queue, task, changes>>

\* A worker takes a task; the task of a stale bundle starts as a call.
StartTask ==
  LET t == Head(queue)
  IN  /\ queue # <<>>
      /\ Cardinality(Running) < pool_size
      /\ queue' = Tail(queue)
      /\ task' = [task EXCEPT ![t] = "running"]
      /\ IF t \in Stale THEN GoTo(t, "called") ELSE UNCHANGED frame
      /\ UNCHANGED <<ref_count_, thread_pool_, thread_count, pool_size, changes>>

EndTask(t) ==
  /\ task[t] = "running"
  /\ \E end \in {"returned", "threw"} :
       /\ IF t \in Stale THEN Is(t, end) ELSE end = "returned" \/ MayFail
       /\ task' = [task EXCEPT ![t] = end]
  /\ UNCHANGED <<ref_count_, thread_pool_, thread_count, pool_size, queue, frame, changes>>

SetThreadCount(threads) ==
  /\ changes < MaxChanges
  /\ MutexFree
  /\ changes' = changes + 1
  /\ thread_count' = IF threads # 0 THEN threads ELSE HardwareConcurrency
  /\ pool_size' = IF thread_pool_ THEN thread_count' ELSE pool_size
  /\ UNCHANGED <<ref_count_, thread_pool_, queue, task, frame>>

FrameStep(f) == Construct(f) \/ EnqueueTask(f) \/ Get(f) \/ Destruct(f) \/ DestroyPool(f)

MgrNext ==
  \/ \E f \in Frame : FrameStep(f)
  \/ StartTask
  \/ \E t \in Task : EndTask(t)
  \/ \E n \in ThreadCounts : SetThreadCount(n)

\* Threads and workers go on when they can; mutexes are free after a while.
MgrFairness ==
  /\ \A f \in Frame : WF_mgrVars(FrameStep(f))
  /\ WF_mgrVars(StartTask)
  /\ \A t \in Task : WF_mgrVars(EndTask(t))

MgrSpec == MgrInit /\ [][MgrNext]_mgrVars /\ MgrFairness

-----------------------------------------------------------------------------
(* Properties.                                                             *)

Live(f) == frame[f].state \in {"enqueueing", "waiting", "leaving", "unwinding"}

MgrTypeOK ==
  /\ ref_count_ = Cardinality({f \in Frame : Live(f)})
  /\ pool_size \in Nat /\ thread_count \in Nat
  /\ {queue[i] : i \in 1 .. Len(queue)} = {t \in Task : task[t] = "queued"}

\* thread_pool() never throws: there is a pool as long as anybody may use it,
\* and as long as there are tasks, those of calls that failed included.
PoolIsThere ==
  /\ ref_count_ > 0 => thread_pool_
  /\ queue # <<>> \/ Running # {} => thread_pool_

\* The pool is destroyed by one thread only, and not made anew meanwhile.
DestroyedAlone ==
  \A f \in Frame : Is(f, "destroying") => ref_count_ = 0

\* A call that returns without an exception has seen all its tasks return.
NoFailureLost ==
  \A f \in Frame : frame[f].state \in {"leaving", "returned"}
    => \A t \in TasksOf(f) : task[t] = "returned"

(***************************************************************************)
(* There is a pool as long as there is a manager or a task, it is          *)
(* destroyed when there is none, and a call with a task that failed        *)
(* throws, whoever calls, fails, nests and changes the number of threads.  *)
(***************************************************************************)
PoolOutlivesTasks == MgrTypeOK /\ PoolIsThere /\ DestroyedAlone /\ NoFailureLost

\* Every call returns or throws.
CallsEnd == \A c \in Caller : <>(frame[<<c>>].state \in {"returned", "threw"})

\* strip returns a copy of the key also when the bundles are stale.
StripReturns == CallsEnd

\* While a task is queued or runs, the frame with the variables it captured by
\* reference is there.
CapturesAlive ==
  \A f \in Frame : \A t \in TasksOf(f) :
    task[t] \in {"queued", "running"} => frame[f].state \in {"enqueueing", "waiting"}

=============================================================================
