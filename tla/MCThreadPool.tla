---------------------------- MODULE MCThreadPool ----------------------------
(* The pool of threads, used by two threads that enqueue two tasks each    *)
(* and two that wait, while its size and the limit of its queue change.    *)
EXTENDS ThreadPool

\* A task that was enqueued is executed; enqueue and the waits return, and so
\* does the destructor of the pool.
EnqueuedRun == TasksRun /\ EveryoneReturns
=============================================================================
