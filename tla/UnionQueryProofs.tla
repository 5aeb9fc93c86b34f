-------------------------- MODULE UnionQueryProofs --------------------------
(***************************************************************************)
(* What the two parties get out of a query, for every table, database,     *)
(* query and number of threads:                                            *)
(*                                                                         *)
(*   - Balanced, NothingLeft: the result parts are all accounted for;      *)
(*   - Written: the workers fill in the matrix, each place once;           *)
(*   - Sound: a match is a common item;                                    *)
(*   - Exact: with even caches there is one match for each common item;    *)
(*   - Refines: with one cache per bundle index the exchange implements    *)
(*     UnionSpec.                                                          *)
(*                                                                         *)
(* First the parts are counted.  Neither PackagesBalance nor AllReceived   *)
(* is inductive.  PackagesBalance begins with the response, so the         *)
(* invariant IInv says already of the response on its way that it          *)
(* announces the right number; it goes on with the compare-and-exchange,   *)
(* which may decrement only a count that is not zero; and it ends with the *)
(* last worker, which has seen a count of zero.                            *)
(*                                                                         *)
(* Then they are followed.  The invariant CInv says of every cell of the   *)
(* database whether its part is pending (a task, in the channel, or in a   *)
(* worker's hands, and in one of these only) or copied, and that its       *)
(* places in the matrix hold zero blocks before and the right blocks       *)
(* afterwards.  The count is needed to know that nothing is pending when   *)
(* the workers are done.  Tested goes on from there: it keeps, as an       *)
(* existential, the shuffles the sender made.                              *)
(***************************************************************************)
EXTENDS UnionQuery, FiniteSetTheorems, WellFoundedInduction, TLAPS

\* What the type invariant says of the state that counts the parts.
CountsOK ==
  /\ rpc \in {"idle", "fanout", "peqt", "done", "crashed"}
  /\ spc \in {"start", "await", "collect", "peqt", "shuffle", "done",
              "failed", "crashed"}
  /\ tasks \subseteq Cells
  /\ \E S : to_sender \in Seq(S)
  /\ package_count \in Nat
  /\ wpc \in [Worker -> {"off", "load", "claim", "receive", "copy",
                         "returned"}]
  /\ curr_package_count \in [Worker -> Nat]

Idle(w) == wpc[w] \in {"off", "returned"}

\* How far one party may be, given where the other is.
Stages ==
  /\ spc \in {"start", "failed"} => rpc = "idle"
  /\ rpc = "idle" => /\ spc \in {"start", "await", "failed"}
                     /\ to_sender = <<>>
                     /\ tasks = {}
  /\ spc # "collect" => \A w \in Worker : Idle(w)

\* The response, until it is received, announces all parts to come.
Announced ==
  spc = "await" /\ rpc # "idle" =>
    /\ to_sender # <<>>
    /\ Head(to_sender).package_count \in Nat
    /\ Head(to_sender).package_count + 1
         = Cardinality(tasks) + Len(to_sender)

\* Parts are claimed only as long as there are some, and workers return only
\* when there are none.
Claims ==
  spc = "collect" =>
    /\ \A w \in Worker : wpc[w] = "claim" => curr_package_count[w] # 0
    /\ (\E w \in Worker : wpc[w] = "returned") => package_count = 0
    /\ (\A w \in Worker : wpc[w] = "off") => package_count = 0

IInv ==
  /\ CountsOK
  /\ Stages
  /\ Announced
  /\ PackagesBalance
  /\ Claims
  /\ AllReceived

-----------------------------------------------------------------------------

\* The sets that are counted are finite.
LEMMA CellsFinite == IsFiniteSet(Cells)
  <1>1. IsFiniteSet(0..(MaxCaches - 1)) /\ IsFiniteSet(BundleIdx)
    BY FS_Interval, UnionQueryAssumption DEF BundleIdx
  <1>2. IsFiniteSet((0..(MaxCaches - 1)) \X BundleIdx)
    BY <1>1, FS_Product
  <1> QED BY <1>2, FS_Subset DEF Cells

\* A part sent is one task less.
LEMMA TasksFinite ==
  ASSUME NEW T, T \subseteq Cells
  PROVE  /\ IsFiniteSet(T)
         /\ Cardinality(T) \in Nat
         /\ T = {} <=> Cardinality(T) = 0
         /\ \A t \in T : Cardinality(T \ {t}) = Cardinality(T) - 1
  <1>1. IsFiniteSet(T) BY CellsFinite, FS_Subset
  <1> QED BY <1>1, FS_CardinalityType, FS_EmptySet, FS_RemoveElement

\* A worker that starts or stops waiting changes the count by one.
LEMMA WorkersFinite ==
  ASSUME NEW W, W \subseteq Worker
  PROVE  /\ IsFiniteSet(W)
         /\ Cardinality(W) \in Nat
         /\ W = {} <=> Cardinality(W) = 0
         /\ \A w \in W : Cardinality(W \ {w}) = Cardinality(W) - 1
         /\ \A w : w \notin W => Cardinality(W \union {w}) = Cardinality(W) + 1
  <1>1. IsFiniteSet(Worker) BY FS_Interval, UnionQueryAssumption DEF Worker
  <1>2. IsFiniteSet(W) BY <1>1, FS_Subset
  <1> QED BY <1>2, FS_CardinalityType, FS_EmptySet, FS_RemoveElement,
             FS_AddElement

\* The channel is a sequence of whatever was put into it.
LEMMA AppendMessage ==
  ASSUME NEW S, NEW s \in Seq(S), NEW m
  PROVE  /\ \E T : Append(s, m) \in Seq(T)
         /\ Append(s, m) # <<>>
         /\ Len(Append(s, m)) = Len(s) + 1
         /\ s # <<>> => Head(Append(s, m)) = Head(s)
  <1>1. s \in Seq(S \union {m}) /\ m \in S \union {m} OBVIOUS
  <1>2. Append(s, m) \in Seq(S \union {m}) BY <1>1
  <1> QED BY <1>1, <1>2

\* Receiving shortens the channel by one message.
LEMMA ReceiveMessage ==
  ASSUME NEW S, NEW s \in Seq(S), s # <<>>
  PROVE  /\ Tail(s) \in Seq(S)
         /\ Len(s) \in Nat
         /\ Len(Tail(s)) = Len(s) - 1
  OBVIOUS

\* A part received leaves the worker's hands and the channel.
LEMMA OneLess ==
  \A n, r, t, k \in Nat : n + r = t + k => n + (r - 1) = t + (k - 1)
  OBVIOUS

\* The channel is empty, and nothing is to come.
LEMMA InitIInv == Init => IInv
  <1> SUFFICES ASSUME Init PROVE IInv OBVIOUS
  <1> USE DEF Init
  <1>1. CountsOK
    <2>1. to_sender \in Seq({}) OBVIOUS
    <2> QED BY <2>1 DEF CountsOK
  <1>2. Stages BY DEF Stages, Idle
  <1> QED BY <1>1, <1>2 DEF IInv, Announced, PackagesBalance, Claims,
                            AllReceived, Collected

-----------------------------------------------------------------------------
(* The steps of the receiver.                                              *)

\* The response is sent and all tasks are enqueued.
LEMMA RunQueryIInv == IInv /\ RunQuery => IInv'
  <1> SUFFICES ASSUME IInv, RunQuery PROVE IInv' OBVIOUS
  <1> USE DEF IInv, CountsOK, Stages
  <1> DEFINE response == [type |-> "response",
                          package_count |-> PartCount,
                          alpha_max_cache_count |-> Alpha]
  <1>1. /\ to_sender = <<>> /\ spc = "await" /\ spc' = spc
        /\ to_sender' = <<response>> /\ tasks' = Cells /\ Cells' = Cells
        /\ rpc' = "fanout"
        /\ UNCHANGED <<package_count, wpc, curr_package_count>>
    BY DEF RunQuery, senderVars, workerVars, Cells, Present, CacheCnt
  <1>2. to_sender' \in Seq({response}) BY <1>1
  <1>3. CountsOK' BY <1>1, <1>2
  <1>4. Stages' BY <1>1 DEF Idle
  <1>5. Announced'
    <2>1. /\ Head(to_sender').package_count = Cardinality(Cells)
          /\ Len(to_sender') = 1
      BY <1>1 DEF PartCount
    <2>2. Cardinality(Cells) \in Nat BY TasksFinite
    <2> QED BY <1>1, <2>1, <2>2 DEF Announced
  <1> QED BY <1>1, <1>3, <1>4, <1>5
          DEF PackagesBalance, Claims, AllReceived, Collected

\* A part goes from the tasks to the channel, or the process dies.
LEMMA ProcessIInv ==
  ASSUME IInv, NEW cell \in tasks,
         ProcessBinBundleCache(cell) \/ ProcessOutOfRange(cell)
  PROVE  IInv'
  <1> USE DEF IInv, CountsOK, Stages
  <1>1. /\ rpc = "fanout" /\ Cells' = Cells
        /\ UNCHANGED <<spc, package_count, wpc, curr_package_count>>
    BY DEF ProcessBinBundleCache, ProcessOutOfRange, senderVars, workerVars,
           Cells, Present, CacheCnt
  <1>2. CASE rpc' = "crashed" /\ UNCHANGED <<to_sender, tasks>>
    BY <1>1, <1>2 DEF Announced, PackagesBalance, Claims, AllReceived,
                      Collected, Idle
  <1>3. CASE /\ rpc' = rpc /\ tasks' = tasks \ {cell}
             /\ \E m : to_sender' = Append(to_sender, m)
    <2>1. PICK S : to_sender \in Seq(S) OBVIOUS
    <2>2. PICK m : to_sender' = Append(to_sender, m) BY <1>3
    <2>3. /\ \E T : to_sender' \in Seq(T)
          /\ to_sender' # <<>>
          /\ Len(to_sender') = Len(to_sender) + 1
          /\ to_sender # <<>> => Head(to_sender') = Head(to_sender)
      BY <2>1, <2>2, AppendMessage
    <2>4. /\ Cardinality(tasks) \in Nat
          /\ Cardinality(tasks') = Cardinality(tasks) - 1
          /\ Len(to_sender) \in Nat
      BY <1>3, <2>1, TasksFinite
    <2>5. CountsOK' BY <1>1, <1>3, <2>3
    <2>6. Stages' BY <1>1, <1>3 DEF Idle
    <2>7. Announced' BY <1>1, <1>3, <2>3, <2>4 DEF Announced
    <2>8. PackagesBalance'
      <3>1. CASE spc = "collect"
        <4>1. Cardinality({w \in Worker : wpc[w] = "receive"}) \in Nat
          BY WorkersFinite
        <4> QED BY <1>1, <2>3, <2>4, <3>1, <4>1 DEF PackagesBalance
      <3> QED BY <1>1, <3>1 DEF PackagesBalance
    <2> QED BY <1>1, <1>3, <2>5, <2>6, <2>7, <2>8
            DEF Claims, AllReceived, Collected
  <1> QED BY <1>2, <1>3 DEF ProcessBinBundleCache, ProcessOutOfRange

\* The last f.get() returns: nothing is sent any more.
LEMMA TasksDoneIInv == IInv /\ TasksDone => IInv'
  BY DEF IInv, TasksDone, CountsOK, Stages, Idle, Announced, PackagesBalance,
         Claims, AllReceived, Collected, senderVars, workerVars, Cells,
         Present, CacheCnt

-----------------------------------------------------------------------------
(* The steps of the sender.                                                *)

\* The query is made, or fails, before anything is announced.
LEMMA CreateQueryIInv == IInv /\ (CreateQuery \/ CuckooFails) => IInv'
  BY DEF IInv, CreateQuery, CuckooFails, CountsOK, Stages, Idle, Announced,
         PackagesBalance, Claims, AllReceived, Collected, receiverVars,
         workerVars, Cells, Present, CacheCnt

\* The count becomes what the response announced.
LEMMA LaunchWorkersIInv == IInv /\ LaunchWorkers => IInv'
  <1> SUFFICES ASSUME IInv, LaunchWorkers PROVE IInv' OBVIOUS
  <1> USE DEF IInv, CountsOK, Stages
  <1>1. /\ spc = "await" /\ spc' = "collect" /\ to_sender # <<>>
        /\ package_count' = Head(to_sender).package_count
        /\ wpc' = [w \in Worker |->
                     IF w <= Head(to_sender).package_count
                     THEN "load" ELSE "off"]
        /\ to_sender' = Tail(to_sender)
        /\ Cells' = Cells
        /\ UNCHANGED <<rpc, tasks, curr_package_count>>
    BY DEF LaunchWorkers, receiverVars, Cells, Present, CacheCnt
  <1>2. rpc # "idle" BY <1>1
  <1>3. /\ package_count' \in Nat
        /\ package_count' + 1 = Cardinality(tasks) + Len(to_sender)
    BY <1>1, <1>2 DEF Announced
  <1>4. PICK S : to_sender \in Seq(S) OBVIOUS
  <1>5. /\ to_sender' \in Seq(S)
        /\ Len(to_sender) \in Nat
        /\ Len(to_sender') = Len(to_sender) - 1
    BY <1>1, <1>4, ReceiveMessage
  <1>6. CountsOK' BY <1>1, <1>3, <1>5
  <1>7. Stages' BY <1>1, <1>2
  <1>8. PackagesBalance'
    <2>1. {w \in Worker : wpc'[w] = "receive"} = {} BY <1>1
    <2>2. Cardinality({w \in Worker : wpc'[w] = "receive"}) = 0
      BY <2>1, FS_EmptySet
    <2>3. Cardinality(tasks) \in Nat BY TasksFinite
    <2>4. package_count' = Cardinality(tasks) + Len(to_sender')
      BY <1>3, <1>5, <2>3
    <2>5. tasks' = tasks BY <1>1
    <2>6. package_count' + 0 = Cardinality(tasks') + Len(to_sender')
      BY <1>3, <2>4, <2>5
    <2> QED BY <2>2, <2>6 DEF PackagesBalance
  <1>9. Claims'
    <2>1. 1 \in Worker BY UnionQueryAssumption DEF Worker
    <2>2. (\A w \in Worker : wpc'[w] = "off") => package_count' = 0
      BY <1>1, <1>3, <2>1
    <2> QED BY <1>1, <2>2 DEF Claims
  <1> QED BY <1>1, <1>6, <1>7, <1>8, <1>9 DEF Announced, AllReceived, Collected

\* All workers have seen a count of zero, so nothing is left.
LEMMA WorkersDoneIInv == IInv /\ WorkersDone => IInv'
  <1> SUFFICES ASSUME IInv, WorkersDone PROVE IInv' OBVIOUS
  <1> USE DEF IInv, CountsOK, Stages
  <1>1. /\ spc = "collect" /\ spc' = "peqt" /\ Cells' = Cells
        /\ \A w \in Worker : Idle(w)
        /\ UNCHANGED <<rpc, tasks, to_sender, package_count, wpc,
                       curr_package_count>>
    BY DEF WorkersDone, WorkersReturned, receiverVars, workerVars, Cells, Present, CacheCnt, Idle
  <1>2. package_count = 0 BY <1>1 DEF Claims, Idle
  <1>3. Cardinality({w \in Worker : wpc[w] = "receive"}) = 0
    <2>1. {w \in Worker : wpc[w] = "receive"} = {} BY <1>1 DEF Idle
    <2> QED BY <2>1, FS_EmptySet
  <1>4. PICK S : to_sender \in Seq(S) OBVIOUS
  <1>5. Cardinality(tasks) = 0 /\ Len(to_sender) = 0
    <2>1. Cardinality(tasks) \in Nat /\ Len(to_sender) \in Nat
      BY <1>4, TasksFinite
    <2> QED BY <1>1, <1>2, <1>3, <2>1 DEF PackagesBalance
  <1>6. tasks = {} /\ to_sender = <<>> BY <1>4, <1>5, TasksFinite
  <1> QED BY <1>1, <1>6 DEF Announced, PackagesBalance, Claims, AllReceived,
                            Collected, Idle

\* The equality test and the shuffle leave the parts alone.
LEMMA AfterwardsIInv ==
  IInv /\ (PrivateEqualityTest \/ ShuffleMessages \/ ShuffleOutOfRange) => IInv'
  <1> SUFFICES ASSUME IInv,
                      PrivateEqualityTest \/ ShuffleMessages \/ ShuffleOutOfRange
               PROVE  IInv'
    OBVIOUS
  <1>1. /\ spc \in {"peqt", "shuffle"}
        /\ spc' \in {"shuffle", "done", "crashed"}
        /\ rpc' = rpc \/ rpc' = "done"
        /\ Cells' = Cells
        /\ UNCHANGED <<tasks, to_sender, package_count, wpc,
                       curr_package_count>>
    BY DEF PrivateEqualityTest, ShuffleMessages, ShuffleOutOfRange,
           receiverVars, workerVars, Cells, Present, CacheCnt
  <1> QED BY <1>1 DEF IInv, CountsOK, Stages, Idle, Announced,
                      PackagesBalance, Claims, AllReceived, Collected

-----------------------------------------------------------------------------
(* The steps of a worker.                                                  *)

\* A worker that finds the count at zero returns.
LEMMA LoadCountIInv ==
  ASSUME IInv, NEW w \in Worker, LoadCount(w)
  PROVE  IInv'
  <1> USE DEF IInv, CountsOK, Stages
  <1>1. /\ spc = "collect"
        /\ wpc[w] = "load"
        /\ wpc' = [wpc EXCEPT ![w] =
                     IF package_count = 0 THEN "returned" ELSE "claim"]
        /\ curr_package_count' = [curr_package_count EXCEPT ![w] = package_count]
        /\ Cells' = Cells
        /\ UNCHANGED <<rpc, spc, tasks, to_sender, package_count>>
    BY DEF LoadCount, AllClaimed, MoveTo, receiverVars, Cells, Present, CacheCnt, Idle
  <1>2. CountsOK' /\ Stages' BY <1>1
  <1>3. PackagesBalance'
    <2>1. {v \in Worker : wpc'[v] = "receive"}
            = {v \in Worker : wpc[v] = "receive"}
      BY <1>1
    <2> QED BY <1>1, <2>1 DEF PackagesBalance
  <1>4. Claims' BY <1>1 DEF Claims
  <1> QED BY <1>1, <1>2, <1>3, <1>4 DEF Announced, AllReceived, Collected

\* A claim moves one part from the count to a waiting worker.
LEMMA ClaimPackageIInv ==
  ASSUME IInv, NEW w \in Worker, ClaimPackage(w)
  PROVE  IInv'
  <1> USE DEF IInv, CountsOK, Stages
  <1>1. /\ spc = "collect"
        /\ wpc[w] = "claim"
        /\ Cells' = Cells
        /\ UNCHANGED <<rpc, spc, tasks, to_sender, curr_package_count>>
    BY DEF ClaimPackage, receiverVars, Cells, Present, CacheCnt, Idle
  <1>2. curr_package_count[w] # 0 BY <1>1 DEF Claims
  <1>3. CASE package_count # curr_package_count[w]
    <2>1. wpc' = [wpc EXCEPT ![w] = "load"] /\ package_count' = package_count
      BY <1>3 DEF ClaimPackage, ExchangeSucceeds, MoveTo
    <2>2. CountsOK' /\ Stages' BY <1>1, <2>1
    <2>3. {v \in Worker : wpc'[v] = "receive"}
            = {v \in Worker : wpc[v] = "receive"}
      BY <1>1, <2>1
    <2>4. PackagesBalance' BY <1>1, <2>1, <2>3 DEF PackagesBalance
    <2>5. Claims' BY <1>1, <2>1 DEF Claims
    <2> QED BY <1>1, <2>2, <2>4, <2>5 DEF Announced, AllReceived, Collected
  <1>4. CASE package_count = curr_package_count[w]
    <2>1. /\ wpc' = [wpc EXCEPT ![w] = "receive"]
          /\ package_count' = package_count - 1
      BY <1>4 DEF ClaimPackage, ExchangeSucceeds, MoveTo
    <2>2. package_count # 0 BY <1>2, <1>4
    <2>3. CountsOK' /\ Stages' BY <1>1, <2>1, <2>2
    <2>4. PackagesBalance'
      <3> DEFINE R == {v \in Worker : wpc[v] = "receive"}
      <3>1. {v \in Worker : wpc'[v] = "receive"} = R \union {w}
        BY <1>1, <2>1
      <3>2. Cardinality(R) \in Nat /\ Cardinality(R \union {w}) = Cardinality(R) + 1
        BY <1>1, WorkersFinite
      <3>3. package_count + Cardinality(R) = Cardinality(tasks) + Len(to_sender)
        BY <1>1 DEF PackagesBalance
      <3>4. package_count' + Cardinality(R \union {w})
              = package_count + Cardinality(R)
        BY <2>1, <3>2
      <3> HIDE DEF R
      <3> QED BY <1>1, <3>1, <3>3, <3>4 DEF PackagesBalance
    <2>5. Claims' BY <1>1, <2>1, <2>2 DEF Claims
    <2> QED BY <1>1, <2>3, <2>4, <2>5 DEF Announced, AllReceived, Collected
  <1> QED BY <1>3, <1>4

\* A part leaves the channel and its worker stops waiting.
LEMMA ReceiveResultIInv ==
  ASSUME IInv, NEW w \in Worker, ReceiveResult(w)
  PROVE  IInv'
  <1> USE DEF IInv, CountsOK, Stages
  <1>1. /\ spc = "collect"
        /\ wpc[w] = "receive"
        /\ wpc' = [wpc EXCEPT ![w] = "copy"]
        /\ to_sender # <<>>
        /\ to_sender' = Tail(to_sender)
        /\ Cells' = Cells
        /\ UNCHANGED <<rpc, spc, tasks, package_count, curr_package_count>>
    BY DEF ReceiveResult, MoveTo, receiverVars, Cells, Present, CacheCnt, Idle
  <1>2. PICK S : to_sender \in Seq(S) OBVIOUS
  <1>3. /\ to_sender' \in Seq(S)
        /\ Len(to_sender) \in Nat
        /\ Len(to_sender') = Len(to_sender) - 1
    BY <1>1, <1>2, ReceiveMessage
  <1>4. CountsOK' BY <1>1, <1>3
  <1>5. Stages' BY <1>1
  <1>6. PackagesBalance'
    <2> DEFINE R == {v \in Worker : wpc[v] = "receive"}
    <2>1. {v \in Worker : wpc'[v] = "receive"} = R \ {w} BY <1>1
    <2>2. Cardinality(R) \in Nat /\ Cardinality(R \ {w}) = Cardinality(R) - 1
      BY <1>1, WorkersFinite
    <2>3. package_count + Cardinality(R) = Cardinality(tasks) + Len(to_sender)
      BY <1>1 DEF PackagesBalance
    <2>4. Cardinality(tasks) \in Nat BY TasksFinite
    <2> HIDE DEF R
    <2>5. package_count + Cardinality(R \ {w})
            = Cardinality(tasks) + Len(to_sender')
      <3>1. package_count \in Nat OBVIOUS
      <3> HIDE DEF IInv, CountsOK, Stages
      <3> QED BY <1>3, <2>2, <2>3, <2>4, <3>1, OneLess
    <2> QED BY <1>1, <2>1, <2>5 DEF PackagesBalance
  <1>7. Claims' BY <1>1 DEF Claims
  <1> QED BY <1>1, <1>4, <1>5, <1>6, <1>7 DEF Announced, AllReceived, Collected

\* Copying a part changes no count.
LEMMA CopyResultIInv ==
  ASSUME IInv, NEW w \in Worker, CopyResult(w)
  PROVE  IInv'
  <1> USE DEF IInv, CountsOK, Stages
  <1>1. /\ spc = "collect"
        /\ wpc[w] = "copy"
        /\ wpc' = [wpc EXCEPT ![w] = "load"]
        /\ Cells' = Cells
        /\ UNCHANGED <<rpc, spc, tasks, to_sender, package_count,
                       curr_package_count>>
    BY DEF CopyResult, MoveTo, receiverVars, Cells, Present, CacheCnt, Idle
  <1>2. CountsOK' /\ Stages' BY <1>1
  <1>3. PackagesBalance'
    <2>1. {v \in Worker : wpc'[v] = "receive"}
            = {v \in Worker : wpc[v] = "receive"}
      BY <1>1
    <2> QED BY <1>1, <2>1 DEF PackagesBalance
  <1>4. Claims' BY <1>1 DEF Claims
  <1> QED BY <1>1, <1>2, <1>3, <1>4 DEF Announced, AllReceived, Collected

-----------------------------------------------------------------------------

\* Nothing changes.
LEMMA StutterIInv == IInv /\ UNCHANGED vars => IInv'
  BY DEF IInv, vars, CountsOK, Stages, Idle, Announced, PackagesBalance,
         Claims, AllReceived, Collected, receiverVars, senderVars, workerVars,
         Cells, Present, CacheCnt

\* The invariant is inductive.
LEMMA NextIInv == IInv /\ [Next]_vars => IInv'
  <1> SUFFICES ASSUME IInv, [Next]_vars PROVE IInv' OBVIOUS
  <1>1. CASE ReceiverStep
    BY <1>1, RunQueryIInv, ProcessIInv, TasksDoneIInv DEF ReceiverStep
  <1>2. CASE SenderStep
    BY <1>2, CreateQueryIInv, LaunchWorkersIInv, WorkersDoneIInv,
       AfterwardsIInv DEF SenderStep
  <1>3. CASE \E w \in Worker : WorkerStep(w)
    BY <1>3, LoadCountIInv, ClaimPackageIInv, ReceiveResultIInv,
       CopyResultIInv DEF WorkerStep
  <1>4. CASE UNCHANGED vars BY <1>4, StutterIInv
  <1> QED BY <1>1, <1>2, <1>3, <1>4 DEF Next

\* The invariant always holds.
LEMMA Invariance == Spec => []IInv
  BY InitIInv, NextIInv, PTL DEF Spec

(***************************************************************************)
(* For every table, database, query and number of threads: while the       *)
(* process_result_workers collect, the count and the channel agree with    *)
(* what the receiver has left to send.                                     *)
(***************************************************************************)
THEOREM Balanced == Spec => []PackagesBalance
  <1>1. IInv => PackagesBalance BY DEF IInv
  <1> QED BY <1>1, Invariance, PTL

(***************************************************************************)
(* For every table, database, query and number of threads: request_query   *)
(* goes on to the equality test only with every result part received.      *)
(***************************************************************************)
THEOREM NothingLeft == Spec => []AllReceived
  <1>1. IInv => AllReceived BY DEF IInv
  <1> QED BY <1>1, Invariance, PTL

-----------------------------------------------------------------------------
(* Positions and cells: arithmetic.                                        *)

\* Quotient and remainder of a natural number.
LEMMA Division ==
  ASSUME NEW n \in Nat, NEW d \in Nat \ {0}
  PROVE  /\ n \div d \in Nat
         /\ n % d \in 0..(d - 1)
         /\ n = (n \div d) * d + (n % d)
  OBVIOUS

\* What they are of a number that is given by them.
LEMMA Divided ==
  ASSUME NEW q \in Nat, NEW d \in Nat \ {0}, NEW r \in 0..(d - 1)
  PROVE  /\ q * d + r \in Nat
         /\ (q * d + r) \div d = q
         /\ (q * d + r) % d = r
  OBVIOUS

\* A row below the last ends before the last.
LEMMA RowsBelow ==
  ASSUME NEW p \in Nat, NEW q \in Nat, NEW d \in Nat \ {0}, NEW r \in 0..(d - 1)
  PROVE  p < q <=> p * d + r < q * d
  <1>1. CASE p < q
    <2>1. (q - p - 1) \in Nat BY <1>1
    <2>2. (q - p - 1) * d >= 0 BY <2>1
    <2> QED BY <2>2, <1>1
  <1>2. CASE ~ (p < q)
    <2>1. (p - q) \in Nat BY <1>2
    <2>2. (p - q) * d >= 0 BY <2>1
    <2> QED BY <2>2, <1>2
  <1> QED BY <1>1, <1>2

\* Sizes of table and bundle.
LEMMA Sizes ==
  /\ BundleIdxCount \in Nat \ {0}
  /\ ItemsPerBundle \in Nat \ {0}
  /\ ItemCnt \in Nat \ {0}
  BY UnionQueryAssumption DEF ItemCnt

\* A position is that of one slot of one cell, in one row of the table.
LEMMA PositionParts ==
  ASSUME NEW k \in Nat
  PROVE  /\ CellAt(k)[1] \in Nat
         /\ CellAt(k)[2] \in BundleIdx
         /\ CellAt(k) \in Nat \X BundleIdx
         /\ k % ItemsPerBundle \in Slot
         /\ k % ItemCnt \in Column
         /\ k = Position(CellAt(k), k % ItemsPerBundle)
         /\ k \div ItemCnt = CellAt(k)[1]
         /\ k % ItemCnt = CellAt(k)[2] * ItemsPerBundle + (k % ItemsPerBundle)
  <1> DEFINE I == ItemsPerBundle
             B == BundleIdxCount
             row == k \div I
             i == k % I
             c == row \div B
             b == row % B
  <1>1. CellAt(k) = <<c, b>> BY DEF CellAt
  <1>2. row \in Nat /\ i \in 0..(I - 1) /\ k = row * I + i
    BY Sizes, Division
  <1>3. c \in Nat /\ b \in 0..(B - 1) /\ row = c * B + b
    BY Sizes, <1>2, Division
  <1>4. I \in Nat \ {0} /\ B \in Nat \ {0} /\ ItemCnt = B * I
    BY Sizes DEF ItemCnt
  <1>a. B * I \in Nat \ {0} BY Sizes DEF ItemCnt
  <1> HIDE DEF I, B, row, i, c, b
  <1>5. k = c * I * B + b * I + i
    BY <1>2, <1>3, <1>4
  <1>6. b * I + i \in 0..(B * I - 1)
    <2>1. b \in Nat /\ b < B /\ i \in Nat /\ i < I BY <1>3, <1>2, <1>4
    <2>2. b * I + i < B * I BY <2>1, <1>2, <1>3, <1>4, RowsBelow
    <2>3. b * I \in Nat BY <2>1, <1>4
    <2> QED BY <2>1, <2>2, <2>3, <1>a
  <1>7. c * I * B = c * (B * I)
    BY <1>3, <1>4
  <1>8. k = c * (B * I) + (b * I + i)
    <2>1. c * (B * I) \in Nat /\ b * I \in Nat /\ i \in Nat BY <1>a, <1>2, <1>3, <1>4
    <2> QED BY <1>5, <1>7, <2>1
  <1>9. k \div (B * I) = c /\ k % (B * I) = b * I + i
    BY <1>3, <1>a, <1>6, <1>8, Divided
  <1> QED
    BY <1>1, <1>2, <1>3, <1>4, <1>5, <1>6, <1>9
       DEF I, B, i, Position, BundleIdx, Slot, Column

\* The slots of a cell have positions of their own.
LEMMA PositionOf ==
  ASSUME NEW c \in Nat, NEW b \in BundleIdx, NEW i \in Slot
  PROVE  /\ Position(<<c, b>>, i) \in Nat
         /\ Position(<<c, b>>, i) = Position(<<c, b>>, 0) + i
         /\ CellAt(Position(<<c, b>>, i)) = <<c, b>>
         /\ Position(<<c, b>>, i) % ItemsPerBundle = i
  <1> DEFINE I == ItemsPerBundle
             B == BundleIdxCount
             row == c * B + b
  <1>1. I \in Nat \ {0} /\ B \in Nat \ {0} /\ b \in 0..(B - 1) /\ i \in 0..(I - 1)
    BY Sizes DEF BundleIdx, Slot
  <1>2. /\ Position(<<c, b>>, i) = c * I * B + b * I + i
        /\ Position(<<c, b>>, 0) = c * I * B + b * I + 0
    BY DEF Position
  <1>3. row \in Nat /\ row \div B = c /\ row % B = b
    BY <1>1, Divided
  <1> HIDE DEF I, B
  <1>4. c * I * B + b * I = row * I /\ row * I \in Nat
    BY <1>1
  <1> HIDE DEF row
  <1>5. c * I * B \in Nat /\ b * I \in Nat BY <1>1
  <1>6. Position(<<c, b>>, i) = row * I + i
    BY <1>2, <1>4
  <1>7. /\ (row * I + i) \div I = row
        /\ (row * I + i) % I = i
    BY <1>1, <1>3, Divided
  <1> QED BY <1>1, <1>2, <1>3, <1>4, <1>5, <1>6, <1>7 DEF CellAt, I, B

-----------------------------------------------------------------------------
(* Least and greatest numbers, with which the prover can do induction.     *)

Less == OpToRel(<, Nat)

\* It is the usual order.
LEMMA LessMeans == \A x, y \in Nat : <<y, x>> \in Less <=> y < x
  BY DEF Less, OpToRel

\* A set of natural numbers has a least one.
LEMMA Least ==
  ASSUME NEW S, S \subseteq Nat, S # {}
  PROVE  \E x \in S : \A y \in S : x <= y
  <1>1. IsWellFoundedOn(Less, Nat) BY NatLessThanWellFounded DEF Less
  <1>2. PICK x \in S : \A y \in S : ~ (<<y, x>> \in Less) BY <1>1, WFMin
  <1>3. ASSUME NEW y \in S PROVE x <= y
    <2>1. x \in Nat /\ y \in Nat OBVIOUS
    <2>2. ~ (<<y, x>> \in Less) BY <1>2
    <2>3. ~ (y < x) BY <2>1, <2>2, LessMeans
    <2> QED BY <2>1, <2>3
  <1> QED BY <1>3

\* A bounded set of natural numbers has a greatest one.
LEMMA Greatest ==
  ASSUME NEW S, NEW m \in Nat, S \subseteq 0..m, S # {}
  PROVE  \E x \in S : \A y \in S : y <= x
  <1> DEFINE T == {m - y : y \in S}
  <1>1. T \subseteq Nat
    <2>1. \A y \in S : m - y \in Nat OBVIOUS
    <2> QED BY <2>1
  <1>2. T # {} OBVIOUS
  <1>3. PICK z \in T : \A y \in T : z <= y BY <1>1, <1>2, Least
  <1>4. PICK x \in S : z = m - x OBVIOUS
  <1>5. \A y \in S : m - x <= m - y BY <1>3, <1>4
  <1> QED BY <1>5

-----------------------------------------------------------------------------
(* What is known of the databases.                                         *)

\* Every bundle index has at most MaxCaches bundles, the bundles' bins hold
\* items at their locations, an item at a location is in one bundle, and an
\* item that is somewhere is at each of its locations.
DbFacts ==
  /\ \A b \in BundleIdx : Len(db[b]) \in 0..MaxCaches
  /\ \A b \in BundleIdx : Len(db[b]) = 0 => db[b] = <<>>
  /\ \A cell \in Cells, i \in Slot :
       \A x \in db[cell[2]][cell[1] + 1][i] :
         /\ x \in Item
         /\ cell[2] * ItemsPerBundle + i \in Loc[x]
  /\ \A cell, other \in Cells, i \in Slot :
       /\ cell[2] = other[2]
       /\ db[cell[2]][cell[1] + 1][i] \intersect db[other[2]][other[1] + 1][i] # {}
       => cell = other
  /\ \A x \in DbItems : \A b \in BundleIdx, i \in Slot :
       b * ItemsPerBundle + i \in Loc[x] =>
         \E cell \in Cells : cell[2] = b /\ x \in db[b][cell[1] + 1][i]
  /\ EqualCaches => SameCaches

\* The parts of Databases: where items of S are stored, the bundles used at
\* an index if at says in which bundle each item is, and what they hold.
Places(S) == {xl \in S \X Column : xl[2] \in Loc[xl[1]]}
Used(at, b) == {at[xl] : xl \in {p \in DOMAIN at : p[2] \div ItemsPerBundle = b}}
Bin(at, c, b, i) ==
  {x \in Item : /\ <<x, b * ItemsPerBundle + i>> \in DOMAIN at
                /\ at[<<x, b * ItemsPerBundle + i>>] = c}

\* A database is laid out by an assignment of bundles to items and locations.
LEMMA DatabasesAre ==
  ASSUME db \in Databases
  PROVE  \E S \in SUBSET Item : \E at \in [Places(S) -> 0..(MaxCaches - 1)] :
           /\ \A b \in BundleIdx :
                /\ db[b] = [n \in 1..Cardinality(Used(at, b)) |->
                              [i \in Slot |-> Bin(at, n - 1, b, i)]]
                /\ Used(at, b) = 0..(Cardinality(Used(at, b)) - 1)
           /\ EqualCaches => \A b \in BundleIdx :
                               /\ Cardinality(Used(at, b)) = Cardinality(Used(at, 0))
                               /\ Cardinality(Used(at, 0)) # 0
  <1> DEFINE layout(at) == [b \in BundleIdx |->
                              [n \in 1..Cardinality(Used(at, b)) |->
                                 [i \in Slot |-> Bin(at, n - 1, b, i)]]]
             fits(at) ==
               /\ \A b \in BundleIdx : Used(at, b) = 0..(Cardinality(Used(at, b)) - 1)
               /\ EqualCaches => \A b \in BundleIdx :
                                   /\ Cardinality(Used(at, b)) = Cardinality(Used(at, 0))
                                   /\ Cardinality(Used(at, 0)) # 0
  <1>1. db \in UNION {{layout(at) : at \in {f \in [Places(S) -> 0..(MaxCaches - 1)] : fits(f)}} :
                       S \in SUBSET Item}
    BY DEF Databases, Places, Used, Bin
  <1> HIDE DEF layout, fits
  <1>2. PICK S \in SUBSET Item :
          db \in {layout(at) : at \in {f \in [Places(S) -> 0..(MaxCaches - 1)] : fits(f)}}
    BY <1>1
  <1>3. PICK at \in [Places(S) -> 0..(MaxCaches - 1)] : fits(at) /\ db = layout(at)
    BY <1>2
  <1>4. \A b \in BundleIdx :
          db[b] = [n \in 1..Cardinality(Used(at, b)) |->
                     [i \in Slot |-> Bin(at, n - 1, b, i)]]
    BY <1>3 DEF layout
  <1> QED BY <1>3, <1>4 DEF fits

\* Column b * ItemsPerBundle + i is slot i of bundle index b.
LEMMA ColumnParts ==
  ASSUME NEW b \in BundleIdx, NEW i \in Slot
  PROVE  /\ b * ItemsPerBundle + i \in Column
         /\ (b * ItemsPerBundle + i) \div ItemsPerBundle = b
         /\ (b * ItemsPerBundle + i) % ItemsPerBundle = i
  <1>1. b * ItemsPerBundle + i = Position(<<0, b>>, i)
    BY Sizes DEF Position, BundleIdx, Slot
  <1>2. /\ b * ItemsPerBundle + i \in Nat
        /\ (b * ItemsPerBundle + i) \div ItemsPerBundle = b
        /\ (b * ItemsPerBundle + i) % ItemsPerBundle = i
    BY Sizes, Divided DEF BundleIdx, Slot
  <1>3. b * ItemsPerBundle + i < BundleIdxCount * ItemsPerBundle
    BY Sizes, RowsBelow DEF BundleIdx, Slot
  <1> QED BY <1>2, <1>3, Sizes DEF Column, ItemCnt

\* So the facts hold of every database.
LEMMA DatabasesFacts ==
  ASSUME db \in Databases
  PROVE  DbFacts
  <1>1. PICK S \in SUBSET Item :
          \E at \in [Places(S) -> 0..(MaxCaches - 1)] :
           /\ \A b \in BundleIdx :
                /\ db[b] = [n \in 1..Cardinality(Used(at, b)) |->
                              [i \in Slot |-> Bin(at, n - 1, b, i)]]
                /\ Used(at, b) = 0..(Cardinality(Used(at, b)) - 1)
           /\ EqualCaches => \A b \in BundleIdx :
                               /\ Cardinality(Used(at, b)) = Cardinality(Used(at, 0))
                               /\ Cardinality(Used(at, 0)) # 0
    BY DatabasesAre
  <1>2. PICK at \in [Places(S) -> 0..(MaxCaches - 1)] :
          /\ \A b \in BundleIdx :
               /\ db[b] = [n \in 1..Cardinality(Used(at, b)) |->
                             [i \in Slot |-> Bin(at, n - 1, b, i)]]
               /\ Used(at, b) = 0..(Cardinality(Used(at, b)) - 1)
          /\ EqualCaches => \A b \in BundleIdx :
                              /\ Cardinality(Used(at, b)) = Cardinality(Used(at, 0))
                              /\ Cardinality(Used(at, 0)) # 0
    BY <1>1
  <1> DEFINE cnt(b) == Cardinality(Used(at, b))
  <1>3. ASSUME NEW b \in BundleIdx
        PROVE  cnt(b) \in 0..MaxCaches
    <2>1. Used(at, b) \subseteq 0..(MaxCaches - 1) BY DEF Used
    <2>2. /\ IsFiniteSet(0..(MaxCaches - 1))
          /\ Cardinality(0..(MaxCaches - 1)) = MaxCaches
      BY UnionQueryAssumption, FS_Interval
    <2>3. PICK all : all = 0..(MaxCaches - 1) OBVIOUS
    <2>4. IsFiniteSet(Used(at, b)) /\ Cardinality(Used(at, b)) <= Cardinality(all)
      <3>1. IsFiniteSet(all) /\ Used(at, b) \in SUBSET all BY <2>1, <2>2, <2>3
      <3> QED BY <3>1, FS_Subset
    <2>5. /\ IsFiniteSet(Used(at, b))
          /\ Cardinality(Used(at, b)) <= MaxCaches
      BY <2>2, <2>3, <2>4
    <2> QED BY <2>5, FS_CardinalityType, UnionQueryAssumption
  <1>4. ASSUME NEW b \in BundleIdx
        PROVE  /\ Len(db[b]) = cnt(b)
               /\ \A n \in 1..cnt(b) : \A i \in Slot :
                    db[b][n][i] = Bin(at, n - 1, b, i)
    <2>1. db[b] = [n \in 1..cnt(b) |-> [i \in Slot |-> Bin(at, n - 1, b, i)]]
      BY <1>2
    <2>2. cnt(b) \in Nat BY <1>3
    <2> QED BY <2>1, <2>2
  <1>5. ASSUME NEW cell \in Cells, NEW i \in Slot
        PROVE  /\ cell[2] \in BundleIdx
               /\ cell[1] \in 0..(cnt(cell[2]) - 1)
               /\ cell = <<cell[1], cell[2]>>
               /\ db[cell[2]][cell[1] + 1][i] = Bin(at, cell[1], cell[2], i)
    <2>1. /\ cell \in (0..(MaxCaches - 1)) \X BundleIdx
          /\ cell[1] < Len(db[cell[2]])
      BY DEF Cells, Present, CacheCnt
    <2>2. cell[1] + 1 \in 1..cnt(cell[2]) /\ (cell[1] + 1) - 1 = cell[1]
      BY <2>1, <1>3, <1>4, UnionQueryAssumption
    <2> QED BY <2>1, <2>2, <1>4
  <1> HIDE DEF cnt
  <1>6. ASSUME NEW b \in BundleIdx
        PROVE  /\ Len(db[b]) \in 0..MaxCaches
               /\ Len(db[b]) = 0 => db[b] = <<>>
    <2>1. db[b] = [n \in 1..cnt(b) |-> [i \in Slot |-> Bin(at, n - 1, b, i)]]
      BY <1>2 DEF cnt
    <2>2. CASE cnt(b) = 0 BY <2>1, <2>2, <1>3, <1>4
    <2>3. CASE cnt(b) # 0 BY <2>3, <1>3, <1>4
    <2> QED BY <2>2, <2>3
  <1>7. \A cell \in Cells, i \in Slot :
          \A x \in db[cell[2]][cell[1] + 1][i] :
            /\ x \in Item
            /\ cell[2] * ItemsPerBundle + i \in Loc[x]
    <2> SUFFICES ASSUME NEW cell \in Cells, NEW i \in Slot,
                        NEW x \in Bin(at, cell[1], cell[2], i)
                 PROVE  /\ x \in Item
                        /\ cell[2] * ItemsPerBundle + i \in Loc[x]
      BY <1>5
    <2>1. x \in Item /\ <<x, cell[2] * ItemsPerBundle + i>> \in Places(S)
      BY DEF Bin
    <2> QED BY <2>1 DEF Places
  <1>8. \A cell, other \in Cells, i \in Slot :
          /\ cell[2] = other[2]
          /\ db[cell[2]][cell[1] + 1][i] \intersect db[other[2]][other[1] + 1][i] # {}
          => cell = other
    <2> SUFFICES ASSUME NEW cell \in Cells, NEW other \in Cells, NEW i \in Slot,
                        cell[2] = other[2],
                        NEW x \in Bin(at, cell[1], cell[2], i),
                        x \in Bin(at, other[1], other[2], i)
                 PROVE  cell = other
      BY <1>5
    <2>1. cell[1] = other[1] BY DEF Bin
    <2> QED BY <2>1, <1>5
  <1>9. ASSUME NEW x \in DbItems, NEW b \in BundleIdx, NEW i \in Slot,
               b * ItemsPerBundle + i \in Loc[x]
        PROVE  \E cell \in Cells : cell[2] = b /\ x \in db[b][cell[1] + 1][i]
    <2> DEFINE l == b * ItemsPerBundle + i
               c == at[<<x, l>>]
    <2>1. x \in S
      <3>1. PICK cb \in Cells, j \in Slot : x \in db[cb[2]][cb[1] + 1][j]
        BY DEF DbItems
      <3>2. <<x, cb[2] * ItemsPerBundle + j>> \in Places(S)
        BY <3>1, <1>5 DEF Bin
      <3> QED BY <3>2 DEF Places
    <2>2. <<x, l>> \in Places(S) BY <1>9, <2>1, ColumnParts DEF Places
    <2>3. c \in Used(at, b) BY <2>2, ColumnParts DEF Used
    <2>4. c \in 0..(MaxCaches - 1) /\ c \in 0..(cnt(b) - 1)
      BY <2>2, <2>3, <1>2 DEF cnt
    <2>5. <<c, b>> \in Cells
      BY <2>4, <1>3, <1>4 DEF Cells, Present, CacheCnt
    <2>6. x \in Bin(at, c, b, i) BY <2>1, <2>2 DEF Bin
    <2> QED BY <2>5, <2>6, <1>5
  <1>10. EqualCaches => SameCaches
    <2>1. 0 \in BundleIdx BY Sizes DEF BundleIdx
    <2>2. db[0] = [n \in 1..cnt(0) |-> [i \in Slot |-> Bin(at, n - 1, 0, i)]]
      BY <1>2, <2>1 DEF cnt
    <2> QED BY <1>2, <1>3, <1>4, <2>1, <2>2 DEF SameCaches, cnt
  <1> QED BY <1>6, <1>7, <1>8, <1>9, <1>10 DEF DbFacts

\* Alpha is the greatest number of caches at a bundle index.
LEMMA AlphaIs ==
  ASSUME DbFacts
  PROVE  /\ Alpha \in Nat /\ Alpha <= MaxCaches
         /\ \A b \in BundleIdx : CacheCnt(b) \in Nat /\ CacheCnt(b) <= Alpha
         /\ SameCaches => Alpha # 0 /\ \A b \in BundleIdx : CacheCnt(b) = Alpha
         /\ MatrixSize \in Nat
  <1> DEFINE Cnts == {CacheCnt(b) : b \in BundleIdx}
  <1>1. \A b \in BundleIdx : CacheCnt(b) \in 0..MaxCaches BY DEF DbFacts, CacheCnt
  <1>2. 0 \in BundleIdx BY Sizes DEF BundleIdx
  <1>3. Cnts \subseteq 0..MaxCaches /\ Cnts # {} BY <1>1, <1>2
  <1>4. \E n \in Cnts : \A m \in Cnts : m <= n
    BY <1>3, Greatest, UnionQueryAssumption
  <1>5. Alpha \in Cnts /\ \A b \in BundleIdx : CacheCnt(b) <= Alpha
    <2>1. \E n \in Cnts : \A b \in BundleIdx : CacheCnt(b) <= n BY <1>4
    <2> HIDE DEF Cnts
    <2>2. Alpha = CHOOSE n \in Cnts : \A b \in BundleIdx : CacheCnt(b) <= n
      BY DEF Alpha, Cnts
    <2> QED BY <2>1, <2>2
  <1>6. SameCaches => Alpha # 0 /\ \A b \in BundleIdx : CacheCnt(b) = Alpha
    <2> SUFFICES ASSUME SameCaches
                 PROVE  Alpha # 0 /\ \A b \in BundleIdx : CacheCnt(b) = Alpha
      OBVIOUS
    <2>1. \A b \in BundleIdx : CacheCnt(b) = CacheCnt(0)
      BY DEF SameCaches, CacheCnt
    <2>2. PICK b \in BundleIdx : Alpha = CacheCnt(b) BY <1>5
    <2>3. Alpha = CacheCnt(0) BY <2>1, <2>2
    <2>4. CacheCnt(0) # 0 BY <1>2 DEF DbFacts, CacheCnt, SameCaches
    <2> QED BY <2>1, <2>3, <2>4
  <1>7. Alpha \in Nat /\ Alpha <= MaxCaches BY <1>1, <1>5, UnionQueryAssumption
  <1> QED BY <1>1, <1>5, <1>6, <1>7, Sizes DEF MatrixSize

\* The cells that are present, and their places in the matrix.
LEMMA CellFacts ==
  ASSUME DbFacts
  PROVE  /\ \A cell \in Cells :
              /\ cell = <<cell[1], cell[2]>>
              /\ cell[1] \in Nat /\ cell[2] \in BundleIdx
              /\ cell[1] < Alpha
         /\ \A k \in Nat : Present(CellAt(k)) <=> CellAt(k) \in Cells
         /\ \A k \in Nat : k \in 0..(MatrixSize - 1) <=> CellAt(k)[1] < Alpha
         /\ \A cell \in Cells, i \in Slot :
              /\ Position(cell, i) \in 0..(MatrixSize - 1)
              /\ CellAt(Position(cell, i)) = cell
              /\ Position(cell, i) % ItemsPerBundle = i
              /\ Position(cell, i) = Position(cell, 0) + i
  <1>1. ASSUME NEW cell \in Cells
        PROVE  /\ cell = <<cell[1], cell[2]>>
               /\ cell[1] \in Nat /\ cell[2] \in BundleIdx
               /\ cell[1] < Alpha
    <2>1. /\ cell \in (0..(MaxCaches - 1)) \X BundleIdx
          /\ cell[1] < CacheCnt(cell[2])
      BY DEF Cells, Present
    <2>2. cell[1] \in Nat /\ cell[2] \in BundleIdx BY <2>1, UnionQueryAssumption
    <2> QED BY <2>1, <2>2, AlphaIs
  <1>2. ASSUME NEW k \in Nat
        PROVE  Present(CellAt(k)) <=> CellAt(k) \in Cells
    <2>1. CellAt(k) \in Nat \X BundleIdx BY PositionParts
    <2>2. CacheCnt(CellAt(k)[2]) \in 0..MaxCaches BY <2>1 DEF DbFacts, CacheCnt
    <2>3. Present(CellAt(k)) => CellAt(k)[1] \in 0..(MaxCaches - 1)
      BY <2>1, <2>2, UnionQueryAssumption DEF Present
    <2> QED BY <2>1, <2>3 DEF Cells
  <1>3. ASSUME NEW k \in Nat
        PROVE  k \in 0..(MatrixSize - 1) <=> CellAt(k)[1] < Alpha
    <2>1. /\ k \div ItemCnt = CellAt(k)[1]
          /\ k \div ItemCnt \in Nat
          /\ k % ItemCnt \in 0..(ItemCnt - 1)
          /\ k = (k \div ItemCnt) * ItemCnt + (k % ItemCnt)
      BY PositionParts, Sizes, Division
    <2>2. CellAt(k)[1] < Alpha <=> k < Alpha * ItemCnt
      BY <2>1, AlphaIs, Sizes, RowsBelow
    <2> QED BY <2>2, AlphaIs DEF MatrixSize
  <1>4. ASSUME NEW cell \in Cells, NEW i \in Slot
        PROVE  /\ Position(cell, i) \in 0..(MatrixSize - 1)
               /\ CellAt(Position(cell, i)) = cell
               /\ Position(cell, i) % ItemsPerBundle = i
               /\ Position(cell, i) = Position(cell, 0) + i
    BY <1>1, <1>3, PositionOf
  <1> QED BY <1>1, <1>2, <1>3, <1>4

\* If there are as many caches everywhere, pack_idx finds a cell's own mask.
LEMMA PackIdxRight ==
  ASSUME DbFacts, SameCaches, NEW cell \in Cells
  PROVE  /\ PackIdx(cell) \in Nat
         /\ Len(DrawPlainList) \in Nat
         /\ PackIdx(cell) < Len(DrawPlainList)
         /\ DrawPlainList[PackIdx(cell) + 1] = cell
  <1> DEFINE n == Alpha * BundleIdxCount
             s == LoopOrder
             Rec(F) == F = [i \in 0..Len(s) |->
                              IF i = 0 THEN <<>>
                              ELSE IF Present(s[i]) THEN Append(F[i - 1], s[i])
                              ELSE F[i - 1]]
             G == [i \in 0..n |-> [j \in 1..i |-> s[j]]]
             drawn == CHOOSE F : Rec(F)
  <1>1. n \in Nat BY AlphaIs, Sizes
  <1>2. /\ Len(s) = n
        /\ \A i \in 1..n : s[i] = <<(i - 1) \div BundleIdxCount, (i - 1) % BundleIdxCount>>
    BY <1>1 DEF LoopOrder
  <1>3. ASSUME NEW i \in 1..n
        PROVE  Present(s[i])
    <2>1. /\ (i - 1) \in Nat
          /\ (i - 1) \div BundleIdxCount \in Nat
          /\ (i - 1) % BundleIdxCount \in 0..(BundleIdxCount - 1)
          /\ i - 1 = ((i - 1) \div BundleIdxCount) * BundleIdxCount
                       + ((i - 1) % BundleIdxCount)
      BY Sizes, Division, <1>1
    <2>2. (i - 1) \div BundleIdxCount < Alpha
      BY <2>1, AlphaIs, Sizes, RowsBelow, <1>1
    <2>3. CacheCnt((i - 1) % BundleIdxCount) = Alpha BY <2>1, AlphaIs DEF BundleIdx
    <2> QED BY <1>2, <2>2, <2>3 DEF Present
  <1>4. DrawPlainList = drawn[Len(s)] BY DEF DrawPlainList
  <1> HIDE DEF n, s
  <1>5. ASSUME NEW i \in 1..n
        PROVE  [j \in 1..i |-> s[j]] = Append([j \in 1..i-1 |-> s[j]], s[i])
    <2> DEFINE T == {s[j] : j \in 1..n}
    <2>1. [j \in 1..i-1 |-> s[j]] \in Seq(T) /\ Len([j \in 1..i-1 |-> s[j]]) = i - 1
      BY <1>1
    <2> QED BY <1>1, <2>1
  <1>6. Rec(G)
    <2>1. ASSUME NEW i \in 0..n
          PROVE  G[i] = IF i = 0 THEN <<>>
                        ELSE IF Present(s[i]) THEN Append(G[i - 1], s[i])
                        ELSE G[i - 1]
      <3>1. CASE i = 0 BY <3>1
      <3>2. CASE i # 0
        <4>1. i \in 1..n /\ i - 1 \in 0..n BY <3>2, <1>1
        <4>2. G[i - 1] = [j \in 1..i-1 |-> s[j]] /\ G[i] = [j \in 1..i |-> s[j]]
          BY <4>1
        <4>3. Present(s[i]) BY <1>3, <4>1
        <4> HIDE DEF G
        <4> QED BY <1>5, <3>2, <4>1, <4>2, <4>3
      <3> QED BY <3>1, <3>2
    <2> QED BY <2>1, <1>2
  <1>7. Rec(drawn) BY <1>6
  <1> HIDE DEF drawn
  <1>8. \A i \in 0..n : drawn[i] = G[i]
    <2> DEFINE bad == {i \in 0..n : drawn[i] # G[i]}
    <2> SUFFICES ASSUME bad # {} PROVE FALSE OBVIOUS
    <2>1. bad \subseteq Nat BY <1>1
    <2>2. PICK i \in bad : \A j \in bad : i <= j BY <2>1, Least
    <2>3. i # 0 BY <1>2, <1>6, <1>7
    <2> HIDE DEF G
    <2>4. i - 1 \in 0..n /\ i - 1 \notin bad
      <3>1. i \in 0..n BY <2>2
      <3>2. i - 1 \in 0..n /\ ~ (i <= i - 1) BY <1>1, <3>1, <2>3
      <3> QED BY <2>2, <3>2
    <2>5. drawn[i - 1] = G[i - 1] BY <2>4
    <2>6. i \in 0..n /\ drawn[i] # G[i] BY <2>2
    <2>7. drawn[i] = IF Present(s[i]) THEN Append(drawn[i - 1], s[i]) ELSE drawn[i - 1]
      BY <1>2, <1>7, <2>3, <2>6
    <2>8. G[i] = IF Present(s[i]) THEN Append(G[i - 1], s[i]) ELSE G[i - 1]
      BY <1>2, <1>6, <2>3, <2>6
    <2> QED BY <2>5, <2>6, <2>7, <2>8
  <1>9. DrawPlainList = [j \in 1..n |-> s[j]] BY <1>1, <1>2, <1>4, <1>8
  <1>10. /\ cell = <<cell[1], cell[2]>>
         /\ cell[1] \in Nat /\ cell[1] < Alpha
         /\ cell[2] \in 0..(BundleIdxCount - 1)
    BY CellFacts DEF BundleIdx
  <1>11. /\ PackIdx(cell) = cell[1] * BundleIdxCount + cell[2]
         /\ PackIdx(cell) \in Nat
         /\ PackIdx(cell) \div BundleIdxCount = cell[1]
         /\ PackIdx(cell) % BundleIdxCount = cell[2]
    <2>1. PackIdx(cell) = cell[1] * BundleIdxCount + cell[2]
      BY <1>10, Sizes DEF PackIdx
    <2> QED BY <2>1, <1>10, Sizes, Divided
  <1>12. PackIdx(cell) < n
    BY <1>10, <1>11, AlphaIs, Sizes, RowsBelow DEF n
  <1>13. PackIdx(cell) + 1 \in 1..n /\ (PackIdx(cell) + 1) - 1 = PackIdx(cell)
    BY <1>1, <1>11, <1>12
  <1>14. s[PackIdx(cell) + 1] = cell
    BY <1>2, <1>10, <1>11, <1>13
  <1>15. Len(DrawPlainList) = n BY <1>1, <1>9
  <1> QED BY <1>1, <1>9, <1>11, <1>12, <1>13, <1>14, <1>15

-----------------------------------------------------------------------------
(***************************************************************************)
(* The invariant about the contents.  A cell is pending as long as its     *)
(* task has not run, its part is in the channel or a worker has it in      *)
(* hand; no cell is pending twice, and its places in the matrix are        *)
(* written when it ceases to be pending.                                   *)
(***************************************************************************)

\* The parts in the channel, behind the response as long as it is there.
PartIdx == (IF spc = "await" THEN 2 ELSE 1)..Len(to_sender)

CellOf(part) == <<part.cache_idx, part.bundle_idx>>

\* What a part may have for position k: noise, or a mask that is the right
\* one if there are as many caches everywhere.
RightBlock(block, k) ==
  /\ ~ Matches(k) => block = Noise
  /\ Matches(k) /\ SameCaches => block = Mask(CellAt(k), k % ItemsPerBundle)

RightPart(part) ==
  /\ CellOf(part) \in Cells
  /\ \A i \in Slot : RightBlock(part.blocks[i], Position(CellOf(part), i))

InHand(w) == wpc[w] = "copy"

Pending(cell) ==
  \/ cell \in tasks
  \/ \E n \in PartIdx : CellOf(to_sender[n]) = cell
  \/ \E w \in Worker : InHand(w) /\ CellOf(result_part[w]) = cell

Drawn ==
  rpc # "idle" => random_matrix = DrawMatrix /\ random_plain_list = DrawPlainList

Hashed == spc \notin {"start", "failed"} => table \in CuckooTables

\* Parts are right, and no cell is pending twice.
InChannel ==
  \A n \in PartIdx :
    /\ RightPart(to_sender[n])
    /\ CellOf(to_sender[n]) \notin tasks
    /\ \A m \in PartIdx : CellOf(to_sender[n]) = CellOf(to_sender[m]) => n = m

InHands ==
  /\ DOMAIN result_part = Worker
  /\ \A w \in Worker : InHand(w) =>
       /\ RightPart(result_part[w])
       /\ CellOf(result_part[w]) \notin tasks
       /\ \A n \in PartIdx : CellOf(to_sender[n]) # CellOf(result_part[w])
       /\ \A v \in Worker :
            InHand(v) /\ CellOf(result_part[v]) = CellOf(result_part[w]) => v = w

\* Until the workers start, all cells are pending.
AllPending ==
  spc = "await" /\ rpc # "idle" =>
    /\ Head(to_sender).alpha_max_cache_count = Alpha
    /\ \A cell \in Cells : Pending(cell)

Launched == spc \notin {"start", "failed", "await"}

Placed ==
  Launched =>
    /\ DOMAIN decrypt_randoms_matrix = 0..(MatrixSize - 1)
    /\ \A k \in 0..(MatrixSize - 1) :
         IF Present(CellAt(k)) /\ ~ Pending(CellAt(k))
         THEN RightBlock(decrypt_randoms_matrix[k], k)
         ELSE decrypt_randoms_matrix[k] = ZeroBlock

CInv ==
  /\ DbFacts
  /\ Drawn
  /\ Hashed
  /\ InChannel
  /\ InHands
  /\ AllPending
  /\ Placed

-----------------------------------------------------------------------------

\* The values a block may have differ.
LEMMA BlocksDiffer ==
  /\ Noise # ZeroBlock /\ AllOneBlock # ZeroBlock /\ Noise # AllOneBlock
  /\ \A cell, i : /\ Mask(cell, i) # Noise
                  /\ Mask(cell, i) # ZeroBlock
                  /\ Mask(cell, i) # AllOneBlock
  BY DEF Noise, ZeroBlock, AllOneBlock, Mask

\* What depends on the database and the table alone.
LEMMA Frame ==
  ASSUME UNCHANGED <<db, table>>
  PROVE  /\ DbFacts' = DbFacts
         /\ Cells' = Cells
         /\ Alpha' = Alpha
         /\ MatrixSize' = MatrixSize
         /\ SameCaches' = SameCaches
         /\ DrawMatrix' = DrawMatrix
         /\ DrawPlainList' = DrawPlainList
         /\ \A k : Present(CellAt(k))' = Present(CellAt(k))
         /\ \A block, k : RightBlock(block, k)' = RightBlock(block, k)
         /\ \A part : RightPart(part)' = RightPart(part)
  <1> USE DEF Cells, Present, CacheCnt, SameCaches
  <1>1. Cells' = Cells /\ SameCaches' = SameCaches OBVIOUS
  <1>2. Alpha' = Alpha BY DEF Alpha
  <1>3. MatrixSize' = MatrixSize BY <1>2 DEF MatrixSize
  <1>4. \A k : Present(CellAt(k))' = Present(CellAt(k)) BY DEF CellAt
  <1>5. DrawMatrix' = DrawMatrix BY <1>3 DEF DrawMatrix, CellAt
  <1>6. DrawPlainList' = DrawPlainList BY <1>2 DEF DrawPlainList, LoopOrder
  <1>7. DbFacts' = DbFacts BY DEF DbFacts, DbItems
  <1>8. \A block, k : RightBlock(block, k)' = RightBlock(block, k)
    BY DEF RightBlock, Matches, CellAt
  <1>9. \A part : RightPart(part)' = RightPart(part)
    BY <1>1, <1>8 DEF RightPart, CellOf, Position
  <1> QED BY <1>1, <1>2, <1>3, <1>4, <1>5, <1>6, <1>7, <1>8, <1>9

\* A step that leaves the contents alone.
LEMMA QuietCInv ==
  ASSUME CInv,
         UNCHANGED <<db, query, table, random_matrix, random_plain_list, tasks,
                     to_sender, result_part, decrypt_randoms_matrix>>,
         \A w \in Worker : InHand(w)' = InHand(w),
         PartIdx' = PartIdx,
         rpc = "idle" => rpc' = "idle",
         spc' = "await" => spc = "await",
         spc \in {"start", "failed", "await"} => spc' = spc
  PROVE  CInv'
  <1> USE Frame DEF CInv
  <1>1. \A cell : Pending(cell)' = Pending(cell) BY DEF Pending, CellOf
  <1>2. Drawn' BY DEF Drawn
  <1>3. Hashed' BY DEF Hashed, CuckooTables
  <1>4. InChannel' BY DEF InChannel, CellOf
  <1>5. InHands' BY DEF InHands, CellOf
  <1>6. AllPending' BY <1>1 DEF AllPending
  <1>7. Placed' BY <1>1 DEF Placed, Launched
  <1> QED BY <1>2, <1>3, <1>4, <1>5, <1>6, <1>7

\* Waiting, claiming and comparing leave the contents alone.
LEMMA QuietSteps ==
  ASSUME IInv, CInv,
         \/ TasksDone \/ WorkersDone \/ PrivateEqualityTest
         \/ ShuffleMessages \/ ShuffleOutOfRange
         \/ \E w \in Worker : LoadCount(w) \/ ClaimPackage(w)
         \/ UNCHANGED vars
  PROVE  CInv'
  <1> USE DEF receiverVars, workerVars, senderVars, InHand, PartIdx
  <1>1. CASE TasksDone BY <1>1, QuietCInv DEF TasksDone
  <1>2. CASE WorkersDone BY <1>2, QuietCInv DEF WorkersDone
  <1>3. CASE PrivateEqualityTest BY <1>3, QuietCInv DEF PrivateEqualityTest
  <1>4. CASE ShuffleMessages BY <1>4, QuietCInv DEF ShuffleMessages
  <1>5. CASE ShuffleOutOfRange BY <1>5, QuietCInv DEF ShuffleOutOfRange
  <1>6. ASSUME NEW w \in Worker, LoadCount(w) PROVE CInv'
    BY <1>6, QuietCInv DEF LoadCount, MoveTo, IInv, CountsOK
  <1>7. ASSUME NEW w \in Worker, ClaimPackage(w) PROVE CInv'
    BY <1>7, QuietCInv DEF ClaimPackage, MoveTo, IInv, CountsOK
  <1>8. CASE UNCHANGED vars BY <1>8, QuietCInv DEF vars
  <1> QED BY <1>1, <1>2, <1>3, <1>4, <1>5, <1>6, <1>7, <1>8

\* Nothing is pending before the receiver starts.
LEMMA NothingPending ==
  ASSUME IInv, rpc = "idle"
  PROVE  /\ tasks = {}
         /\ to_sender = <<>>
         /\ \A w \in Worker : ~ InHand(w)
         /\ ~ Launched
  BY DEF IInv, Stages, Idle, InHand, Launched

\* No part has been made yet.
LEMMA InitCInv == Init => CInv
  <1> SUFFICES ASSUME Init PROVE CInv OBVIOUS
  <1>1. DbFacts BY DatabasesFacts DEF Init
  <1>2. PartIdx = {} BY DEF Init, PartIdx
  <1>3. Drawn /\ Hashed /\ AllPending /\ Placed
    BY DEF Init, Drawn, Hashed, AllPending, Placed, Launched
  <1>4. InChannel BY <1>2 DEF InChannel
  <1>5. InHands BY DEF Init, InHands, InHand
  <1> QED BY <1>1, <1>3, <1>4, <1>5 DEF CInv

\* The sender makes its table.
LEMMA CreateQueryCInv ==
  ASSUME IInv, CInv, CreateQuery \/ CuckooFails
  PROVE  CInv'
  <1>1. /\ spc = "start" /\ spc' \in {"await", "failed"}
        /\ UNCHANGED <<db, query, rpc, random_matrix, random_plain_list, tasks,
                       to_sender, wpc, result_part>>
        /\ spc' = "await" => table' \in CuckooTables
    BY DEF CreateQuery, CuckooFails, receiverVars, workerVars
  <1>2. rpc = "idle" BY <1>1 DEF IInv, Stages
  <1>3. /\ tasks' = {} /\ to_sender' = <<>>
        /\ \A w \in Worker : ~ InHand(w)'
    BY <1>1, <1>2, NothingPending DEF InHand
  <1>4. PartIdx' = {} BY <1>1, <1>3 DEF PartIdx
  <1>5. DbFacts'
    BY <1>1 DEF CInv, DbFacts, DbItems, Cells, Present, CacheCnt, SameCaches
  <1>6. Hashed' BY <1>1 DEF Hashed, CuckooTables
  <1>7. InChannel' /\ InHands' BY <1>1, <1>3, <1>4 DEF CInv, InChannel, InHands
  <1>8. Drawn' /\ AllPending' /\ Placed'
    BY <1>1, <1>2 DEF Drawn, AllPending, Placed, Launched
  <1> QED BY <1>5, <1>6, <1>7, <1>8 DEF CInv

\* The response is sent, the masks are drawn, and every cell has a task.
LEMMA RunQueryCInv ==
  ASSUME IInv, CInv, RunQuery
  PROVE  CInv'
  <1> DEFINE response == [type |-> "response", package_count |-> PartCount,
                          alpha_max_cache_count |-> Alpha]
  <1>1. /\ rpc = "idle" /\ rpc' = "fanout" /\ spc = "await" /\ spc' = spc
        /\ to_sender' = Append(to_sender, response)
        /\ random_matrix' = DrawMatrix
        /\ random_plain_list' = DrawPlainList
        /\ tasks' = Cells
        /\ UNCHANGED <<db, query, table, wpc, result_part>>
    BY DEF RunQuery, senderVars, workerVars
  <1>2. to_sender' = <<response>> /\ \A w \in Worker : ~ InHand(w)'
    BY <1>1, NothingPending DEF InHand
  <1>3. PartIdx' = {}
    <2>1. Len(to_sender') = 1 BY <1>2
    <2> QED BY <1>1, <2>1 DEF PartIdx
  <1>4. DbFacts' /\ Drawn' BY <1>1, Frame DEF CInv, Drawn
  <1>5. Hashed' BY <1>1 DEF CInv, Hashed, CuckooTables
  <1>6. InChannel' /\ InHands' BY <1>1, <1>2, <1>3 DEF CInv, InChannel, InHands
  <1>7. AllPending' BY <1>1, <1>2, Frame DEF AllPending, Pending
  <1>8. Placed' BY <1>1 DEF Placed, Launched
  <1> QED BY <1>4, <1>5, <1>6, <1>7, <1>8 DEF CInv

\* What a task sends is right: its own blocks, under its own mask if there are
\* as many caches everywhere.
LEMMA ResultRight ==
  ASSUME DbFacts, NEW cell \in Cells, NEW mask, SameCaches => mask = cell
  PROVE  /\ CellOf(ResultPart(cell, mask)) = cell
         /\ RightPart(ResultPart(cell, mask))
  <1> DEFINE part == ResultPart(cell, mask)
  <1>1. CellOf(part) = cell BY CellFacts DEF CellOf, ResultPart
  <1>2. ASSUME NEW i \in Slot
        PROVE  RightBlock(part.blocks[i], Position(cell, i))
    <2> DEFINE k == Position(cell, i)
    <2>1. k \in Nat /\ CellAt(k) = cell /\ k % ItemsPerBundle = i
      BY CellFacts, AlphaIs
    <2>2. k % ItemCnt = cell[2] * ItemsPerBundle + i BY <2>1, PositionParts
    <2> HIDE DEF k
    <2>3. Matches(k) <=> table[cell[2] * ItemsPerBundle + i]
                           \in db[cell[2]][cell[1] + 1][i]
      BY <2>1, <2>2, CellFacts DEF Matches
    <2>4. part.blocks[i] = IF table[cell[2] * ItemsPerBundle + i]
                                \in db[cell[2]][cell[1] + 1][i]
                           THEN Mask(mask, i) ELSE Noise
      BY DEF ResultPart
    <2> QED BY <2>1, <2>3, <2>4 DEF RightBlock, k
  <1> QED BY <1>1, <1>2 DEF RightPart

\* The task of a cell sends its part.
LEMMA SendCInv ==
  ASSUME IInv, CInv, NEW cell \in tasks, NEW mask,
         SameCaches => mask = cell,
         to_sender' = Append(to_sender, ResultPart(cell, mask)),
         tasks' = tasks \ {cell},
         rpc = "fanout", rpc' = rpc,
         UNCHANGED <<db, query, random_matrix, random_plain_list, senderVars>>
  PROVE  CInv'
  <1> DEFINE part == ResultPart(cell, mask)
             last == Len(to_sender) + 1
  <1> USE Frame DEF CInv
  <1>1. UNCHANGED <<spc, table, wpc, result_part, decrypt_randoms_matrix>>
    BY DEF senderVars, workerVars
  <1>2. cell \in Cells BY DEF IInv, CountsOK
  <1>3. CellOf(part) = cell /\ RightPart(part) BY <1>2, ResultRight
  <1> HIDE DEF part
  <1>4. PICK S : to_sender \in Seq(S) BY DEF IInv, CountsOK
  <1>5. /\ Len(to_sender) \in Nat
        /\ Len(to_sender') = last
        /\ \A n \in 1..Len(to_sender) : to_sender'[n] = to_sender[n]
        /\ to_sender'[last] = part
    BY <1>4 DEF part
  <1>6. /\ PartIdx \subseteq 1..Len(to_sender)
        /\ PartIdx' = PartIdx \union {last}
        /\ last \notin PartIdx
    <2>1. spc = "await" => Len(to_sender) # 0
      BY <1>4 DEF IInv, Announced
    <2> QED BY <1>1, <1>5, <2>1 DEF PartIdx
  <1>7. \A w \in Worker : InHand(w)' = InHand(w) BY <1>1 DEF InHand
  <1>8. \A c \in Cells : Pending(c)' <=> Pending(c)
    BY <1>1, <1>3, <1>5, <1>6, <1>7 DEF Pending, CellOf
  <1>9. Drawn' /\ Hashed' BY <1>1 DEF Drawn, Hashed, CuckooTables
  <1>10. InChannel'
    BY <1>1, <1>3, <1>5, <1>6 DEF InChannel, CellOf
  <1>11. InHands'
    BY <1>1, <1>3, <1>5, <1>6, <1>7 DEF InHands, CellOf
  <1>12. AllPending'
    <2>1. spc = "await" => Head(to_sender') = Head(to_sender)
      BY <1>4, <1>5, AppendMessage DEF IInv, Announced, part
    <2> QED BY <1>1, <1>8, <2>1 DEF AllPending
  <1>13. Placed'
    BY <1>1, <1>8, CellFacts DEF Placed, Launched
  <1> QED BY <1>1, <1>9, <1>10, <1>11, <1>12, <1>13

\* A task finds the mask of its own cell, or sends noise, or takes the process
\* down with it; the last two only if caches are uneven.
LEMMA ProcessCInv ==
  ASSUME IInv, CInv, NEW cell \in tasks,
         ProcessBinBundleCache(cell) \/ ProcessOutOfRange(cell)
  PROVE  CInv'
  <1>1. cell \in Cells /\ DbFacts /\ rpc = "fanout"
    BY DEF IInv, CountsOK, CInv, ProcessBinBundleCache, ProcessOutOfRange
  <1>2. SameCaches => /\ PackIdx(cell) < Len(random_plain_list)
                      /\ random_plain_list[PackIdx(cell) + 1] = cell
    BY <1>1, PackIdxRight DEF CInv, Drawn
  <1>3. CASE ProcessBinBundleCache(cell)
    BY <1>2, <1>3, SendCInv DEF ProcessBinBundleCache
  <1>4. CASE ProcessOutOfRange(cell)
    <2>1. ~ SameCaches
      <3>1. SameCaches => /\ Len(random_plain_list) \in Nat
                          /\ PackIdx(cell) \in Nat
        BY <1>1, PackIdxRight DEF CInv, Drawn
      <3> QED BY <1>2, <1>4, <3>1 DEF ProcessOutOfRange
    <2>2. CASE rpc' = "crashed" /\ UNCHANGED <<to_sender, tasks>>
      BY <1>1, <1>4, <2>2, QuietCInv
         DEF ProcessOutOfRange, senderVars, workerVars, InHand, PartIdx
    <2>3. CASE /\ to_sender' = Append(to_sender, ResultPart(cell, NoiseCell))
               /\ tasks' = tasks \ {cell}
               /\ rpc' = rpc
      BY <1>1, <1>4, <2>1, <2>3, SendCInv DEF ProcessOutOfRange
    <2> QED BY <1>4, <2>2, <2>3 DEF ProcessOutOfRange
  <1> QED BY <1>3, <1>4

\* The matrix starts out with zero blocks, and all parts are still to come.
LEMMA LaunchCInv ==
  ASSUME IInv, CInv, LaunchWorkers
  PROVE  CInv'
  <1> USE Frame DEF CInv
  <1>1. /\ spc = "await" /\ spc' = "collect"
        /\ to_sender # <<>>
        /\ to_sender' = Tail(to_sender)
        /\ decrypt_randoms_matrix' =
             [k \in 0..(Head(to_sender).alpha_max_cache_count * ItemCnt - 1) |->
                ZeroBlock]
        /\ \A w \in Worker : wpc'[w] \in {"load", "off"}
        /\ UNCHANGED <<db, query, rpc, random_matrix, random_plain_list, tasks,
                       table, result_part>>
    BY DEF LaunchWorkers, receiverVars
  <1>2. rpc # "idle" BY <1>1, NothingPending
  <1>3. PICK S : to_sender \in Seq(S) BY DEF IInv, CountsOK
  <1>4. /\ Len(to_sender) \in Nat \ {0}
        /\ Len(to_sender') = Len(to_sender) - 1
        /\ \A n \in 1..Len(to_sender') : to_sender'[n] = to_sender[n + 1]
    BY <1>1, <1>3
  <1>5. /\ \A n \in PartIdx' : n \in Nat /\ n + 1 \in PartIdx
                               /\ to_sender'[n] = to_sender[n + 1]
        /\ \A n \in PartIdx : n \in Nat /\ n - 1 \in PartIdx'
                              /\ to_sender[n] = to_sender'[n - 1]
    BY <1>1, <1>4 DEF PartIdx
  <1>6. \A w \in Worker : ~ InHand(w) /\ ~ InHand(w)'
    BY <1>1 DEF InHand, IInv, Stages, Idle
  <1>7. ASSUME NEW cell \in Cells
        PROVE  Pending(cell)'
    <2>1. Pending(cell) BY <1>1, <1>2 DEF AllPending
    <2>2. ASSUME NEW n \in PartIdx, CellOf(to_sender[n]) = cell
          PROVE  \E m \in PartIdx' : CellOf(to_sender[m])' = cell
      <3>1. n - 1 \in PartIdx' /\ to_sender'[n - 1] = to_sender[n] BY <1>5
      <3> QED BY <2>2, <3>1 DEF CellOf
    <2> QED BY <1>1, <1>6, <2>1, <2>2 DEF Pending
  <1>8. Drawn' /\ Hashed' BY <1>1, <1>2 DEF Drawn, Hashed, CuckooTables
  <1>9. InChannel'
    <2> SUFFICES ASSUME NEW n \in PartIdx'
                 PROVE  /\ RightPart(to_sender[n])'
                        /\ CellOf(to_sender[n])' \notin tasks'
                        /\ \A m \in PartIdx' :
                             CellOf(to_sender[n])' = CellOf(to_sender[m])' => n = m
      BY DEF InChannel
    <2>1. n + 1 \in PartIdx /\ to_sender'[n] = to_sender[n + 1] BY <1>5
    <2>2. RightPart(to_sender[n + 1]) /\ CellOf(to_sender[n + 1]) \notin tasks
      BY <2>1 DEF InChannel
    <2>3. ASSUME NEW m \in PartIdx', CellOf(to_sender[n])' = CellOf(to_sender[m])'
          PROVE  n = m
      <3>1. m + 1 \in PartIdx /\ to_sender'[m] = to_sender[m + 1] /\ m \in Nat
        BY <1>5
      <3>2. n + 1 = m + 1 BY <2>1, <2>3, <3>1 DEF InChannel, CellOf
      <3> QED BY <3>1, <3>2, <1>5
    <2> QED BY <1>1, <2>1, <2>2, <2>3 DEF CellOf
  <1>10. InHands' BY <1>1, <1>6 DEF InHands
  <1>11. AllPending' BY <1>1 DEF AllPending
  <1>12. Placed'
    <2>1. MatrixSize = Head(to_sender).alpha_max_cache_count * ItemCnt
      BY <1>1, <1>2 DEF AllPending, MatrixSize
    <2> QED BY <1>1, <1>7, <2>1, CellFacts, AlphaIs DEF Placed
  <1> QED BY <1>1, <1>8, <1>9, <1>10, <1>11, <1>12

\* A part goes from the channel into the hands of a worker.
LEMMA ReceiveCInv ==
  ASSUME IInv, CInv, NEW w \in Worker, ReceiveResult(w)
  PROVE  CInv'
  <1> DEFINE part == Head(to_sender)
  <1> USE Frame DEF CInv
  <1>1. /\ wpc[w] = "receive" /\ wpc' = [wpc EXCEPT ![w] = "copy"]
        /\ to_sender # <<>>
        /\ result_part' = [result_part EXCEPT ![w] = part]
        /\ to_sender' = Tail(to_sender)
        /\ UNCHANGED <<db, query, rpc, spc, random_matrix, random_plain_list,
                       tasks, table, decrypt_randoms_matrix>>
    BY DEF ReceiveResult, MoveTo, receiverVars
  <1>2. spc = "collect" BY <1>1 DEF IInv, Stages, Idle
  <1>3. PICK S : to_sender \in Seq(S) BY DEF IInv, CountsOK
  <1>4. /\ Len(to_sender) \in Nat \ {0}
        /\ Len(to_sender') = Len(to_sender) - 1
        /\ \A n \in 1..Len(to_sender') : to_sender'[n] = to_sender[n + 1]
        /\ to_sender[1] = part
    BY <1>1, <1>3
  <1>5. /\ \A n \in PartIdx' : n \in Nat \ {0} /\ n + 1 \in PartIdx
                               /\ to_sender'[n] = to_sender[n + 1]
        /\ \A n \in PartIdx \ {1} : n \in Nat /\ n - 1 \in PartIdx'
                                    /\ to_sender[n] = to_sender'[n - 1]
        /\ 1 \in PartIdx
    BY <1>1, <1>2, <1>4 DEF PartIdx
  <1> HIDE DEF part
  <1>6. /\ InHand(w)' /\ ~ InHand(w)
        /\ result_part'[w] = part
        /\ \A v \in Worker \ {w} : /\ InHand(v)' = InHand(v)
                                   /\ result_part'[v] = result_part[v]
    BY <1>1 DEF InHand, IInv, CountsOK, InHands
  <1>7. /\ RightPart(part)
        /\ CellOf(part) \notin tasks
        /\ \A n \in PartIdx : CellOf(to_sender[n]) = CellOf(part) => n = 1
    BY <1>4, <1>5 DEF InChannel, CellOf
  <1>8. ASSUME NEW cell \in Cells
        PROVE  Pending(cell)' <=> Pending(cell)
    <2>1. ASSUME NEW n \in PartIdx, CellOf(to_sender[n]) = cell
          PROVE  Pending(cell)'
      <3>1. CASE n = 1 BY <1>4, <1>6, <2>1, <3>1 DEF Pending, CellOf
      <3>2. CASE n # 1
        <4>1. n - 1 \in PartIdx' /\ to_sender'[n - 1] = to_sender[n] BY <1>5, <3>2
        <4> QED BY <2>1, <4>1 DEF Pending, CellOf
      <3> QED BY <3>1, <3>2
    <2>2. ASSUME NEW n \in PartIdx', CellOf(to_sender[n])' = cell
          PROVE  Pending(cell)
      <3>1. n + 1 \in PartIdx /\ to_sender'[n] = to_sender[n + 1] BY <1>5
      <3> QED BY <2>2, <3>1 DEF Pending, CellOf
    <2>3. ASSUME NEW v \in Worker, InHand(v), CellOf(result_part[v]) = cell
          PROVE  Pending(cell)'
      BY <1>6, <2>3 DEF Pending, CellOf
    <2>4. ASSUME NEW v \in Worker, InHand(v)', CellOf(result_part[v])' = cell
          PROVE  Pending(cell)
      <3>1. CASE v = w BY <1>4, <1>5, <1>6, <2>4, <3>1 DEF Pending, CellOf
      <3>2. CASE v # w BY <1>6, <2>4, <3>2 DEF Pending, CellOf
      <3> QED BY <3>1, <3>2
    <2> QED BY <1>1, <2>1, <2>2, <2>3, <2>4 DEF Pending
  <1>9. Drawn' /\ Hashed' BY <1>1 DEF Drawn, Hashed, CuckooTables
  <1>10. InChannel'
    <2> SUFFICES ASSUME NEW n \in PartIdx'
                 PROVE  /\ RightPart(to_sender[n])'
                        /\ CellOf(to_sender[n])' \notin tasks'
                        /\ \A m \in PartIdx' :
                             CellOf(to_sender[n])' = CellOf(to_sender[m])' => n = m
      BY DEF InChannel
    <2>1. n + 1 \in PartIdx /\ to_sender'[n] = to_sender[n + 1] BY <1>5
    <2>2. RightPart(to_sender[n + 1]) /\ CellOf(to_sender[n + 1]) \notin tasks
      BY <2>1 DEF InChannel
    <2>3. ASSUME NEW m \in PartIdx', CellOf(to_sender[n])' = CellOf(to_sender[m])'
          PROVE  n = m
      <3>1. m + 1 \in PartIdx /\ to_sender'[m] = to_sender[m + 1] /\ m \in Nat
        BY <1>5
      <3>2. n + 1 = m + 1 BY <2>1, <2>3, <3>1 DEF InChannel, CellOf
      <3> QED BY <3>1, <3>2, <1>5
    <2> QED BY <1>1, <2>1, <2>2, <2>3 DEF CellOf
  <1>11. InHands'
    <2>1. DOMAIN result_part' = Worker BY <1>1 DEF InHands
    <2>2. ASSUME NEW v \in Worker, InHand(v)'
          PROVE  RightPart(result_part[v])' /\ CellOf(result_part[v])' \notin tasks'
      BY <1>1, <1>6, <1>7, <2>2 DEF InHands, CellOf
    <2>3. ASSUME NEW v \in Worker, InHand(v)', NEW n \in PartIdx'
          PROVE  CellOf(to_sender[n])' # CellOf(result_part[v])'
      <3>1. n + 1 \in PartIdx /\ to_sender'[n] = to_sender[n + 1] /\ n + 1 # 1
        BY <1>5
      <3>2. CASE v = w
        <4>1. CellOf(to_sender[n + 1]) # CellOf(part) BY <1>7, <3>1
        <4>2. result_part'[v] = part BY <1>6, <3>2
        <4> QED BY <3>1, <4>1, <4>2 DEF CellOf
      <3>3. CASE v # w
        <4>1. InHand(v) /\ result_part'[v] = result_part[v] BY <1>6, <2>3, <3>3
        <4>2. CellOf(to_sender[n + 1]) # CellOf(result_part[v]) BY <1>1, <3>1, <4>1 DEF InHands
        <4> QED BY <3>1, <4>1, <4>2 DEF CellOf
      <3> QED BY <3>2, <3>3
    <2>4. ASSUME NEW v \in Worker, InHand(v)', NEW u \in Worker, InHand(u)',
                 CellOf(result_part[u])' = CellOf(result_part[v])'
          PROVE  u = v
      <3>1. \A x \in Worker \ {w} : InHand(x) =>
              CellOf(part) # CellOf(result_part[x])
        BY <1>4, <1>5 DEF InHands
      <3> QED BY <1>6, <2>4, <3>1 DEF InHands, CellOf
    <2> QED BY <2>1, <2>2, <2>3, <2>4 DEF InHands
  <1>12. AllPending' BY <1>1, <1>2 DEF AllPending
  <1>13. Placed' BY <1>1, <1>8, CellFacts DEF Placed, Launched
  <1> QED BY <1>1, <1>9, <1>10, <1>11, <1>12, <1>13

\* The places of a part in hand are still empty, and become right.
LEMMA CopyPlaces ==
  ASSUME IInv, CInv, NEW w \in Worker, CopyResult(w)
  PROVE  LET cell == CellOf(result_part[w])
         IN  /\ cell \in Cells
             /\ Pending(cell)
             /\ \A k \in 0..(MatrixSize - 1) :
                  /\ CellAt(k) = cell =>
                       /\ k % ItemsPerBundle \in Slot
                       /\ k = Position(cell, k % ItemsPerBundle)
                       /\ decrypt_randoms_matrix'[k]
                            = result_part[w].blocks[k % ItemsPerBundle]
                  /\ CellAt(k) # cell =>
                       decrypt_randoms_matrix'[k] = decrypt_randoms_matrix[k]
             /\ DOMAIN decrypt_randoms_matrix' = 0..(MatrixSize - 1)
             /\ DOMAIN decrypt_randoms_matrix = 0..(MatrixSize - 1)
  <1> DEFINE cell == CellOf(result_part[w])
             start == Position(cell, 0)
  <1>1. /\ wpc[w] = "copy"
        /\ decrypt_randoms_matrix' =
             [k \in DOMAIN decrypt_randoms_matrix |->
                IF k - start \in Slot THEN result_part[w].blocks[k - start]
                ELSE decrypt_randoms_matrix[k]]
    BY DEF CopyResult, CellOf
  <1>2. DOMAIN decrypt_randoms_matrix = 0..(MatrixSize - 1)
    <2>1. Launched BY <1>1 DEF Launched, IInv, Stages, Idle
    <2> QED BY <2>1 DEF CInv, Placed
  <1>3. cell \in Cells BY <1>1 DEF CInv, InHands, InHand, RightPart
  <1>4. Pending(cell) BY <1>1 DEF Pending, InHand
  <1>5. DbFacts BY DEF CInv
  <1> HIDE DEF cell
  <1>6. start \in Nat /\ start \in 0..(MatrixSize - 1)
    <2>1. 0 \in Slot BY Sizes DEF Slot
    <2> QED BY <1>3, <1>5, <2>1, CellFacts, AlphaIs
  <1>7. ASSUME NEW k \in 0..(MatrixSize - 1)
        PROVE  /\ CellAt(k) = cell =>
                    /\ k % ItemsPerBundle \in Slot
                    /\ k = Position(cell, k % ItemsPerBundle)
                    /\ k - start = k % ItemsPerBundle
               /\ k - start \in Slot => CellAt(k) = cell
    <2>1. k \in Nat BY <1>5, AlphaIs
    <2>2. CASE CellAt(k) = cell
      BY <1>3, <1>5, <1>6, <2>1, <2>2, PositionParts, CellFacts DEF Slot
    <2>3. CASE k - start \in Slot
      <3>1. Position(cell, k - start) = start + (k - start)
        BY <1>3, <1>5, <2>3, CellFacts
      <3>2. Position(cell, k - start) = k BY <1>6, <2>1, <3>1
      <3> QED BY <1>3, <1>5, <2>3, <3>2, CellFacts
    <2> QED BY <2>2, <2>3
  <1> HIDE DEF start
  <1> QED BY <1>1, <1>2, <1>3, <1>4, <1>7 DEF cell

\* A part in hand goes to its places in the matrix.
LEMMA CopyCInv ==
  ASSUME IInv, CInv, NEW w \in Worker, CopyResult(w)
  PROVE  CInv'
  <1> DEFINE cell == CellOf(result_part[w])
  <1> USE Frame DEF CInv
  <1>1. /\ wpc[w] = "copy" /\ wpc' = [wpc EXCEPT ![w] = "load"]
        /\ result_part' = [result_part EXCEPT ![w] = <<>>]
        /\ UNCHANGED <<db, query, rpc, spc, random_matrix, random_plain_list,
                       tasks, table, to_sender>>
    BY DEF CopyResult, MoveTo, receiverVars
  <1>2. /\ InHand(w) /\ ~ InHand(w)'
        /\ \A v \in Worker \ {w} : /\ InHand(v)' = InHand(v)
                                   /\ result_part'[v] = result_part[v]
    BY <1>1 DEF InHand, IInv, CountsOK, InHands
  <1>3. PartIdx' = PartIdx BY <1>1 DEF PartIdx
  <1>4. \A c : Pending(c)' <=> Pending(c) /\ c # cell
    BY <1>1, <1>2, <1>3 DEF Pending, CellOf, InHands
  <1>5. Drawn' /\ Hashed' BY <1>1 DEF Drawn, Hashed, CuckooTables
  <1>6. InChannel' BY <1>1, <1>3 DEF InChannel, CellOf
  <1>7. InHands'
    <2>1. DOMAIN result_part' = Worker BY <1>1 DEF InHands
    <2> QED BY <1>1, <1>2, <1>3, <2>1 DEF InHands, CellOf
  <1>8. AllPending'
    <2>1. spc = "collect" BY <1>1 DEF IInv, Stages, Idle
    <2> QED BY <1>1, <2>1 DEF AllPending
  <1>9. Placed'
    <2>1. Launched BY <1>1 DEF Launched, IInv, Stages, Idle
    <2>2. DOMAIN decrypt_randoms_matrix' = 0..(MatrixSize - 1) BY CopyPlaces
    <2>3. RightPart(result_part[w]) /\ cell \in Cells
      BY <1>2 DEF InHands, RightPart
    <2>4. ASSUME NEW k \in 0..(MatrixSize - 1)
          PROVE  IF Present(CellAt(k)) /\ ~ Pending(CellAt(k))'
                 THEN RightBlock(decrypt_randoms_matrix'[k], k)
                 ELSE decrypt_randoms_matrix'[k] = ZeroBlock
      <3>1. CASE CellAt(k) = cell
        <4>1. /\ k % ItemsPerBundle \in Slot
              /\ k = Position(cell, k % ItemsPerBundle)
              /\ decrypt_randoms_matrix'[k]
                   = result_part[w].blocks[k % ItemsPerBundle]
          BY <3>1, CopyPlaces
        <4>2. RightBlock(decrypt_randoms_matrix'[k], k)
          BY <2>3, <4>1 DEF RightPart
        <4>3. Present(CellAt(k)) BY <2>3, <3>1 DEF Cells
        <4> QED BY <1>4, <3>1, <4>2, <4>3
      <3>2. CASE CellAt(k) # cell
        <4>1. decrypt_randoms_matrix'[k] = decrypt_randoms_matrix[k]
          BY <3>2, CopyPlaces
        <4> QED BY <1>4, <2>1, <3>2, <4>1 DEF Placed
      <3> QED BY <3>1, <3>2
    <2> HIDE DEF CInv
    <2> QED BY <1>1, <2>2, <2>4 DEF Placed
  <1> QED BY <1>1, <1>5, <1>6, <1>7, <1>8, <1>9

-----------------------------------------------------------------------------

\* The invariant about the contents is inductive, given the one about counts.
LEMMA NextCInv == IInv /\ CInv /\ [Next]_vars => CInv'
  <1> SUFFICES ASSUME IInv, CInv, [Next]_vars PROVE CInv' OBVIOUS
  <1>1. CASE ReceiverStep
    BY <1>1, RunQueryCInv, ProcessCInv, QuietSteps DEF ReceiverStep
  <1>2. CASE SenderStep
    BY <1>2, CreateQueryCInv, LaunchCInv, QuietSteps DEF SenderStep
  <1>3. CASE \E w \in Worker : WorkerStep(w)
    BY <1>3, ReceiveCInv, CopyCInv, QuietSteps DEF WorkerStep
  <1>4. CASE UNCHANGED vars BY <1>4, QuietSteps
  <1> QED BY <1>1, <1>2, <1>3, <1>4 DEF Next

\* The contents are always right.
LEMMA Contents == Spec => []CInv
  BY InitCInv, NextCInv, Invariance, PTL DEF Spec

\* When everything is received, no cell is pending.
LEMMA NonePending ==
  ASSUME IInv, Collected
  PROVE  \A cell : ~ Pending(cell)
  <1>1. /\ tasks = {}
        /\ to_sender = <<>>
        /\ \A w \in Worker : wpc[w] # "copy"
    BY DEF IInv, AllReceived
  <1>2. spc # "await" BY DEF Collected
  <1>3. PartIdx = {}
    <2>1. Len(to_sender) = 0 BY <1>1
    <2> QED BY <1>2, <2>1 DEF PartIdx
  <1> QED BY <1>1, <1>3 DEF Pending, InHand

\* What is in the matrix then.
LEMMA MatrixThen ==
  ASSUME IInv, CInv, Collected, NEW k \in 0..(MatrixSize - 1)
  PROVE  /\ k \in Nat
         /\ Present(CellAt(k)) => RightBlock(decrypt_randoms_matrix[k], k)
         /\ ~ Present(CellAt(k)) => decrypt_randoms_matrix[k] = ZeroBlock
         /\ DOMAIN decrypt_randoms_matrix = 0..(MatrixSize - 1)
  <1>1. Launched BY DEF Collected, Launched
  <1>2. k \in Nat BY AlphaIs DEF CInv
  <1> QED BY <1>1, <1>2, NonePending DEF CInv, Placed

\* Once written, a place is not written again.
LEMMA OnceWritten ==
  ASSUME IInv, CInv, Next, spc = "collect",
         NEW k \in DOMAIN decrypt_randoms_matrix,
         decrypt_randoms_matrix[k] # ZeroBlock
  PROVE  decrypt_randoms_matrix'[k] = decrypt_randoms_matrix[k]
  <1>1. CASE ReceiverStep
    BY <1>1 DEF ReceiverStep, RunQuery, ProcessBinBundleCache,
                ProcessOutOfRange, TasksDone, senderVars, workerVars
  <1>2. CASE SenderStep
    BY <1>2 DEF SenderStep, CreateQuery, CuckooFails, LaunchWorkers, WorkersDone,
                PrivateEqualityTest, ShuffleMessages, ShuffleOutOfRange, workerVars
  <1>3. ASSUME NEW w \in Worker, WorkerStep(w)
        PROVE  decrypt_randoms_matrix'[k] = decrypt_randoms_matrix[k]
    <2>1. CASE LoadCount(w) \/ ClaimPackage(w) \/ ReceiveResult(w)
      BY <2>1 DEF LoadCount, ClaimPackage, ReceiveResult
    <2>2. CASE CopyResult(w)
      <3>1. k \in 0..(MatrixSize - 1) BY <2>2, CopyPlaces
      <3>2. Launched BY DEF Launched
      <3>3. ~ Pending(CellAt(k)) BY <3>1, <3>2 DEF CInv, Placed
      <3>4. CellAt(k) # CellOf(result_part[w]) BY <2>2, <3>3, CopyPlaces
      <3> QED BY <2>2, <3>1, <3>4, CopyPlaces
    <2> QED BY <1>3, <2>1, <2>2 DEF WorkerStep
  <1>4. CASE UNCHANGED vars BY <1>4 DEF vars, senderVars, workerVars
  <1> QED BY <1>1, <1>2, <1>3, <1>4 DEF Next

(***************************************************************************)
(* For every table, database, query and number of threads: the workers of  *)
(* process_result_worker never write a place twice, and together they fill *)
(* in the receiver's mask where an item matches, and only there.           *)
(***************************************************************************)
THEOREM Written == Spec => MatrixWritten
  <1>1. IInv /\ CInv => MatrixComplete
    <2> SUFFICES ASSUME IInv, CInv, Collected, SameCaches,
                        NEW k \in 0..(MatrixSize - 1)
                 PROVE  /\ (decrypt_randoms_matrix[k] = ZeroBlock) <=> ~ Present(CellAt(k))
                        /\ (decrypt_randoms_matrix[k] = Mask(CellAt(k), k % ItemsPerBundle))
                             <=> Matches(k)
      BY DEF MatrixComplete
    <2>1. Matches(k) => Present(CellAt(k)) BY DEF Matches
    <2> QED BY <2>1, MatrixThen, BlocksDiffer DEF RightBlock
  <1>2. IInv /\ CInv /\ [Next]_vars =>
          [spc = "collect" =>
             \A k \in DOMAIN decrypt_randoms_matrix :
               decrypt_randoms_matrix[k] # ZeroBlock =>
                 decrypt_randoms_matrix'[k] = decrypt_randoms_matrix[k]]_vars
    BY OnceWritten
  <1> QED BY <1>1, <1>2, Invariance, Contents, PTL
          DEF Spec, MatrixWritten, WrittenOnce

-----------------------------------------------------------------------------
(* The equality test.                                                      *)

\* The places that match, and what the receiver has got if it was told of
\* some of them under the two shuffles.
AllMatches == {k \in 0..(MatrixSize - 1) : Matches(k)}

HitsOf(matched, row_map, column_map) ==
  {<<row_map[k \div ItemCnt], column_map[k % ItemCnt]>> : k \in matched}

TestResult(row_map, column_map, matched) ==
  /\ row_map \in Shuffles(Alpha) /\ column_map \in Shuffles(ItemCnt)
  /\ matched \subseteq AllMatches
  /\ SameCaches => matched = AllMatches
  /\ permutation = PermutationMap(row_map, column_map)
  /\ ans = HitsOf(matched, row_map, column_map)

(***************************************************************************)
(* After the test, the receiver has matches only, under the sender's       *)
(* shuffles, and all of them if there are as many caches everywhere.       *)
(***************************************************************************)
Tested ==
  /\ query \subseteq Item
  /\ rpc = "done" <=> spc \in {"shuffle", "done", "crashed"}
  /\ rpc # "done" => ans = {}
  /\ rpc = "done" =>
       \E row_map, column_map, matched : TestResult(row_map, column_map, matched)
  /\ spc = "done" /\ ShuffleInRange => shuffleMessages = Shuffled

\* Both matrices agree at matches only.
LEMMA EqualMatches ==
  ASSUME IInv, CInv, Collected, rpc # "idle", NEW k \in 0..(MatrixSize - 1)
  PROVE  /\ random_matrix[k] = decrypt_randoms_matrix[k] => Matches(k)
         /\ SameCaches /\ Matches(k) =>
              random_matrix[k] = decrypt_randoms_matrix[k]
  <1>1. random_matrix[k] = IF Present(CellAt(k))
                           THEN Mask(CellAt(k), k % ItemsPerBundle)
                           ELSE AllOneBlock
    BY DEF CInv, Drawn, DrawMatrix, Padding
  <1>2. Matches(k) => Present(CellAt(k)) BY DEF Matches
  <1> QED BY <1>1, <1>2, MatrixThen, BlocksDiffer DEF RightBlock

\* The test is right.
LEMMA TestTested ==
  ASSUME IInv, CInv, Tested, PrivateEqualityTest
  PROVE  Tested'
  <1>1. /\ spc = "peqt" /\ spc' = "shuffle" /\ rpc = "peqt" /\ rpc' = "done"
        /\ UNCHANGED <<db, table, query>>
    BY DEF PrivateEqualityTest
  <1>2. PICK row_map \in Shuffles(Alpha), column_map \in Shuffles(ItemCnt) :
          LET map == PermutationMap(row_map, column_map)
              equal == {k \in DOMAIN map :
                          random_matrix[k] = decrypt_randoms_matrix[k]}
          IN /\ permutation' = map
             /\ ans' = ans \union {<<map[k] \div ItemCnt, map[k] % ItemCnt>> :
                                     k \in equal}
    BY DEF PrivateEqualityTest
  <1> DEFINE map == PermutationMap(row_map, column_map)
             matched == {k \in 0..(MatrixSize - 1) :
                           random_matrix[k] = decrypt_randoms_matrix[k]}
  <1>3. Collected /\ DbFacts BY <1>1 DEF Collected, CInv
  <1>4. /\ matched \subseteq AllMatches
        /\ SameCaches => matched = AllMatches
    BY <1>1, <1>3, EqualMatches DEF AllMatches
  <1>5. ASSUME NEW k \in 0..(MatrixSize - 1)
        PROVE  /\ map[k] \div ItemCnt = row_map[k \div ItemCnt]
               /\ map[k] % ItemCnt = column_map[k % ItemCnt]
    <2>1. /\ k \in Nat /\ k % ItemCnt \in 0..(ItemCnt - 1)
          /\ k \div ItemCnt \in 0..(Alpha - 1)
      BY <1>3, AlphaIs, CellFacts, PositionParts DEF Column
    <2>2. /\ row_map[k \div ItemCnt] \in Nat
          /\ column_map[k % ItemCnt] \in 0..(ItemCnt - 1)
      BY <2>1, <1>3, AlphaIs DEF Shuffles
    <2> DEFINE r == row_map[k \div ItemCnt]
               c == column_map[k % ItemCnt]
    <2>3. map[k] = r * ItemCnt + c BY DEF PermutationMap
    <2>4. r \in Nat /\ c \in 0..(ItemCnt - 1) BY <2>2
    <2> HIDE DEF map, r, c
    <2>5. (r * ItemCnt + c) \div ItemCnt = r /\ (r * ItemCnt + c) % ItemCnt = c
      BY <2>4, Sizes, Divided
    <2> QED BY <2>3, <2>5 DEF r, c
  <1>6. ans' = HitsOf(matched, row_map, column_map)
    <2>1. DOMAIN map = 0..(MatrixSize - 1) BY DEF PermutationMap
    <2>2. ans = {} BY <1>1 DEF Tested
    <2> QED BY <1>2, <1>5, <2>1, <2>2 DEF HitsOf
  <1>7. PICK some : some = matched OBVIOUS
  <1> HIDE DEF matched, map
  <1>8. /\ Alpha' = Alpha /\ SameCaches' = SameCaches
        /\ AllMatches' = AllMatches
        /\ PermutationMap(row_map, column_map)' = map
    BY <1>1, Frame DEF AllMatches, Matches, Present, CacheCnt, PermutationMap, map
  <1>9. TestResult(row_map, column_map, some)'
    BY <1>2, <1>4, <1>6, <1>7, <1>8 DEF TestResult, Shuffles, HitsOf, map
  <1> QED BY <1>1, <1>9 DEF Tested

\* Other steps leave the result of the test alone.
LEMMA QuietTested ==
  ASSUME IInv, Tested, [Next]_vars, ~ PrivateEqualityTest
  PROVE  Tested'
  <1>1. CASE rpc' = "done" /\ rpc # "done"
    BY <1>1 DEF Next, ReceiverStep, RunQuery, ProcessBinBundleCache, ProcessOutOfRange,
                TasksDone, SenderStep, CreateQuery, CuckooFails, LaunchWorkers,
                WorkersDone, ShuffleMessages, ShuffleOutOfRange, WorkerStep, LoadCount,
                ClaimPackage, ReceiveResult, CopyResult, receiverVars, vars
  <1>2. CASE rpc = "done"
    <2> USE <1>2 DEF Tested
    <2>1. /\ rpc' = "done" /\ UNCHANGED <<db, query, table, ans, permutation>>
          /\ spc' \in {"shuffle", "done", "crashed"}
          /\ spc' = "done" /\ ShuffleInRange => shuffleMessages' = Shuffled
      BY DEF Next, ReceiverStep, RunQuery, ProcessBinBundleCache, ProcessOutOfRange,
             TasksDone, SenderStep, CreateQuery, CuckooFails, LaunchWorkers,
             WorkersDone, ShuffleMessages, ShuffleOutOfRange, WorkerStep, LoadCount,
             ClaimPackage, ReceiveResult, CopyResult, receiverVars, senderVars,
             workerVars, vars, IInv, Stages, Idle
    <2>2. ASSUME NEW row_map, NEW column_map, NEW matched
          PROVE  TestResult(row_map, column_map, matched)' =
                   TestResult(row_map, column_map, matched)
      BY <2>1, Frame DEF TestResult, AllMatches, Matches, Present, CacheCnt,
                         PermutationMap, Shuffles, HitsOf
    <2>3. Shuffled' = Shuffled /\ ShuffleInRange' = ShuffleInRange
      BY <2>1 DEF Shuffled, ShuffleInRange
    <2> QED BY <2>1, <2>2, <2>3
  <1>3. CASE rpc # "done" /\ rpc' # "done"
    <2>1. /\ UNCHANGED <<query, ans>>
          /\ spc' \notin {"shuffle", "done", "crashed"}
      BY <1>3 DEF Tested, Next, ReceiverStep, RunQuery, ProcessBinBundleCache,
             ProcessOutOfRange, TasksDone, SenderStep, CreateQuery, CuckooFails,
             LaunchWorkers, WorkersDone, ShuffleMessages, ShuffleOutOfRange, WorkerStep,
             LoadCount, ClaimPackage, ReceiveResult, CopyResult, receiverVars,
             senderVars, workerVars, vars
    <2> QED BY <1>3, <2>1 DEF Tested
  <1> QED BY <1>1, <1>2, <1>3

\* The result of the test stays.
LEMMA TestedAlways == Spec => []Tested
  <1>1. Init => Tested BY DEF Init, Tested
  <1>2. IInv /\ CInv /\ Tested /\ [Next]_vars => Tested'
    BY TestTested, QuietTested
  <1> QED BY <1>1, <1>2, Invariance, Contents, PTL DEF Spec

\* A table location is a place in the first row, and is shuffled as its column.
LEMMA ShuffledColumn ==
  ASSUME DbFacts, Alpha # 0,
         NEW row_map \in Shuffles(Alpha), NEW column_map \in Shuffles(ItemCnt),
         permutation = PermutationMap(row_map, column_map),
         NEW i \in Column
  PROVE  /\ i \in DOMAIN permutation
         /\ row_map[0] \in 0..(Alpha - 1)
         /\ column_map[i] \in Column
         /\ permutation[i] = row_map[0] * ItemCnt + column_map[i]
         /\ permutation[i] % ItemCnt = column_map[i]
  <1> DEFINE r == row_map[0]
             c == column_map[i]
  <1>1. Alpha \in Nat \ {0} /\ ItemCnt \in Nat \ {0} BY AlphaIs, Sizes
  <1>2. i \in Nat /\ i < ItemCnt /\ i \in 0..(ItemCnt - 1) BY <1>1 DEF Column
  <1>3. i \div ItemCnt = 0 /\ i % ItemCnt = i BY <1>1, <1>2
  <1>4. i \in 0..(MatrixSize - 1)
    <2>1. 0 * ItemCnt + i < Alpha * ItemCnt BY <1>1, <1>2, RowsBelow
    <2> QED BY <1>1, <1>2, <2>1 DEF MatrixSize
  <1>5. r \in 0..(Alpha - 1) /\ c \in 0..(ItemCnt - 1) BY <1>1, <1>2 DEF Shuffles
  <1>6. i \in DOMAIN permutation /\ permutation[i] = r * ItemCnt + c
    BY <1>3, <1>4 DEF PermutationMap
  <1> HIDE DEF r, c
  <1>7. (r * ItemCnt + c) % ItemCnt = c BY <1>1, <1>5, Divided
  <1> QED BY <1>5, <1>6, <1>7 DEF Column, r, c

\* A match is about an item of the table that the database has.
LEMMA MatchHeld ==
  ASSUME DbFacts, NEW k \in AllMatches
  PROVE  /\ k \in Nat /\ k \in 0..(MatrixSize - 1)
         /\ k \div ItemCnt = CellAt(k)[1]
         /\ k \div ItemCnt \in 0..(Alpha - 1)
         /\ k % ItemCnt \in Column
         /\ k = (k \div ItemCnt) * ItemCnt + (k % ItemCnt)
         /\ CellAt(k) \in Cells
         /\ k % ItemsPerBundle \in Slot
         /\ k = Position(CellAt(k), k % ItemsPerBundle)
         /\ k % ItemCnt = CellAt(k)[2] * ItemsPerBundle + (k % ItemsPerBundle)
         /\ table[k % ItemCnt]
              \in db[CellAt(k)[2]][CellAt(k)[1] + 1][k % ItemsPerBundle]
         /\ table[k % ItemCnt] \in DbItems
         /\ table[k % ItemCnt] \in Item
         /\ Alpha # 0
  <1>1. k \in 0..(MatrixSize - 1) /\ Matches(k) BY DEF AllMatches
  <1>2. k \in Nat BY <1>1, AlphaIs
  <1>3. /\ Present(CellAt(k))
        /\ table[k % ItemCnt]
             \in db[CellAt(k)[2]][CellAt(k)[1] + 1][k % ItemsPerBundle]
    BY <1>1 DEF Matches
  <1>4. /\ k % ItemsPerBundle \in Slot
        /\ k % ItemCnt \in Column
        /\ k \div ItemCnt = CellAt(k)[1]
        /\ CellAt(k)[1] \in Nat
        /\ k = Position(CellAt(k), k % ItemsPerBundle)
        /\ k % ItemCnt = CellAt(k)[2] * ItemsPerBundle + (k % ItemsPerBundle)
    BY <1>2, PositionParts
  <1>5. CellAt(k) \in Cells /\ CellAt(k)[1] < Alpha
    BY <1>1, <1>2, <1>3, CellFacts
  <1>6. table[k % ItemCnt] \in DbItems BY <1>3, <1>4, <1>5 DEF DbItems
  <1>7. table[k % ItemCnt] \in Item BY <1>3, <1>4, <1>5 DEF DbFacts
  <1>8. k = (k \div ItemCnt) * ItemCnt + (k % ItemCnt)
    BY <1>2, Sizes, Division
  <1> QED BY <1>1, <1>2, <1>3, <1>4, <1>5, <1>6, <1>7, <1>8, AlphaIs

(***************************************************************************)
(* For every table, database, query and number of threads, whether the     *)
(* caches are even or not: what DDHPEQT::Receive puts into ans stands for  *)
(* items that both parties have.                                           *)
(***************************************************************************)
THEOREM Sound == Spec => []MatchesSound
  <1>1. ASSUME CInv, Tested, rpc = "done", NEW hit \in ans
        PROVE  MatchedItem(hit) \in DbItems
    <2>1. DbFacts BY <1>1 DEF CInv
    <2>2. PICK row_map, column_map, matched : TestResult(row_map, column_map, matched)
      BY <1>1 DEF Tested
    <2>3. PICK k \in matched :
            hit = <<row_map[k \div ItemCnt], column_map[k % ItemCnt]>>
      BY <2>2 DEF TestResult, HitsOf
    <2>4. k \in AllMatches BY <2>2, <2>3 DEF TestResult
    <2>5. k % ItemCnt \in Column /\ table[k % ItemCnt] \in DbItems /\ Alpha # 0
      BY <2>1, <2>4, MatchHeld
    <2>6. \A i \in Column : permutation[i] % ItemCnt = column_map[i]
      BY <2>1, <2>2, <2>5, ShuffledColumn DEF TestResult
    <2>7. \A i \in Column : permutation[i] % ItemCnt = hit[2] <=> i = k % ItemCnt
      BY <2>2, <2>3, <2>5, <2>6 DEF TestResult, Shuffles, Column
    <2>8. (CHOOSE i \in Column : permutation[i] % ItemCnt = hit[2]) = k % ItemCnt
      BY <2>5, <2>7
    <2> QED BY <2>5, <2>8 DEF MatchedItem
  <1>2. CInv /\ Tested => MatchesSound BY <1>1 DEF MatchesSound
  <1> QED BY <1>2, Contents, TestedAlways, PTL

-----------------------------------------------------------------------------
(* The matches and the common items.                                       *)

\* Each common item of a hashed query has one match.
LEMMA MatchOf ==
  ASSUME DbFacts, query \subseteq Item, table \in CuckooTables
  PROVE  /\ \A k \in AllMatches : table[k % ItemCnt] \in query \intersect DbItems
         /\ \A j, k \in AllMatches : table[j % ItemCnt] = table[k % ItemCnt] => j = k
         /\ \A x \in query \intersect DbItems :
              \E k \in AllMatches : table[k % ItemCnt] = x
  <1>1. /\ table \in [Column -> query \union {Empty}]
        /\ \A x \in query : \E l \in Loc[x] : \A k \in Column : table[k] = x <=> k = l
    BY DEF CuckooTables
  <1>2. ASSUME NEW k \in AllMatches
        PROVE  table[k % ItemCnt] \in query \intersect DbItems
    BY <1>1, MatchHeld, UnionQueryAssumption
  <1>3. ASSUME NEW j \in AllMatches, NEW k \in AllMatches,
               table[j % ItemCnt] = table[k % ItemCnt]
        PROVE  j = k
    <2> DEFINE x == table[k % ItemCnt]
               b == CellAt(k)[2]
               i == k % ItemsPerBundle
    <2>1. x \in query BY <1>2
    <2>2. j % ItemCnt = k % ItemCnt BY <1>1, <1>3, <2>1, MatchHeld
    <2>3. CellAt(j)[2] = b /\ j % ItemsPerBundle = i
      <3>1. /\ CellAt(j)[2] \in BundleIdx /\ b \in BundleIdx
            /\ j % ItemsPerBundle \in Slot /\ i \in Slot
        BY MatchHeld, CellFacts
      <3>2. CellAt(j)[2] * ItemsPerBundle + (j % ItemsPerBundle) = b * ItemsPerBundle + i
        BY <2>2, MatchHeld
      <3> QED BY <3>1, <3>2, ColumnParts
    <2>4. /\ x \in db[b][CellAt(j)[1] + 1][i]
          /\ x \in db[b][CellAt(k)[1] + 1][i]
      BY <1>3, <2>3, MatchHeld
    <2>5. CellAt(j) = CellAt(k)
      <3>1. CellAt(j) \in Cells /\ CellAt(k) \in Cells /\ i \in Slot BY MatchHeld
      <3> QED BY <2>3, <2>4, <3>1 DEF DbFacts
    <2> QED BY <2>3, <2>5, MatchHeld
  <1>4. ASSUME NEW x \in query \intersect DbItems
        PROVE  \E k \in AllMatches : table[k % ItemCnt] = x
    <2>1. PICK l \in Loc[x] : \A k \in Column : table[k] = x <=> k = l BY <1>1
    <2>2. l \in Column BY UnionQueryAssumption
    <2> DEFINE b == l \div ItemsPerBundle
               i == l % ItemsPerBundle
    <2>3. /\ b \in BundleIdx /\ i \in Slot
          /\ l = b * ItemsPerBundle + i
      <3>1. l \in Nat /\ l < BundleIdxCount * ItemsPerBundle
        BY <2>2, Sizes DEF Column, ItemCnt
      <3>2. b \in Nat /\ i \in 0..(ItemsPerBundle - 1) /\ l = b * ItemsPerBundle + i
        BY <3>1, Sizes, Division
      <3> HIDE DEF b, i
      <3>3. b < BundleIdxCount BY <3>1, <3>2, Sizes, RowsBelow
      <3> QED BY <3>2, <3>3, Sizes DEF BundleIdx, Slot
    <2> HIDE DEF b, i
    <2>4. PICK cell \in Cells : cell[2] = b /\ x \in db[b][cell[1] + 1][i]
      BY <2>3 DEF DbFacts
    <2> DEFINE k == Position(cell, i)
    <2>5. /\ k \in 0..(MatrixSize - 1) /\ k \in Nat
          /\ CellAt(k) = cell /\ k % ItemsPerBundle = i
      BY <2>3, CellFacts, AlphaIs
    <2> HIDE DEF k
    <2>6. k % ItemCnt = l BY <2>3, <2>4, <2>5, PositionParts
    <2>7. Present(CellAt(k)) BY <2>5, CellFacts
    <2>8. table[k % ItemCnt] = x BY <2>1, <2>2, <2>6
    <2>9. Matches(k) BY <2>4, <2>5, <2>7, <2>8 DEF Matches
    <2> QED BY <2>5, <2>8, <2>9 DEF AllMatches
  <1> QED BY <1>2, <1>3, <1>4

\* Different matches are told as different pairs.
LEMMA HitOf ==
  ASSUME DbFacts, NEW row_map \in Shuffles(Alpha), NEW column_map \in Shuffles(ItemCnt)
  PROVE  \A j, k \in AllMatches :
           <<row_map[j \div ItemCnt], column_map[j % ItemCnt]>>
             = <<row_map[k \div ItemCnt], column_map[k % ItemCnt]>> => j = k
  <1> SUFFICES ASSUME NEW j \in AllMatches, NEW k \in AllMatches,
                      row_map[j \div ItemCnt] = row_map[k \div ItemCnt],
                      column_map[j % ItemCnt] = column_map[k % ItemCnt]
               PROVE  j = k
    OBVIOUS
  <1>1. j \div ItemCnt = k \div ItemCnt /\ j % ItemCnt = k % ItemCnt
    BY MatchHeld DEF Shuffles, Column
  <1> QED BY <1>1, MatchHeld

\* A set has as many elements as its image under an injective function.
LEMMA SameCount ==
  ASSUME NEW S, NEW T, IsFiniteSet(S), NEW f \in [S -> T],
         \A x, y \in S : f[x] = f[y] => x = y,
         \A y \in T : \E x \in S : f[x] = y
  PROVE  Cardinality(T) = Cardinality(S)
  <1>1. f \in Bijection(S, T) BY DEF Bijection, Injection, Surjection, IsInjective
  <1>2. ExistsBijection(S, T) BY <1>1 DEF ExistsBijection
  <1> QED BY <1>2, FS_Bijection

(***************************************************************************)
(* For every table, query and number of threads, and every database with   *)
(* as many caches at every bundle index: the cardinality RunQuery logs is  *)
(* that of the intersection.                                               *)
(***************************************************************************)
THEOREM Exact == Spec => []CardinalityExact
  <1>1. ASSUME IInv, CInv, Tested, rpc = "done", SameCaches
        PROVE  Cardinality(ans) = Cardinality(query \intersect DbItems)
    <2>1. DbFacts /\ query \subseteq Item BY <1>1 DEF CInv, Tested
    <2>2. table \in CuckooTables BY <1>1 DEF CInv, Hashed, Tested
    <2>3. PICK row_map, column_map :
            /\ row_map \in Shuffles(Alpha) /\ column_map \in Shuffles(ItemCnt)
            /\ ans = HitsOf(AllMatches, row_map, column_map)
      BY <1>1 DEF Tested, TestResult
    <2>4. IsFiniteSet(AllMatches)
      <3>1. IsFiniteSet(0..(MatrixSize - 1)) BY <2>1, AlphaIs, FS_Interval
      <3> QED BY <3>1, FS_Subset DEF AllMatches
    <2> DEFINE f == [k \in AllMatches |->
                       <<row_map[k \div ItemCnt], column_map[k % ItemCnt]>>]
               g == [k \in AllMatches |-> table[k % ItemCnt]]
    <2>5. Cardinality(ans) = Cardinality(AllMatches)
      <3>1. f \in [AllMatches -> ans] /\ \A y \in ans : \E k \in AllMatches : f[k] = y
        BY <2>3 DEF HitsOf
      <3>2. \A j, k \in AllMatches : f[j] = f[k] => j = k
        BY <2>1, <2>3, HitOf
      <3> HIDE DEF f
      <3> QED BY <2>4, <3>1, <3>2, SameCount
    <2>6. Cardinality(query \intersect DbItems) = Cardinality(AllMatches)
      <3>1. /\ g \in [AllMatches -> query \intersect DbItems]
            /\ \A j, k \in AllMatches : g[j] = g[k] => j = k
            /\ \A x \in query \intersect DbItems : \E k \in AllMatches : g[k] = x
        BY <2>1, <2>2, MatchOf
      <3> HIDE DEF g
      <3> QED BY <2>4, <3>1, SameCount
    <2> QED BY <2>5, <2>6
  <1>2. IInv /\ CInv /\ Tested => CardinalityExact BY <1>1 DEF CardinalityExact
  <1> QED BY <1>2, Invariance, Contents, TestedAlways, PTL

-----------------------------------------------------------------------------
(* The transfer.                                                           *)

\* With one cache, the sender's shuffle of its messages is the columns'.
LEMMA OneCache ==
  ASSUME MaxCaches = 1, EqualCaches, DbFacts,
         NEW row_map \in Shuffles(Alpha), NEW column_map \in Shuffles(ItemCnt),
         permutation = PermutationMap(row_map, column_map)
  PROVE  /\ SameCaches
         /\ Alpha = 1
         /\ \A i \in Column : permutation[i] = column_map[i] /\ column_map[i] \in Column
         /\ \A i, j \in Column : permutation[i] = permutation[j] => i = j
         /\ ShuffleInRange
         /\ \A m \in Column : \E i \in Column : permutation[i] = m
  <1>1. SameCaches BY DEF DbFacts
  <1>2. Alpha = 1 BY <1>1, AlphaIs
  <1>3. ASSUME NEW i \in Column
        PROVE  /\ i \in DOMAIN permutation
               /\ permutation[i] = column_map[i]
               /\ column_map[i] \in Column
    <2>1. /\ i \in DOMAIN permutation
          /\ row_map[0] \in 0..0
          /\ column_map[i] \in Column
          /\ permutation[i] = row_map[0] * ItemCnt + column_map[i]
      BY <1>2, ShuffledColumn
    <2>2. row_map[0] = 0 /\ column_map[i] \in Nat BY <2>1, Sizes DEF Column
    <2> QED BY <2>1, <2>2, Sizes
  <1>4. \A i, j \in Column : permutation[i] = permutation[j] => i = j
    BY <1>3 DEF Shuffles, Column
  <1>5. \A m \in Column : \E i \in Column : permutation[i] = m
    <2>1. column_map \in Injection(Column, Column)
      BY DEF Shuffles, Column, Injection, IsInjective
    <2>2. IsFiniteSet(Column) BY Sizes, FS_Interval DEF Column
    <2>3. column_map \in Surjection(Column, Column) BY <2>1, <2>2, FS_Injection
    <2> QED BY <1>3, <2>3 DEF Surjection
  <1> QED BY <1>1, <1>2, <1>3, <1>4, <1>5 DEF ShuffleInRange

\* Which of the sender's messages the transfer hands over.
HandedOver(messages) ==
  {messages[l] : l \in {m \in Column : \A hit \in ans : hit[2] # m}} \ {Empty}

\* If they are shuffled, it is the difference.
LEMMA TransferRight ==
  ASSUME MaxCaches = 1, EqualCaches, CInv, Tested, rpc = "done"
  PROVE  HandedOver(Shuffled) = query \ DbItems
  <1>1. DbFacts /\ query \subseteq Item /\ table \in CuckooTables
    BY DEF CInv, Hashed, Tested
  <1>2. PICK row_map, column_map, matched : TestResult(row_map, column_map, matched)
    BY DEF Tested
  <1>3. /\ row_map \in Shuffles(Alpha) /\ column_map \in Shuffles(ItemCnt)
        /\ permutation = PermutationMap(row_map, column_map)
        /\ ans = HitsOf(matched, row_map, column_map)
        /\ SameCaches => matched = AllMatches
    BY <1>2 DEF TestResult
  <1>4. /\ SameCaches
        /\ \A i \in Column : permutation[i] = column_map[i] /\ column_map[i] \in Column
        /\ \A i, j \in Column : permutation[i] = permutation[j] => i = j
        /\ \A m \in Column : \E i \in Column : permutation[i] = m
    BY <1>1, <1>3, OneCache
  <1>5. ASSUME NEW i \in Column
        PROVE  Shuffled[permutation[i]] = table[i]
    <2>1. permutation[i] \in Column BY <1>4
    <2>2. (CHOOSE j \in Column : permutation[j] = permutation[i]) = i BY <1>4
    <2> QED BY <2>1, <2>2 DEF Shuffled
  <1>6. ASSUME NEW i \in Column
        PROVE  (\E hit \in ans : hit[2] = permutation[i])
                 <=> \E k \in AllMatches : k % ItemCnt = i
    <2>1. \A k \in AllMatches : k % ItemCnt \in Column BY <1>1, MatchHeld
    <2>2. \A k \in AllMatches : column_map[k % ItemCnt] = permutation[i] <=> k % ItemCnt = i
      BY <1>4, <2>1
    <2>3. ans = {<<row_map[k \div ItemCnt], column_map[k % ItemCnt]>> : k \in AllMatches}
      BY <1>3, <1>4 DEF HitsOf
    <2>4. ASSUME NEW k \in AllMatches, k % ItemCnt = i
          PROVE  \E hit \in ans : hit[2] = permutation[i]
      <3>1. <<row_map[k \div ItemCnt], column_map[k % ItemCnt]>> \in ans BY <2>3
      <3> QED BY <2>2, <2>4, <3>1
    <2>5. ASSUME NEW hit \in ans, hit[2] = permutation[i]
          PROVE  \E k \in AllMatches : k % ItemCnt = i
      <3>1. PICK k \in AllMatches :
              hit = <<row_map[k \div ItemCnt], column_map[k % ItemCnt]>>
        BY <2>3
      <3> QED BY <2>2, <2>5, <3>1
    <2> QED BY <2>4, <2>5
  <1>7. /\ table \in [Column -> query \union {Empty}]
        /\ \A x \in query : \E l \in Loc[x] : \A k \in Column : table[k] = x <=> k = l
    BY <1>1 DEF CuckooTables
  <1>8. ASSUME NEW i \in Column
        PROVE  (\E k \in AllMatches : k % ItemCnt = i)
                 <=> table[i] \in query \intersect DbItems
    <2>1. ASSUME NEW k \in AllMatches, k % ItemCnt = i
          PROVE  table[i] \in query \intersect DbItems
      BY <1>1, <2>1, MatchOf
    <2>2. ASSUME table[i] \in query \intersect DbItems
          PROVE  \E k \in AllMatches : k % ItemCnt = i
      <3>1. PICK k \in AllMatches : table[k % ItemCnt] = table[i]
        BY <1>1, <2>2, MatchOf
      <3>2. k % ItemCnt \in Column BY <1>1, MatchHeld
      <3>3. k % ItemCnt = i BY <1>7, <2>2, <3>1, <3>2
      <3> QED BY <3>3
    <2> QED BY <2>1, <2>2
  <1>9. HandedOver(Shuffled)
          = {Shuffled[l] : l \in {m \in Column : \A hit \in ans : hit[2] # m}} \ {Empty}
    BY DEF HandedOver
  <1>10. ASSUME NEW x \in HandedOver(Shuffled)
         PROVE  x \in query \ DbItems
    <2>1. PICK m \in Column : (\A hit \in ans : hit[2] # m) /\ x = Shuffled[m] /\ x # Empty
      BY <1>9
    <2>2. PICK i \in Column : permutation[i] = m BY <1>4
    <2>3. x = table[i] BY <1>5, <2>1, <2>2
    <2>4. table[i] \notin query \intersect DbItems BY <1>6, <1>8, <2>1, <2>2
    <2> QED BY <1>7, <2>1, <2>3, <2>4
  <1>11. ASSUME NEW x \in query \ DbItems
         PROVE  x \in HandedOver(Shuffled)
    <2>1. PICK l \in Loc[x] : \A k \in Column : table[k] = x <=> k = l BY <1>7
    <2>2. l \in Column /\ table[l] = x /\ x # Empty
      BY <1>1, <2>1, UnionQueryAssumption
    <2>3. permutation[l] \in Column /\ Shuffled[permutation[l]] = x
      BY <1>4, <1>5, <2>2
    <2>4. \A hit \in ans : hit[2] # permutation[l] BY <1>6, <1>8, <2>2
    <2> QED BY <1>9, <2>2, <2>3, <2>4
  <1> QED BY <1>10, <1>11

\* A step that neither fails nor ends the exchange is not seen from outside.
LEMMA Unseen ==
  ASSUME IInv, CInv, Tested, [Next]_vars,
         ~ CuckooFails, ~ ShuffleMessages, ~ ShuffleOutOfRange
  PROVE  UNCHANGED Abstract!vars
  <1>1. DbItems' = DbItems /\ query' = query
    <2>1. UNCHANGED <<db, query>>
      BY DEF Next, ReceiverStep, RunQuery, ProcessBinBundleCache, ProcessOutOfRange,
             TasksDone, SenderStep, CreateQuery, LaunchWorkers, WorkersDone,
             PrivateEqualityTest, WorkerStep, LoadCount, ClaimPackage, ReceiveResult,
             CopyResult, vars
    <2> QED BY <2>1 DEF DbItems, Cells, Present, CacheCnt
  <1>2. CASE spc \in {"done", "failed"}
    <2>1. UNCHANGED <<rpc, spc, ans, shuffleMessages>> \/ spc = "failed"
      BY <1>2 DEF Tested, IInv, Stages, Idle, Next, ReceiverStep, RunQuery,
             ProcessBinBundleCache, ProcessOutOfRange, TasksDone, SenderStep, CreateQuery,
             LaunchWorkers, WorkersDone, PrivateEqualityTest, WorkerStep, LoadCount,
             ClaimPackage, ReceiveResult, CopyResult, receiverVars, senderVars, vars
    <2>2. spc = "failed" => spc' = "failed"
      BY DEF Tested, IInv, Stages, Idle, Next, ReceiverStep, RunQuery,
             ProcessBinBundleCache, ProcessOutOfRange, TasksDone, SenderStep, CreateQuery,
             LaunchWorkers, WorkersDone, PrivateEqualityTest, WorkerStep, LoadCount,
             ClaimPackage, ReceiveResult, CopyResult, receiverVars, senderVars, vars
    <2> QED BY <1>1, <2>1, <2>2 DEF Abstract!vars, BothDone, Transferred
  <1>3. CASE spc \notin {"done", "failed"}
    <2>1. spc' \notin {"done", "failed"}
      BY <1>3 DEF Next, ReceiverStep, RunQuery, ProcessBinBundleCache, ProcessOutOfRange,
             TasksDone, SenderStep, CreateQuery, LaunchWorkers, WorkersDone,
             PrivateEqualityTest, WorkerStep, LoadCount, ClaimPackage, ReceiveResult,
             CopyResult, senderVars, vars
    <2> QED BY <1>1, <1>3, <2>1 DEF Abstract!vars, BothDone
  <1> QED BY <1>2, <1>3

(***************************************************************************)
(* For every table, query and number of threads, and every database with   *)
(* one cache at each bundle index: the exchange is the one step of         *)
(* UnionSpec.  With more caches MatrixWritten and MatchesSound still hold, *)
(* but ShuffleMessages may lose items.                                     *)
(***************************************************************************)
THEOREM Refines ==
  ASSUME MaxCaches = 1, EqualCaches
  PROVE  Spec => RefinesUnion
  <1>1. Init => Abstract!Init
    <2> SUFFICES ASSUME Init PROVE Abstract!Init OBVIOUS
    <2>1. DbFacts BY DatabasesFacts DEF Init
    <2>2. DbItems \subseteq Item BY <2>1 DEF DbItems, DbFacts
    <2> QED BY <2>2 DEF Init, Abstract!Init, BothDone
  <1>2. ASSUME IInv, CInv, Tested, Tested', CInv', [Next]_vars
        PROVE  [Abstract!Next]_(Abstract!vars)
    <2>1. CASE CuckooFails
      <3>1. UNCHANGED <<db, query>> /\ spc = "start" /\ spc' = "failed"
        BY <2>1 DEF CuckooFails
      <3>2. DbItems' = DbItems BY <3>1 DEF DbItems, Cells, Present, CacheCnt
      <3> QED BY <3>1, <3>2 DEF Abstract!Next, Abstract!Fail, BothDone
    <2>2. CASE ShuffleMessages
      <3>1. /\ UNCHANGED <<db, query, rpc, ans>>
            /\ spc = "shuffle" /\ spc' = "done" /\ shuffleMessages' = Shuffled
        BY <2>2 DEF ShuffleMessages, receiverVars
      <3>2. DbItems' = DbItems BY <3>1 DEF DbItems, Cells, Present, CacheCnt
      <3>3. rpc = "done" BY <1>2, <3>1 DEF Tested
      <3>4. Transferred' = HandedOver(Shuffled) BY <3>1 DEF Transferred, HandedOver
      <3>5. Transferred' = query \ DbItems
        BY <1>2, <3>3, <3>4, TransferRight
      <3> QED BY <3>1, <3>2, <3>3, <3>5 DEF Abstract!Next, Abstract!Answer, BothDone
    <2>3. CASE ShuffleOutOfRange
      <3>1. rpc = "done" BY <1>2, <2>3 DEF Tested, ShuffleOutOfRange
      <3>2. ShuffleInRange BY <1>2, <3>1, OneCache DEF CInv, Tested, TestResult
      <3> QED BY <2>3, <3>2 DEF ShuffleOutOfRange
    <2> QED BY <1>2, <2>1, <2>2, <2>3, Unseen
  <1>3. IInv /\ CInv /\ Tested /\ Tested' /\ CInv' /\ [Next]_vars
          => [Abstract!Next]_(Abstract!vars)
    BY <1>2
  <1> QED BY <1>1, <1>3, Invariance, Contents, TestedAlways, PTL
          DEF Spec, RefinesUnion, Abstract!Spec

=============================================================================
