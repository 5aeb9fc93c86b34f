------------------------------ MODULE MCLocks ------------------------------
(***************************************************************************)
(* The threads of the receiving program, of which a behaviour has one      *)
(* part:                                                                   *)
(*                                                                         *)
(*   - "db": two threads call the same database; with an item at either of *)
(*     two bundle indices, numbers and bundles are read in several steps;  *)
(*   - "pool": the managers of the pool in two calls, one of them with     *)
(*     stale bundles, whose tasks are calls in the same pool;              *)
(*   - "oprf": the tasks of a request for hashes, for two items on a curve *)
(*     of ten points, of which five are for the scalars.                   *)
(***************************************************************************)
EXTENDS DbLock, ThreadPoolMgr

VARIABLES
  part,
  items, inv_factor, request, next, failed, awaited, responses, live, response, hashes, requests

database ==
  <<hashed_items, bin_bundles, stripped, lock, pc, op, arg, counted, served, result, calls>>
hashing == <<items, inv_factor, request, next, failed, awaited, responses, live, response, hashes, requests>>
allVars == <<part, oprf_key, database, hashing, mgrVars>>

AllOps == {"insert", "remove", "strip", "clear", "has_item", "query", "save", "get_oprf_key"}
OneEach == [x |-> 0, y |-> 1]
BothStale == {<<"a", 1>>, <<"a", 2>>}

Oprf == INSTANCE OPRF WITH
  Order <- 5, Cofactor <- 2, Curve <- [x |-> 2, y |-> 6], Keys <- {2, 3},
  MaxItems <- 3, MaxRequests <- 1, ThreadCount <- 2

ASSUME LocksAssumption ==
  DbLockAssumption /\ Oprf!OPRFAssumption /\ ThreadPoolMgrAssumption

\* A database that nobody calls.
NoDb ==
  /\ hashed_items = {} /\ bin_bundles = {} /\ stripped = FALSE /\ writer = Nobody
  /\ readers = [t \in Thread |-> 0] /\ pc = [t \in Thread |-> "idle"]
  /\ op = [t \in Thread |-> "none"] /\ arg = "none" /\ counted = [t \in Thread |-> <<>>]
  /\ served = [t \in Thread |-> <<>>] /\ result = [t \in Thread |-> "none"] /\ calls = 0

NoOprf ==
  /\ items = "none" /\ inv_factor = "none" /\ request = "none" /\ next = "none" /\ failed = "none"
  /\ awaited = "none" /\ responses = "none" /\ live = "none" /\ response = "none"
  /\ hashes = "none" /\ requests = "none"

\* Calls that have not begun.
NoManagers == MgrInit

InitLocks ==
  \/ part = "db" /\ Init /\ NoOprf /\ NoManagers
  \/ part = "oprf" /\ Oprf!Init /\ NoDb /\ NoManagers
  \/ part = "pool" /\ MgrInit /\ NoDb /\ NoOprf /\ oprf_key = "key"

\* A step of one part, which leaves the variables of the others alone.
OnDb(step) == part = "db" /\ step /\ UNCHANGED <<part, hashing, mgrVars>>
OnOprf(step) == part = "oprf" /\ step /\ UNCHANGED <<part, database, mgrVars>>
OnPool(step) == part = "pool" /\ step /\ UNCHANGED <<part, oprf_key, database, hashing>>

NextDb == OnDb(Next)
NextOprf == OnOprf(Oprf!Next)
NextPool == OnPool(MgrNext)
NextLocks == NextDb \/ NextOprf \/ NextPool

\* The fairness of DbLock and OPRF.
Fairness ==
  /\ \A t \in Thread : WF_allVars(OnDb(Step(t)))
  /\ \A t \in 1 .. 2 : WF_allVars(OnOprf(Oprf!Task(t)))
  /\ WF_allVars(OnOprf(Oprf!Start \/ Oprf!Get \/ Oprf!Unwind \/ Oprf!Respond))
  /\ WF_allVars(OnOprf(Oprf!ExtractHashes))

SpecLocks == InitLocks /\ [][NextLocks]_allVars /\ Fairness

-----------------------------------------------------------------------------
(* Properties; the three modules say what each of them is about.  A query  *)
(* or save announces what it evaluates or writes: AsAnnounced of DbLock;   *)
(* the pool is there while it is used: PoolOutlivesTasks of ThreadPoolMgr. *)

\* Every call returns, also one that takes the lock while it holds it; a
\* request for hashes does not keep RunOPRF, whatever its points.
EveryCallReturns ==
  /\ CallsReturn
  /\ (part = "oprf" /\ request # {}) ~> (part = "oprf" /\ request = {})

\* The hashes extracted are those the database has of the same items; the
\* responses are complete when they are sent, and no task writes to them later.
HashesAgree ==
  [][part = "oprf" =>
       /\ Oprf!AnswersComplete
       /\ responses' # responses => live'
       /\ Oprf!ExtractHashes =>
            hashes' = [i \in DOMAIN items |-> Oprf!GetItemHash(items[i], oprf_key)]]_allVars

=============================================================================
