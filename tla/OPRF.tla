-------------------------------- MODULE OPRF --------------------------------
(***************************************************************************)
(* The hashes the two programs agree on without telling each other the     *)
(* items or the key: OPRFReceiver, in the sending program, blinds the      *)
(* items; OPRFSender, with the database, multiplies them by the key, on    *)
(* the threads of the pool; and the first takes its factors out again.     *)
(* The hashes must be those the database computed for itself.              *)
(*                                                                         *)
(* The curve is a cyclic group of Order * Cofactor points, written         *)
(* additively; a scalar is below Order.                                    *)
(***************************************************************************)
EXTENDS Integers, Sequences, FiniteSets, SequencesExt

CONSTANTS
  Order, Cofactor,  \* of the curve, and of the part the scalars are for
  Item,             \* items
  Curve,            \* the point HashToCurve gives for each
  Keys,             \* the keys considered
  MaxItems,         \* bound: items of a request
  MaxRequests,      \* bound: requests
  ThreadCount       \* ThreadPoolMgr::GetThreadCount()

Points == 0 .. Order * Cofactor - 1
Scalars == 1 .. Order - 1

OPRFAssumption ==
  /\ {Order, Cofactor, MaxItems, MaxRequests, ThreadCount} \subseteq Nat \ {0}
  /\ \A d \in 2 .. Order - 1 : Order % d # 0
  /\ Curve \in [Item -> {p \in Points : p % Cofactor = 0}]
  /\ Keys \subseteq Scalars

VARIABLES
  oprf_key,
  items,           \* of the request that is made, <<>> if none is
  inv_factor,      \* the inverses of the factors
  request,         \* the points sent, Invalid for what is none; {} or a singleton
  next,            \* of each task, the index it has come to
  failed,          \* the tasks that threw
  awaited,         \* the future RunOPRF waits for, 0 if it is not in ProcessQueries
  responses,       \* oprf_responses, by index
  live,            \* whether oprf_responses is there
  response,        \* the points sent back, {} or a singleton
  hashes,          \* what the items came out as
  requests

vars == <<oprf_key, items, inv_factor, request, next, failed, awaited, responses, live, response, hashes, requests>>

Invalid == -1
Nothing == -2

-----------------------------------------------------------------------------
(* ECPoint.                                                                *)

ScalarMultiply(point, scalar, clear_cofactor) ==
  (point * scalar * (IF clear_cofactor THEN Cofactor ELSE 1)) % (Order * Cofactor)

InvertScalar(scalar) == CHOOSE s \in Scalars : (s * scalar) % Order = 1

\* y is the same for a point and its inverse; the item's hash and the key
\* of its label are the two halves of the hash of y.
ExtractHash(point) == {point, (Order * Cofactor - point) % (Order * Cofactor)}

\* ECPoint made of an item.
HashToCurve(item) == Curve[item]

\* OPRFSender::GetItemHash, in the database.
GetItemHash(item, key) == ExtractHash(ScalarMultiply(HashToCurve(item), key, TRUE))

-----------------------------------------------------------------------------
Init ==
  /\ oprf_key \in Keys
  /\ items = <<>> /\ inv_factor = <<>> /\ request = {}
  /\ next = <<>> /\ failed = {} /\ awaited = 0 /\ responses = <<>> /\ live = FALSE
  /\ response = {} /\ hashes = <<>> /\ requests = 0

\* RequestOPRF: process_items and the request.  A fault on the way may make
\* one of the points none.
RequestOPRF ==
  /\ items = <<>> /\ requests < MaxRequests
  /\ \E n \in 1 .. MaxItems : \E xs \in [1 .. n -> Item], factors \in [1 .. n -> Scalars], bad \in 0 .. n :
       /\ items' = xs
       /\ inv_factor' = [i \in 1 .. n |-> InvertScalar(factors[i])]
       /\ request' = {[i \in 1 .. n |-> IF i = bad THEN Invalid ELSE ScalarMultiply(HashToCurve(xs[i]), factors[i], FALSE)]}
  /\ hashes' = <<>> /\ requests' = requests + 1
  /\ UNCHANGED <<oprf_key, next, failed, awaited, responses, live, response>>

-----------------------------------------------------------------------------
(* ProcessQueries.                                                         *)

Query == CHOOSE q \in request : TRUE
TaskCount(n) == IF n < ThreadCount THEN n ELSE ThreadCount

\* The tasks: from 0, 1, ... on, each in steps of their number.
Start ==
  /\ request # {} /\ awaited = 0
  /\ next' = [t \in 1 .. TaskCount(Len(Query)) |-> t]
  /\ failed' = {} /\ awaited' = 1
  /\ responses' = [i \in 1 .. Len(Query) |-> Nothing]
  /\ live' = TRUE
  /\ UNCHANGED <<oprf_key, items, inv_factor, request, response, hashes, requests>>

Running(t) == t \in DOMAIN next /\ t \notin failed /\ next[t] <= Len(responses)

\* What a task reads: the request, and what is there instead afterwards.
QueryAt(i) == IF request = {} THEN Points ELSE {Query[i]}

\* One index of one task; it throws where the point does not load.
Task(t) ==
  /\ Running(t)
  /\ \E point \in QueryAt(next[t]) :
         IF point = Invalid THEN failed' = failed \cup {t} /\ UNCHANGED <<next, responses>>
         ELSE /\ responses' = [responses EXCEPT ![next[t]] = ScalarMultiply(point, oprf_key, TRUE)]
              /\ next' = [next EXCEPT ![t] = @ + Len(next)]
              /\ UNCHANGED failed
  /\ UNCHANGED <<oprf_key, items, inv_factor, request, awaited, live, response, hashes, requests>>

Finished(t) == t \in DOMAIN next /\ ~Running(t)

\* f.get() for a task that did not throw.
Get ==
  /\ awaited \in DOMAIN next /\ Finished(awaited) /\ awaited \notin failed
  /\ awaited' = awaited + 1
  /\ UNCHANGED <<oprf_key, items, inv_factor, request, next, failed, responses, live, response, hashes, requests>>

\* tpm goes before oprf_responses; its pool has no other user and waits.
Joined == \A t \in DOMAIN next : Finished(t)

\* f.get() throws what the task did; RunOPRF does not answer.
Unwind ==
  /\ awaited \in DOMAIN next /\ awaited \in failed /\ Joined
  /\ live' = FALSE /\ request' = {} /\ awaited' = 0
  /\ UNCHANGED <<oprf_key, items, inv_factor, next, failed, responses, response, hashes, requests>>

Respond ==
  /\ awaited = Len(next) + 1 /\ next # <<>> /\ Joined
  /\ response' = {responses}
  /\ live' = FALSE /\ request' = {} /\ awaited' = 0
  /\ UNCHANGED <<oprf_key, items, inv_factor, next, failed, responses, hashes, requests>>

-----------------------------------------------------------------------------
\* Mutant: the factors are one place off.
FactorOfNext(i) == inv_factor[(i % Len(inv_factor)) + 1]

FactorOf(i) == inv_factor[i]

Refused(points) == Len(points) # Len(items)

\* ExtractHashes: nothing if the response is not for as many items.
ExtractHashes ==
  /\ \E points \in response :
       hashes' = IF Refused(points) THEN <<>>
                 ELSE [i \in DOMAIN points |-> ExtractHash(ScalarMultiply(points[i], FactorOf(i), FALSE))]
  /\ response' = {} /\ items' = <<>>
  /\ UNCHANGED <<oprf_key, inv_factor, request, next, failed, awaited, responses, live, requests>>

\* The program that has its hashes, or waits for those that do not come.
Rest ==
  /\ \/ items = <<>> /\ requests = MaxRequests
     \/ items # <<>> /\ request = {} /\ response = {}
  /\ UNCHANGED vars

Tasks == \E t \in 1 .. ThreadCount : Task(t)
Next == RequestOPRF \/ Start \/ Tasks \/ Get \/ Unwind \/ Respond \/ ExtractHashes \/ Rest

Fairness ==
  /\ \A t \in 1 .. ThreadCount : WF_vars(Task(t))
  /\ WF_vars(Start \/ Get \/ Unwind \/ Respond) /\ WF_vars(ExtractHashes)

Spec == Init /\ [][Next]_vars /\ Fairness

-----------------------------------------------------------------------------
(* Properties.                                                             *)

\* The hashes that come out are those the database has of the same items,
\* whichever factors were drawn and whichever task came when.
HashesAgree ==
  [][ExtractHashes => hashes' = [i \in DOMAIN items |-> GetItemHash(items[i], oprf_key)]]_vars

\* No task writes to responses that are not there any more, also when
\* another one threw and its exception has left ProcessQueries.
WritesToLive == [][responses' # responses => live']_vars

\* What is answered is complete, with every index written once.
AnswersComplete ==
  /\ \A points \in response : Nothing \notin ToSet(points)
  /\ live => \A i \in DOMAIN responses : responses[i] # Nothing =>
       \E t \in DOMAIN next : next[t] > i /\ (next[t] - i) % Len(next) = 0

\* A request whose points are all valid is answered and its hashes are
\* extracted; one with an invalid point does not keep RunOPRF.
EveryoneServed ==
  /\ (request # {}) ~> (request = {})
  /\ (items # <<>> /\ request # {} /\ (\A q \in request : Invalid \notin ToSet(q))) ~> (hashes # <<>>)

=============================================================================
