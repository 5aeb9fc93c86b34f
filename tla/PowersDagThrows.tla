-------------------------- MODULE PowersDagThrows --------------------------
(***************************************************************************)
(* PowersDag when the function handed to parallel_apply may throw: the     *)
(* exception leaves the worker, whose node stays Computing, and waits in   *)
(* its future.  The caller gets the futures in order, and leaves at the    *)
(* first one that rethrows.  node_states, target_powers_vec and what the   *)
(* function captured are locals of the calls that are left: nobody joins   *)
(* the other workers first, and the next thing one of them does is to use  *)
(* what is gone.  Any outcome may follow; nothing is said of it here, but  *)
(* that it takes a product that throws to come to it.                      *)
(***************************************************************************)
EXTENDS PowersDag, FiniteSets

CONSTANTS
  Order,       \* the order of the futures, a function from Worker to 1 .. n
  MaxThrows    \* bound: how many products fail

\* There are finitely many workers; each one's future has its own place.
ASSUME ThrowsAssumption ==
  /\ IsFiniteSet(Worker)
  /\ Order \in [Worker -> 1 .. Cardinality(Worker)]
  /\ \A v, w \in Worker : Order[v] = Order[w] => v = w

VARIABLES
  threw,       \* the workers whose function has thrown
  got,         \* the number of futures the caller has got
  caller       \* "waiting", "returned", "threw", or "undefined" once a worker
               \* has used locals of the call that threw

tvars == <<vars, threw, got, caller>>

InitThrows ==
  /\ Init
  /\ threw = {}
  /\ got = 0
  /\ caller = "waiting"

\* The locals of the call are there.
InFrame == caller = "waiting"

\* Mutant: the exception is caught in the worker, and the node marked.
ThrowAndMark(w) ==
  /\ InFrame
  /\ pc[w] = "multiply"
  /\ ~ IsSource(node(w))
  /\ GoTo(w, "mark")
  /\ UNCHANGED <<node_states, powers, power_idx, prod, threw, got, caller>>

\* multiply, square or relinearize throws.
Throw(w) ==
  /\ InFrame
  /\ pc[w] = "multiply"
  /\ ~ IsSource(node(w))
  /\ w \notin threw
  /\ Cardinality(threw) < MaxThrows
  /\ threw' = threw \cup {w}
  /\ UNCHANGED <<vars, got, caller>>

StepOf(w) ==
  /\ InFrame
  /\ w \notin threw
  /\ Step(w)
  /\ UNCHANGED <<threw, got, caller>>

\* f.get() for the next future.
GetFuture(w) ==
  /\ InFrame
  /\ Order[w] = got + 1
  /\ IF w \in threw
     THEN caller' = "threw" /\ UNCHANGED got
     ELSE /\ pc[w] = "returned"
          /\ got' = got + 1
          /\ caller' = IF got' = Cardinality(Worker) THEN "returned" ELSE "waiting"
  /\ UNCHANGED <<vars, threw>>

\* A worker that goes on after the locals have been destroyed.
UseDestroyed(w) ==
  /\ caller \in {"returned", "threw"}
  /\ w \notin threw
  /\ pc[w] # "returned"
  /\ caller' = "undefined"
  /\ UNCHANGED <<vars, threw, got>>

NextThrows ==
  \E w \in Worker : Throw(w) \/ StepOf(w) \/ GetFuture(w) \/ UseDestroyed(w)

SpecThrows ==
  /\ InitThrows /\ [][NextThrows]_tvars
  /\ \A w \in Worker : WF_tvars(StepOf(w)) /\ WF_tvars(GetFuture(w))

-----------------------------------------------------------------------------
\* The powers mean something: they are being computed, or the call is over.
Standing == caller \in {"waiting", "returned"}

(***************************************************************************)
(* As long as the call stands, a product that throws does no harm to those *)
(* of the other workers: what they store and mark is right.                *)
(***************************************************************************)
RightInFrame == Standing => PowersRight

(***************************************************************************)
(* However the workers race, and whatever throws, as long as the caller    *)
(* has not left: a node has one worker, which finds the parents computed,  *)
(* and no worker returns before all powers are there.  A call that returns *)
(* overlooked no failure, has all the powers, and left no worker behind to *)
(* use its locals: only after a product that threw can that happen.        *)
(***************************************************************************)
HarmlessInFrame ==
  /\ Standing => SingleOwner /\ ParentsFirst /\ AllPowersOnReturn
  /\ caller = "returned" => Returned /\ threw = {} /\ \A p \in Target : powers[p] = p
  /\ caller = "undefined" => threw # {}

(***************************************************************************)
(* As long as the call stands, no worker takes back or overwrites what has *)
(* been computed, also when others have thrown.                            *)
(***************************************************************************)
FinalInFrame ==
  [][Standing => \A p \in Target : node_states[p] = "Computed" =>
       node_states'[p] = "Computed" /\ powers'[p] = powers[p]]_tvars

(***************************************************************************)
(* As long as no product throws, the call returns: workers that keep       *)
(* handing a node back while its parents are under way do not keep one     *)
(* another from finishing.                                                 *)
(***************************************************************************)
ReturnsUnlessThrown == <>(threw # {} \/ caller = "returned")

\* The call returns or throws.  With a product that throws it may do neither,
\* for the others wait for the node that stays Computing.
ApplyEnds == <>(caller # "waiting")

\* No worker uses what the caller has destroyed.  With a product that throws
\* one may, for the caller leaves at the first future that rethrows.
LocalsOutliveWorkers == caller # "undefined"

=============================================================================
