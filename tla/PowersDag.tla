----------------------------- MODULE PowersDag -----------------------------
(***************************************************************************)
(* PowersDag::parallel_apply as Receiver::ComputePowers uses it: a number  *)
(* of workers on the thread pool walk the target powers round and round,   *)
(* claim a node with a compare-and-exchange on its state, multiply its     *)
(* parents' ciphertexts and mark the node computed.  Nothing but the node  *)
(* states orders the workers, so they alone must keep a product from being *)
(* read before it is complete.                                             *)
(*                                                                         *)
(* Scans of the node states are single steps: a node that is Computed      *)
(* stays so, hence a scan that finds all it looks for is true at its last  *)
(* read and one that misses something is false at the read that missed.    *)
(*                                                                         *)
(* The shape of the DAG is a parameter.  PowersConfig models               *)
(* PowersDag::configure, which builds it, and shows that every DAG it      *)
(* builds satisfies DagAssumption.                                         *)
(***************************************************************************)
EXTENDS Integers

CONSTANTS
  TargetCount,  \* target_powers_count
  TargetVec,    \* target_powers_vec: the powers to compute, counted from 1
  Parents,      \* nodes_[p].parents of each power p; <<0, 0>> at a source
  Worker        \* the node_worker tasks, one for each thread of the pool

Target == {TargetVec[i] : i \in 1..TargetCount}

IsSource(p) == Parents[p] = <<0, 0>>

ASSUME DagAssumption ==
  /\ TargetCount \in Nat \ {0}
  /\ TargetVec \in [1..TargetCount -> Nat \ {0}]
  /\ Parents \in [Target -> {<<0, 0>>} \union (Target \X Target)]
  /\ \A p \in Target : ~ IsSource(p) => Parents[p][1] + Parents[p][2] = p

VARIABLES
  node_states,  \* the atomic NodeState of each target power
  powers,       \* powers_at_this_bundle_idx: the exponent held, 0 if none yet
  pc,           \* where each node_worker stands
  power_idx,    \* the place in target_powers_vec each worker has reached
  prod          \* the product each worker has under way (0: none)

vars == <<node_states, powers, pc, power_idx, prod>>

NodeState == {"Uncomputed", "Computing", "Computed"}

\* The node worker w is looking at.
node(w) == TargetVec[power_idx[w]]

(***************************************************************************)
(* Sources arrive with the query (RunQuery loads them into all_powers);    *)
(* every worker starts at the front of target_powers_vec.                  *)
(***************************************************************************)
Init ==
  /\ node_states = [p \in Target |-> "Uncomputed"]
  /\ powers = [p \in Target |-> IF IsSource(p) THEN p ELSE 0]
  /\ pc = [w \in Worker |-> "scan"]
  /\ power_idx = [w \in Worker |-> 1]
  /\ prod = [w \in Worker |-> 0]

GoTo(w, l) == pc' = [pc EXCEPT ![w] = l]

Advance(w) == power_idx' = [power_idx EXCEPT ![w] = (@ % TargetCount) + 1]

\* Mutant: a plain store.
StoreState(p, old, new) == node_states' = [node_states EXCEPT ![p] = new]

\* compare_exchange_strong on the state of node p; a failure changes nothing.
CompareExchange(p, old, new) ==
  node_states' = IF node_states[p] = old
                 THEN [node_states EXCEPT ![p] = new] ELSE node_states

AllComputed == \A p \in Target : node_states[p] = "Computed"

\* Check if everything is done.
Scan(w) ==
  /\ pc[w] = "scan"
  /\ GoTo(w, IF AllComputed THEN "returned" ELSE "claim")
  /\ UNCHANGED <<node_states, powers, power_idx, prod>>

ClaimSucceeds(w) == node_states[node(w)] = "Uncomputed"

\* Claim the current node, or move on when it is done or being processed.
Claim(w) ==
  /\ pc[w] = "claim"
  /\ CompareExchange(node(w), "Uncomputed", "Computing")
  /\ IF ClaimSucceeds(w)
     THEN GoTo(w, "parents") /\ UNCHANGED power_idx
     ELSE GoTo(w, "scan") /\ Advance(w)
  /\ UNCHANGED <<powers, prod>>

ParentsComputed(p) ==
  /\ node_states[Parents[p][1]] = "Computed"
  /\ node_states[Parents[p][2]] = "Computed"

Ready(w) == IsSource(node(w)) \/ ParentsComputed(node(w))

\* A source, or a node whose parents are computed, is processed; any other is
\* handed back as Uncomputed.
CheckParents(w) ==
  /\ pc[w] = "parents"
  /\ IF Ready(w)
     THEN /\ GoTo(w, "multiply")
          /\ UNCHANGED <<node_states, power_idx>>
     ELSE /\ CompareExchange(node(w), "Computing", "Uncomputed")
          /\ GoTo(w, "scan")
          /\ Advance(w)
  /\ UNCHANGED <<powers, prod>>

\* Mutant: always squares.
FirstSquared(p) == 2 * powers[Parents[p][1]]

\* The exponent of the product of the parents of p.
Product(p) == powers[Parents[p][1]] + powers[Parents[p][2]]

(***************************************************************************)
(* The function ComputePowers hands to parallel_apply.  Multiplying takes  *)
(* a while: the parents are read in one step and the product is moved into *)
(* place in a later one.  A source needs no product.                       *)
(***************************************************************************)
Multiply(w) ==
  /\ pc[w] = "multiply"
  /\ ~ IsSource(node(w))
  /\ prod' = [prod EXCEPT ![w] = Product(node(w))]
  /\ GoTo(w, "store")
  /\ UNCHANGED <<node_states, powers, power_idx>>

PassSource(w) ==
  /\ pc[w] = "multiply"
  /\ IsSource(node(w))
  /\ GoTo(w, "mark")
  /\ UNCHANGED <<node_states, powers, power_idx, prod>>

StoreProduct(w) ==
  /\ pc[w] = "store"
  /\ powers' = [powers EXCEPT ![node(w)] = prod[w]]
  /\ prod' = [prod EXCEPT ![w] = 0]
  /\ GoTo(w, "mark")
  /\ UNCHANGED <<node_states, power_idx>>

\* Mutant: the expected state is still the one Claim left in it.
MarkComputedStale(w) ==
  /\ pc[w] = "mark"
  /\ CompareExchange(node(w), "Uncomputed", "Computed")
  /\ GoTo(w, "scan")
  /\ Advance(w)
  /\ UNCHANGED <<powers, prod>>

\* Done with the node; move on to the next.
MarkComputed(w) ==
  /\ pc[w] = "mark"
  /\ CompareExchange(node(w), "Computing", "Computed")
  /\ GoTo(w, "scan")
  /\ Advance(w)
  /\ UNCHANGED <<powers, prod>>

Step(w) ==
  \/ Scan(w)
  \/ Claim(w)
  \/ CheckParents(w)
  \/ Multiply(w)
  \/ PassSource(w)
  \/ StoreProduct(w)
  \/ MarkComputed(w)

\* Every f.get() has returned.
Returned == \A w \in Worker : pc[w] = "returned"

Done == Returned /\ UNCHANGED vars

Next == (\E w \in Worker : Step(w)) \/ Done

Spec == Init /\ [][Next]_vars

-----------------------------------------------------------------------------
(* Properties.                                                             *)

TypeOK ==
  /\ node_states \in [Target -> NodeState]
  /\ powers \in [Target -> Nat]
  /\ pc \in [Worker -> {"scan", "claim", "parents", "multiply", "store",
                        "mark", "returned"}]
  /\ power_idx \in [Worker -> 1..TargetCount]
  /\ prod \in [Worker -> Nat]

\* Worker w holds the node it points at.
Holds(w) == pc[w] \in {"parents", "multiply", "store", "mark"}

(***************************************************************************)
(* A node's state says who may touch its ciphertext: while a worker holds  *)
(* the node it is Computing, and no second worker holds it.                *)
(***************************************************************************)
SingleOwner ==
  \A w \in Worker : Holds(w) =>
    /\ node_states[node(w)] = "Computing"
    /\ \A v \in Worker : Holds(v) /\ node(v) = node(w) => v = w

(***************************************************************************)
(* No worker multiplies or stores before both parents are computed, so a   *)
(* product is never read while another worker is still writing it.         *)
(***************************************************************************)
ParentsFirst ==
  \A w \in Worker :
    pc[w] \in {"multiply", "store"} /\ ~ IsSource(node(w))
      => ParentsComputed(node(w))

(***************************************************************************)
(* What a worker is about to store is the power of its node, and what a    *)
(* computed node holds is its own power of the query: a wrong product here *)
(* would silently evaluate every matching polynomial at the wrong point.   *)
(***************************************************************************)
PowersRight ==
  /\ \A p \in Target : node_states[p] = "Computed" => powers[p] = p
  /\ \A w \in Worker : pc[w] = "store" => prod[w] = node(w)

(***************************************************************************)
(* When parallel_apply returns, all the target powers have been computed,  *)
(* however the workers raced to notice it.                                 *)
(***************************************************************************)
AllPowersOnReturn ==
  (\E w \in Worker : pc[w] = "returned")
    => \A p \in Target : node_states[p] = "Computed" /\ powers[p] = p

(***************************************************************************)
(* A computed node is final: no worker takes it back to Uncomputed or      *)
(* overwrites its ciphertext, which others may be reading.                 *)
(***************************************************************************)
ComputedIsFinal ==
  [][\A p \in Target : node_states[p] = "Computed" =>
       node_states'[p] = "Computed" /\ powers'[p] = powers[p]]_vars

=============================================================================
