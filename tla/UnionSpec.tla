----------------------------- MODULE UnionSpec -----------------------------
(***************************************************************************)
(* What a private set union promises, without any of the protocol: the     *)
(* receiver, who has a set, learns which items another party's set adds to *)
(* it.  The items they have in common stay hidden, or the receiver would   *)
(* learn the intersection.                                                 *)
(***************************************************************************)
CONSTANT Item

VARIABLES
  have,     \* the receiver's set
  wanted,   \* the sender's set
  learned,  \* the items the receiver has been given
  status    \* "running", "answered" or "failed"

vars == <<have, wanted, learned, status>>

Init ==
  /\ have \in SUBSET Item
  /\ wanted \in SUBSET Item
  /\ learned = {}
  /\ status = "running"

Answer ==
  /\ status = "running"
  /\ learned' = wanted \ have
  /\ status' = "answered"
  /\ UNCHANGED <<have, wanted>>

\* The sender cannot ask its query, and the receiver learns nothing of it.
Fail ==
  /\ status = "running"
  /\ status' = "failed"
  /\ UNCHANGED <<have, wanted, learned>>

Next == Answer \/ Fail

Spec == Init /\ [][Next]_vars

=============================================================================
