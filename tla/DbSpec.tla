------------------------------- MODULE DbSpec -------------------------------
(***************************************************************************)
(* What a ReceiverDB promises to those who query it: a map from items to   *)
(* labels (all the same in an unlabeled database), changed by one call at  *)
(* a time, each of which takes effect in a single step.  A stripped        *)
(* database is queried as before and not changed any more, until it is     *)
(* cleared or replaced by one that had been saved.                         *)
(***************************************************************************)
EXTENDS Integers, Sequences

CONSTANTS
  InsertBatches,   \* batches of records [item, label]
  RemoveBatches    \* batches of items

VARIABLES
  contents,   \* records [item, label]
  stripped,
  saved,      \* the database in the file, if any
  request     \* the call that is being served, if any

vars == <<contents, stripped, saved, request>>

Range(s) == {s[i] : i \in DOMAIN s}

Requests == [op : {"insert"}, data : InsertBatches] \cup [op : {"remove"}, data : RemoveBatches]

Init == contents = {} /\ stripped = FALSE /\ saved = {} /\ request = {}

\* The last entry that a batch has for an item counts.
Assigned(held, data) ==
  LET named == {e.item : e \in Range(data)}
      last(x) == CHOOSE i \in DOMAIN data :
                   data[i].item = x /\ \A j \in DOMAIN data : data[j].item = x => j <= i
  IN  {e \in held : e.item \notin named} \cup {data[last(x)] : x \in named}

Removed(held, items) == {e \in held : e.item \notin Range(items)}

Call ==
  /\ request = {}
  /\ ~stripped
  /\ \E r \in Requests : request' = {r}
  /\ UNCHANGED <<contents, stripped, saved>>

Return ==
  /\ \E r \in request :
       contents' = IF r.op = "insert" THEN Assigned(contents, r.data) ELSE Removed(contents, r.data)
  /\ request' = {}
  /\ UNCHANGED <<stripped, saved>>

Strip ==
  /\ request = {}
  /\ stripped' = TRUE
  /\ UNCHANGED <<contents, saved, request>>

Clear ==
  /\ request = {}
  /\ contents' = {}
  /\ stripped' = FALSE
  /\ UNCHANGED <<saved, request>>

Save ==
  /\ request = {}
  /\ saved' = {[contents |-> contents, stripped |-> stripped]}
  /\ UNCHANGED <<contents, stripped, request>>

Load ==
  /\ request = {}
  /\ \E db \in saved : contents' = db.contents /\ stripped' = db.stripped
  /\ UNCHANGED <<saved, request>>

Next == Call \/ Return \/ Strip \/ Clear \/ Save \/ Load

Spec == Init /\ [][Next]_vars

=============================================================================
