------------------------------- MODULE DbLock -------------------------------
(***************************************************************************)
(* Threads that call one ReceiverDB at the same time.  ReceiverDB has what *)
(* a single call does; this module has the reader-writer lock, who holds   *)
(* it when, and what is read without it: stripped_ at the beginning of     *)
(* most calls, and the OPRF key.                                           *)
(*                                                                         *)
(* An item has one location and a bin takes one element, so that a bundle  *)
(* holds one item.                                                         *)
(***************************************************************************)
EXTENDS Integers, Sequences, FiniteSets

CONSTANTS
  Thread,
  Item,
  BundleIdx,   \* the bundle index of each item, from 0 on
  Ops,         \* the calls that threads make
  MaxCalls     \* bound on the calls made

BundleIdxCount == Cardinality({BundleIdx[x] : x \in Item})

DbLockAssumption ==
  /\ IsFiniteSet(Item)
  /\ BundleIdx \in [Item -> Nat]
  /\ {BundleIdx[x] : x \in Item} = 0 .. BundleIdxCount - 1
  /\ Ops \subseteq {"insert", "remove", "strip", "clear", "has_item", "query", "save",
                   "get_oprf_key"}
  /\ MaxCalls \in Nat
  /\ "nobody" \notin Thread

VARIABLES
  hashed_items, bin_bundles, stripped, oprf_key,   \* members of the database
  writer, readers,   \* db_lock_: who holds it; a reader may do so several times
  pc, op, arg,       \* each thread's call
  counted, served,   \* of a query or save: the bundles it announces for each
                     \* index, and those it goes on to use
  result, calls

db == <<hashed_items, bin_bundles, stripped, oprf_key>>
lock == <<writer, readers>>
vars == <<db, lock, pc, op, arg, counted, served, result, calls>>

Nobody == "nobody"
Bundle == [item : Item, stripped : BOOLEAN]

\* Calls that refuse a stripped database, those that change it, and those
\* that ask for the number of bundles in the course of reading it.
Checked == {"insert", "remove", "has_item", "get_oprf_key"}
Writing == {"insert", "remove", "strip", "clear"}
Counting == {"query", "save"}

At(b) == {bb \in bin_bundles : BundleIdx[bb.item] = b}

Init ==
  /\ hashed_items = {}
  /\ bin_bundles = {}
  /\ stripped = FALSE
  /\ oprf_key = "key"
  /\ writer = Nobody
  /\ readers = [t \in Thread |-> 0]
  /\ pc = [t \in Thread |-> "idle"]
  /\ op = [t \in Thread |-> "none"]
  /\ arg \in [Thread -> Item]
  /\ counted = [t \in Thread |-> <<>>]
  /\ served = [t \in Thread |-> <<>>]
  /\ result = [t \in Thread |-> "none"]
  /\ calls = 0

Goto(t, place) == pc' = [pc EXCEPT ![t] = place]

Return(t, value) ==
  /\ Goto(t, "idle")
  /\ result' = [result EXCEPT ![t] = value]

Call(t) ==
  /\ pc[t] = "idle"
  /\ calls < MaxCalls
  /\ \E o \in Ops, x \in Item :
       /\ op' = [op EXCEPT ![t] = o]
       /\ arg' = [arg EXCEPT ![t] = x]
       /\ Goto(t, IF o \in Checked THEN "check" ELSE "lock")
  /\ counted' = [counted EXCEPT ![t] = <<>>]
  /\ served' = [served EXCEPT ![t] = <<>>]
  /\ result' = [result EXCEPT ![t] = "none"]
  /\ calls' = calls + 1
  /\ UNCHANGED <<db, lock>>

\* if (stripped_) throw: before the lock is taken.
Check(t) ==
  /\ pc[t] = "check"
  /\ IF stripped THEN Return(t, "exception")
     ELSE /\ Goto(t, IF op[t] = "get_oprf_key" THEN "copy" ELSE "lock")
          /\ UNCHANGED result
  /\ UNCHANGED <<db, lock, op, arg, counted, served, calls>>

\* get_oprf_key takes no lock at all.
CopyKey(t) ==
  /\ pc[t] = "copy"
  /\ Return(t, oprf_key)
  /\ UNCHANGED <<db, lock, op, arg, counted, served, calls>>

(***************************************************************************)
(* The lock.  A thread that holds it for reading may take it for reading   *)
(* once more, which the C++ standard leaves undefined: the mutex of the    *)
(* platforms the programs are built for lets readers pass waiting writers. *)
(***************************************************************************)
MayRead == writer = Nobody

\* Mutant: a writer does not wait for the readers.
MayWriteThough == writer = Nobody

MayWrite == writer = Nobody /\ \A t \in Thread : readers[t] = 0

Lock(t) ==
  /\ pc[t] = "lock"
  /\ IF op[t] \in Writing
     THEN MayWrite /\ writer' = t /\ UNCHANGED readers
     ELSE MayRead /\ readers' = [readers EXCEPT ![t] = @ + 1] /\ UNCHANGED writer
  /\ Goto(t, op[t])
  /\ UNCHANGED <<db, op, arg, counted, served, result, calls>>

UnlockWrite == writer' = Nobody /\ UNCHANGED readers
UnlockRead(t) == readers' = [readers EXCEPT ![t] = @ - 1] /\ UNCHANGED writer

(***************************************************************************)
(* The calls under the lock.                                               *)
(***************************************************************************)
\* Mutant: the bundles are counted for the log, with the lock still held.
InsertThatCounts(t) ==
  /\ pc[t] = "insert"
  /\ MayRead
  /\ hashed_items' = hashed_items \cup {arg[t]}
  /\ bin_bundles' = bin_bundles \cup {[item |-> arg[t], stripped |-> FALSE]}
  /\ UnlockWrite
  /\ Return(t, "ok")
  /\ UNCHANGED <<stripped, oprf_key, op, arg, counted, served, calls>>

\* The worker throws at a stripped bundle; hashed_items_ has the item already.
Insert(t) ==
  /\ pc[t] = "insert"
  /\ hashed_items' = hashed_items \cup {arg[t]}
  /\ IF arg[t] \in hashed_items THEN Return(t, "ok") /\ UNCHANGED bin_bundles
     ELSE IF \E bb \in At(BundleIdx[arg[t]]) : bb.stripped
     THEN Return(t, "exception") /\ UNCHANGED bin_bundles
     ELSE /\ Return(t, "ok")
          /\ bin_bundles' = bin_bundles \cup {[item |-> arg[t], stripped |-> FALSE]}
  /\ UnlockWrite
  /\ UNCHANGED <<stripped, oprf_key, op, arg, counted, served, calls>>

\* An item that is not there makes a worker throw.
Remove(t) ==
  /\ pc[t] = "remove"
  /\ hashed_items' = hashed_items \ {arg[t]}
  /\ LET held == [item |-> arg[t], stripped |-> FALSE]
     IN  /\ bin_bundles' = bin_bundles \ {held}
         /\ Return(t, IF held \in bin_bundles THEN "ok" ELSE "exception")
  /\ UnlockWrite
  /\ UNCHANGED <<stripped, oprf_key, op, arg, counted, served, calls>>

StripFlag(t) ==
  /\ pc[t] = "strip"
  /\ stripped' = TRUE
  /\ Goto(t, "strip rest")
  /\ UNCHANGED <<hashed_items, bin_bundles, oprf_key, lock, op, arg, counted, served, result, calls>>

\* The key is moved out, what is left of it is cleared.
StripRest(t) ==
  /\ pc[t] = "strip rest"
  /\ oprf_key' = "cleared"
  /\ hashed_items' = {}
  /\ bin_bundles' = {[bb EXCEPT !.stripped = TRUE] : bb \in bin_bundles}
  /\ UnlockWrite
  /\ Return(t, oprf_key)
  /\ UNCHANGED <<stripped, op, arg, counted, served, calls>>

\* The key stays as it is.
ClearInternal(t) ==
  /\ pc[t] = "clear"
  /\ hashed_items' = {}
  /\ bin_bundles' = {}
  /\ stripped' = FALSE
  /\ UnlockWrite
  /\ Return(t, "ok")
  /\ UNCHANGED <<oprf_key, op, arg, counted, served, calls>>

HasItem(t) ==
  /\ pc[t] = "has_item"
  /\ UnlockRead(t)
  /\ Return(t, IF arg[t] \in hashed_items THEN "yes" ELSE "no")
  /\ UNCHANGED <<db, op, arg, counted, served, calls>>

\* get_bin_bundle_count, which takes the lock again, for one index after the
\* other; RunQuery sends the sum, save writes it ahead of the bundles.
Count(t) ==
  /\ pc[t] \in Counting
  /\ Len(counted[t]) < BundleIdxCount
  /\ MayRead
  /\ counted' = [counted EXCEPT ![t] = Append(@, Cardinality(At(Len(@))))]
  /\ UNCHANGED <<db, lock, pc, op, arg, served, result, calls>>

\* The caches of an index are collected, or its bundles written.
Serve(t) ==
  /\ pc[t] \in Counting
  /\ Len(counted[t]) = BundleIdxCount
  /\ Len(served[t]) < BundleIdxCount
  /\ served' = [served EXCEPT ![t] = Append(@, Cardinality(At(Len(@))))]
  /\ UNCHANGED <<db, lock, pc, op, arg, counted, result, calls>>

Served(t) ==
  /\ pc[t] \in Counting
  /\ Len(served[t]) = BundleIdxCount
  /\ UnlockRead(t)
  /\ Return(t, "ok")
  /\ UNCHANGED <<db, op, arg, counted, served, calls>>

Step(t) ==
  \/ Check(t) \/ CopyKey(t) \/ Lock(t)
  \/ Insert(t) \/ Remove(t) \/ StripFlag(t) \/ StripRest(t) \/ ClearInternal(t)
  \/ HasItem(t) \/ Count(t) \/ Serve(t) \/ Served(t)

Next == \E t \in Thread : Call(t) \/ Step(t)

\* Threads go on with their calls; nobody has to make one.
Spec == Init /\ [][Next]_vars /\ \A t \in Thread : WF_vars(Step(t))

(***************************************************************************)
(* Properties.                                                             *)
(***************************************************************************)
\* The members have their types; a thread that is not in a call, or waits for
\* the lock, does not hold it for reading.
TypeOK ==
  /\ hashed_items \subseteq Item
  /\ bin_bundles \subseteq Bundle
  /\ writer \in Thread \cup {Nobody}
  /\ readers \in [Thread -> 0 .. 1]
  /\ \A t \in Thread : pc[t] \in {"idle", "check", "lock"} => readers[t] = 0
  /\ oprf_key \in {"key", "cleared"}

\* The bundles a query announces, for the response and for its padding, are
\* those it then evaluates; a saved database has as many as it says, although
\* the numbers and the bundles are read at different times.
AsAnnounced ==
  \A t \in Thread : Len(served[t]) = BundleIdxCount => served[t] = counted[t]

\* Every call returns, also one that takes the lock while it holds it.
CallsReturn == \A t \in Thread : pc[t] # "idle" ~> pc[t] = "idle"

\* "Indicates whether the ReceiverDB has been stripped of all information not
\* needed for serving a query."
StrippedOfAll ==
  stripped /\ writer = Nobody =>
    hashed_items = {} /\ \A bb \in bin_bundles : bb.stripped

\* get_oprf_key "Returns a copy of the OPRF key" or throws: the key returned
\* is that of the database, unless it had been cleared before the call.
KeyReturned ==
  \A t \in Thread : op[t] = "get_oprf_key" => result[t] # "cleared"

=============================================================================
