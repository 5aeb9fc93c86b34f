---------------------------- MODULE LocksProofs -----------------------------
(***************************************************************************)
(* What holds of the receiver's threads whatever their number: a query or  *)
(* save announces what it goes on to evaluate or write (DbLock), the pool  *)
(* is there as long as somebody uses it (ThreadPoolMgr), and the tasks     *)
(* that multiply the points of a request by the key write all of them, so  *)
(* that the hashes that come out are those of the database (OPRF).  The    *)
(* three parts do not depend on each other.                                *)
(***************************************************************************)
EXTENDS DbLock, ThreadPoolMgr, FiniteSetTheorems, SequenceTheorems, WellFoundedInduction, TLAPS

-----------------------------------------------------------------------------
(***************************************************************************)
(* That what a query or save announces is what it goes on to evaluate or   *)
(* write, for every number of threads, items and bundle indices and every  *)
(* sequence of calls.                                                      *)
(*                                                                         *)
(* The numbers and the bundles are read one after the other, so the        *)
(* property needs that nothing changes in between.  The invariant has that *)
(* a thread in the middle of a call holds db_lock_ the way the call takes  *)
(* it, that a writer excludes all readers, and that what a reader has      *)
(* counted so far is still the number of bundles there are: only a writer  *)
(* changes that number.                                                    *)
(***************************************************************************)

Calls == {"insert", "remove", "strip", "clear", "has_item", "query", "save",
          "get_oprf_key"}

\* Where a thread is while it holds the lock.
WritesAt == Writing \cup {"strip rest"}
ReadsAt == Counting \cup {"has_item"}
HasNoLock == {"idle", "check", "lock", "copy"}

StateOK ==
  /\ hashed_items \subseteq Item
  /\ bin_bundles \subseteq Bundle
  /\ oprf_key \in {"key", "cleared"}
  /\ writer \in Thread \cup {Nobody}
  /\ readers \in [Thread -> 0 .. 1]
  /\ pc \in [Thread -> HasNoLock \cup WritesAt \cup ReadsAt]
  /\ op \in [Thread -> Calls \cup {"none"}]
  /\ arg \in [Thread -> Item]
  /\ counted \in [Thread -> Seq(Nat)]
  /\ served \in [Thread -> Seq(Nat)]

\* A thread holds the lock as its call does, and a writer is alone.
Held ==
  /\ \A t \in Thread : writer = t <=> pc[t] \in WritesAt
  /\ \A t \in Thread : readers[t] = IF pc[t] \in ReadsAt THEN 1 ELSE 0
  /\ writer # Nobody => \A t \in Thread : readers[t] = 0

\* What a thread will hold the lock for.
Entering ==
  \A t \in Thread :
    /\ pc[t] = "check" => op[t] \in Checked
    /\ pc[t] = "lock" => op[t] \in Calls \ {"get_oprf_key"}
    /\ pc[t] \in {"check", "lock"} => counted[t] = <<>> /\ served[t] = <<>>

\* numbers are those of the first bundle indices.
UpToDate(numbers) ==
  \A i \in 1 .. Len(numbers) : numbers[i] = Cardinality(At(i - 1))

Reading(t) ==
  /\ UpToDate(counted[t]) /\ UpToDate(served[t])
  /\ Len(counted[t]) <= BundleIdxCount
  /\ served[t] # <<>> => Len(counted[t]) = BundleIdxCount

LInv ==
  /\ StateOK
  /\ Held
  /\ Entering
  /\ \A t \in Thread : pc[t] \in Counting => Reading(t)
  /\ AsAnnounced

-----------------------------------------------------------------------------

\* There are finitely many bundles at an index.
LEMMA BundlesFinite ==
  ASSUME DbLockAssumption, bin_bundles \subseteq Bundle
  PROVE  \A b : Cardinality(At(b)) \in Nat
  <1> DEFINE pairs == Item \X (0 .. 1)
             f == [p \in pairs |-> [item |-> p[1], stripped |-> p[2] = 1]]
  <1>1. IsFiniteSet(pairs)
    <2>1. IsFiniteSet(0 .. 1)
      <3>1. PICK a \in Int, b \in Int : a = 0 /\ b = 1 OBVIOUS
      <3>2. IsFiniteSet(a .. b) BY FS_Interval
      <3> QED BY <3>1, <3>2
    <2> QED BY <2>1, FS_Product DEF DbLockAssumption
  <1>2. f \in Surjection(pairs, Bundle)
    <2>1. f \in [pairs -> Bundle] BY DEF Bundle
    <2>2. ASSUME NEW bb \in Bundle PROVE \E p \in pairs : f[p] = bb
      <3>1. CASE bb.stripped
        <4>1. <<bb.item, 1>> \in pairs /\ f[<<bb.item, 1>>] = bb BY <3>1 DEF Bundle
        <4> QED BY <4>1
      <3>2. CASE ~ bb.stripped
        <4>1. <<bb.item, 0>> \in pairs /\ f[<<bb.item, 0>>] = bb BY <3>2 DEF Bundle
        <4> QED BY <4>1
      <3> QED BY <3>1, <3>2
    <2> QED BY <2>1, <2>2 DEF Surjection
  <1>3. IsFiniteSet(Bundle) BY <1>1, <1>2, FS_Surjection
  <1>4. \A b : At(b) \subseteq Bundle BY DEF At
  <1> QED BY <1>3, <1>4, FS_Subset, FS_CardinalityType

\* The number of bundle indices.
LEMMA IndicesFinite == DbLockAssumption => BundleIdxCount \in Nat
  <1> SUFFICES ASSUME DbLockAssumption PROVE BundleIdxCount \in Nat OBVIOUS
  <1>1. IsFiniteSet(Item) /\ BundleIdx \in [Item -> Nat] BY DEF DbLockAssumption
  <1>2. BundleIdx \in Surjection(Item, {BundleIdx[x] : x \in Item})
    BY <1>1 DEF Surjection
  <1>3. IsFiniteSet({BundleIdx[x] : x \in Item}) BY <1>1, <1>2, FS_Surjection
  <1> QED BY <1>3, FS_CardinalityType DEF BundleIdxCount

\* Nothing is held or read.
LEMMA InitLInv == DbLockAssumption /\ Init => LInv
  <1> SUFFICES ASSUME DbLockAssumption, Init PROVE LInv OBVIOUS
  <1>1. StateOK BY DEF Init, StateOK, HasNoLock
  <1>2. Held
    BY DEF DbLockAssumption, Init, Held, Nobody, WritesAt, Writing, ReadsAt, Counting
  <1>3. \A t \in Thread : pc[t] = "idle" /\ counted[t] = <<>> /\ served[t] = <<>>
    BY DEF Init
  <1> QED BY <1>1, <1>2, <1>3 DEF LInv, Entering, AsAnnounced, Counting

\* Steps without the lock: a call begins, is refused, or copies the key.
LEMMA Unlocked ==
  ASSUME DbLockAssumption, LInv, NEW t \in Thread,
         Call(t) \/ Check(t) \/ CopyKey(t)
  PROVE  LInv'
  <1> USE DEF LInv, StateOK
  <1>1. /\ UNCHANGED <<db, lock>>
        /\ pc[t] \in HasNoLock /\ pc'[t] \in HasNoLock
        /\ pc' = [pc EXCEPT ![t] = pc'[t]]
        /\ op' = [op EXCEPT ![t] = op'[t]] /\ op'[t] \in Calls \cup {"none"}
        /\ arg' = [arg EXCEPT ![t] = arg'[t]] /\ arg'[t] \in Item
        /\ counted' = [counted EXCEPT ![t] = counted'[t]]
        /\ served' = [served EXCEPT ![t] = served'[t]]
        /\ \/ UNCHANGED <<counted, served>>
           \/ counted'[t] = <<>> /\ served'[t] = <<>>
        /\ pc'[t] = "check" => op'[t] \in Checked
        /\ pc'[t] = "lock" => op'[t] \in Calls \ {"get_oprf_key"}
        /\ pc'[t] \in {"check", "lock"} => counted'[t] = <<>> /\ served'[t] = <<>>
    <2>1. CASE Call(t)
      <3>1. PICK o \in Ops, x \in Item :
              /\ op' = [op EXCEPT ![t] = o]
              /\ arg' = [arg EXCEPT ![t] = x]
              /\ pc' = [pc EXCEPT ![t] = IF o \in Checked THEN "check" ELSE "lock"]
        BY <2>1 DEF Call, Goto
      <3>2. o \in Calls BY DEF DbLockAssumption, Calls
      <3>3. /\ pc[t] = "idle" /\ UNCHANGED <<db, lock>>
            /\ counted' = [counted EXCEPT ![t] = <<>>]
            /\ served' = [served EXCEPT ![t] = <<>>]
        BY <2>1 DEF Call
      <3> QED BY <3>1, <3>2, <3>3 DEF HasNoLock, Checked
    <2>2. CASE Check(t)
      BY <2>2 DEF Check, Goto, Return, HasNoLock, Entering, Checked, Calls
    <2>3. CASE CopyKey(t)
      BY <2>3 DEF CopyKey, Goto, Return, HasNoLock
    <2> QED BY <2>1, <2>2, <2>3
  <1>2. StateOK'
    <2>1. counted'[t] \in Seq(Nat) /\ served'[t] \in Seq(Nat)
      <3>1. <<>> \in Seq(Nat) OBVIOUS
      <3>2. CASE counted'[t] = <<>> /\ served'[t] = <<>> BY <3>1, <3>2
      <3>3. CASE UNCHANGED <<counted, served>> BY <3>3
      <3> QED BY <1>1, <3>2, <3>3
    <2> QED BY <1>1, <2>1 DEF db, lock
  <1>3. Held'
    BY <1>1 DEF Held, lock, HasNoLock, WritesAt, Writing, ReadsAt, Counting
  <1>4. Entering' BY <1>1 DEF Entering
  <1>5. ASSUME NEW u \in Thread, pc'[u] \in Counting PROVE Reading(u)'
    <2>1. u # t BY <1>1, <1>5 DEF HasNoLock, Counting
    <2>2. /\ counted'[u] = counted[u] /\ served'[u] = served[u]
          /\ Reading(u) /\ bin_bundles' = bin_bundles
      BY <1>1, <1>5, <2>1 DEF db
    <2> QED BY <2>2 DEF Reading, UpToDate, At
  <1>6. AsAnnounced' BY <1>1 DEF AsAnnounced
  <1> QED BY <1>2, <1>3, <1>4, <1>5, <1>6

\* A thread gets the lock.
LEMMA LockLInv ==
  ASSUME DbLockAssumption, LInv, NEW t \in Thread, Lock(t)
  PROVE  LInv'
  <1> USE DEF LInv, StateOK
  <1>1. /\ UNCHANGED <<db, op, arg, counted, served>>
        /\ pc[t] = "lock" /\ pc' = [pc EXCEPT ![t] = op[t]]
        /\ op[t] \in Calls \ {"get_oprf_key"}
        /\ counted[t] = <<>> /\ served[t] = <<>>
    BY DEF Lock, Goto, Entering
  <1>2. writer = Nobody /\ t # Nobody
    BY DEF Lock, MayRead, MayWrite, DbLockAssumption, Nobody
  <1>3. \/ /\ op[t] \in Writing
           /\ \A u \in Thread : readers[u] = 0
           /\ writer' = t /\ UNCHANGED readers
        \/ /\ op[t] \notin Writing
           /\ readers' = [readers EXCEPT ![t] = @ + 1] /\ UNCHANGED writer
    BY DEF Lock, MayRead, MayWrite
  <1>4. op[t] \in Writing \/ op[t] \in ReadsAt
    BY <1>1 DEF Calls, Writing, ReadsAt, Counting
  <1>5. readers[t] = 0 BY <1>1 DEF Held, ReadsAt, Counting
  <1>6. StateOK'
    <2>1. op[t] \in HasNoLock \cup WritesAt \cup ReadsAt BY <1>4 DEF WritesAt
    <2> QED BY <1>1, <1>3, <1>5, <2>1 DEF db
  <1>7. Held'
    <2>1. pc[t] \notin WritesAt \cup ReadsAt
      BY <1>1 DEF WritesAt, Writing, ReadsAt, Counting
    <2>2. CASE op[t] \in Writing
      <3>1. writer' = t /\ readers' = readers /\ \A u \in Thread : readers[u] = 0
        BY <1>3, <2>2
      <3>2. op[t] \in WritesAt /\ op[t] \notin ReadsAt
        BY <2>2 DEF WritesAt, Writing, ReadsAt, Counting
      <3>3. \A u \in Thread : pc[u] \notin WritesAt BY <1>2 DEF Held, DbLockAssumption, Nobody
      <3> QED BY <1>1, <2>1, <3>1, <3>2, <3>3 DEF Held
    <2>3. CASE op[t] \notin Writing
      <3>1. writer' = Nobody /\ readers' = [readers EXCEPT ![t] = 1]
        BY <1>2, <1>3, <1>5, <2>3
      <3>2. op[t] \in ReadsAt /\ op[t] \notin WritesAt
        BY <1>4, <2>3 DEF WritesAt, Writing, ReadsAt, Counting
      <3>3. \A u \in Thread : u # Nobody BY DEF DbLockAssumption, Nobody
      <3>4. \A u \in Thread : pc'[u] \notin WritesAt
        BY <1>1, <1>2, <3>2, <3>3 DEF Held
      <3> QED BY <1>1, <2>1, <3>1, <3>2, <3>3, <3>4 DEF Held
    <2> QED BY <2>2, <2>3
  <1>8. Entering' BY <1>1, <1>4 DEF Entering, Writing, ReadsAt, Counting
  <1>9. ASSUME NEW u \in Thread, pc'[u] \in Counting PROVE Reading(u)'
    <2>1. bin_bundles' = bin_bundles /\ counted' = counted /\ served' = served
      BY <1>1 DEF db
    <2>2. CASE u = t
      <3>1. Len(counted[u]) = 0 /\ Len(served[u]) = 0 BY <1>1, <2>2
      <3>2. BundleIdxCount \in Nat BY IndicesFinite
      <3> QED BY <1>1, <2>1, <2>2, <3>1, <3>2 DEF Reading, UpToDate
    <2>3. CASE u # t
      <3>1. Reading(u) BY <1>1, <1>9, <2>3
      <3> QED BY ONLY <2>1, <3>1 DEF Reading, UpToDate, At
    <2> QED BY <2>2, <2>3
  <1>10. AsAnnounced' BY <1>1 DEF AsAnnounced
  <1> QED BY <1>6, <1>7, <1>8, <1>9, <1>10

\* A writer changes the database while nobody reads.
LEMMA WriteLInv ==
  ASSUME DbLockAssumption, LInv, NEW t \in Thread,
         \/ Insert(t) \/ Remove(t) \/ StripFlag(t) \/ StripRest(t)
         \/ ClearInternal(t)
  PROVE  LInv'
  <1> USE DEF LInv, StateOK
  <1>1. /\ UNCHANGED <<op, arg, counted, served, readers>>
        /\ pc[t] \in WritesAt
        /\ pc' = [pc EXCEPT ![t] = pc'[t]]
        /\ \/ pc'[t] = "idle" /\ writer' = Nobody
           \/ pc'[t] = "strip rest" /\ writer' = writer
    BY DEF Insert, Remove, StripFlag, StripRest, ClearInternal, Goto, Return,
           UnlockWrite, lock, WritesAt, Writing
  <1>2. writer = t /\ t # Nobody BY <1>1 DEF Held, DbLockAssumption, Nobody
  <1>3. \A u \in Thread : readers[u] = 0 BY <1>2 DEF Held
  <1>4. \A u \in Thread : pc[u] \notin ReadsAt BY <1>3 DEF Held
  <1>5. /\ hashed_items' \subseteq Item /\ bin_bundles' \subseteq Bundle
        /\ oprf_key' \in {"key", "cleared"}
    <2>1. CASE Insert(t)
      <3>1. [item |-> arg[t], stripped |-> FALSE] \in Bundle BY DEF Bundle
      <3> QED BY <2>1, <3>1 DEF Insert
    <2>2. CASE Remove(t) BY <2>2 DEF Remove
    <2>3. CASE StripFlag(t) BY <2>3 DEF StripFlag
    <2>4. CASE StripRest(t)
      <3>1. \A bb \in Bundle : [bb EXCEPT !.stripped = TRUE] \in Bundle BY DEF Bundle
      <3> QED BY <2>4, <3>1 DEF StripRest
    <2>5. CASE ClearInternal(t) BY <2>5 DEF ClearInternal
    <2> QED BY <2>1, <2>2, <2>3, <2>4, <2>5
  <1>6. StateOK'
    <2>1. pc'[t] \in HasNoLock \cup WritesAt BY <1>1 DEF HasNoLock, WritesAt
    <2> QED BY <1>1, <1>2, <1>5, <2>1
  <1>7. Held'
    <2>1. \A u \in Thread : u # t => pc[u] \notin WritesAt BY <1>2 DEF Held
    <2>2. \A u \in Thread : pc'[u] \notin ReadsAt
      BY <1>1, <1>4 DEF ReadsAt, Counting
    <2>3. \A u \in Thread : readers'[u] = 0 BY <1>1, <1>3
    <2>4. \A u \in Thread : writer' = u <=> pc'[u] \in WritesAt
      <3>1. \A u \in Thread : u # Nobody BY DEF DbLockAssumption, Nobody
      <3>2. CASE pc'[t] = "idle" /\ writer' = Nobody
        BY <1>1, <2>1, <3>1, <3>2 DEF WritesAt, Writing
      <3>3. CASE pc'[t] = "strip rest" /\ writer' = writer
        BY <1>1, <1>2, <2>1, <3>3 DEF WritesAt
      <3> QED BY <1>1, <3>2, <3>3
    <2> QED BY <2>2, <2>3, <2>4 DEF Held
  <1>8. Entering' BY <1>1 DEF Entering
  <1>9. \A u \in Thread : pc'[u] \notin Counting
    BY <1>1, <1>4 DEF ReadsAt, Counting
  <1>10. AsAnnounced' BY <1>1 DEF AsAnnounced
  <1> QED BY <1>6, <1>7, <1>8, <1>9, <1>10

\* A reader is done; a query has served as many indices as there are.
LEMMA UnlockLInv ==
  ASSUME DbLockAssumption, LInv, NEW t \in Thread, HasItem(t) \/ Served(t)
  PROVE  LInv'
  <1> USE DEF LInv, StateOK
  <1>1. /\ UNCHANGED <<db, op, arg, counted, served, writer>>
        /\ pc[t] \in ReadsAt
        /\ pc' = [pc EXCEPT ![t] = "idle"]
        /\ readers' = [readers EXCEPT ![t] = @ - 1]
    BY DEF HasItem, Served, Return, Goto, UnlockRead, ReadsAt
  <1>2. readers[t] = 1 BY <1>1 DEF Held
  <1>3. StateOK' BY <1>1, <1>2 DEF HasNoLock, db
  <1>4. Held'
    <2>1. writer = Nobody BY <1>2 DEF Held
    <2>2. \A u \in Thread : pc[u] \notin WritesAt
      BY <2>1 DEF Held, DbLockAssumption, Nobody
    <2>3. "idle" \notin WritesAt /\ "idle" \notin ReadsAt
      BY DEF WritesAt, Writing, ReadsAt, Counting
    <2>4. readers' = [readers EXCEPT ![t] = 0] BY <1>1, <1>2
    <2>5. \A u \in Thread : writer' = u <=> pc'[u] \in WritesAt
      BY <1>1, <2>1, <2>2, <2>3 DEF DbLockAssumption, Nobody
    <2>6. \A u \in Thread : readers'[u] = IF pc'[u] \in ReadsAt THEN 1 ELSE 0
      BY <1>1, <2>3, <2>4 DEF Held
    <2> QED BY <1>1, <2>1, <2>5, <2>6 DEF Held
  <1>5. Entering' BY <1>1 DEF Entering
  <1>6. ASSUME NEW u \in Thread, pc'[u] \in Counting PROVE Reading(u)'
    <2>1. u # t BY <1>1, <1>6 DEF Counting
    <2> QED BY <1>1, <1>6, <2>1 DEF Reading, UpToDate, At, db
  <1>7. AsAnnounced' BY <1>1 DEF AsAnnounced
  <1> QED BY <1>3, <1>4, <1>5, <1>6, <1>7

\* One more number that is up to date.
LEMMA OneMore ==
  ASSUME DbLockAssumption, LInv, NEW numbers \in Seq(Nat), UpToDate(numbers)
  PROVE  LET more == Append(numbers, Cardinality(At(Len(numbers))))
         IN  /\ more \in Seq(Nat) /\ UpToDate(more)
             /\ Len(more) = Len(numbers) + 1 /\ more # <<>>
  <1> DEFINE n == Cardinality(At(Len(numbers)))
             more == Append(numbers, n)
  <1>1. n \in Nat BY BundlesFinite DEF LInv, StateOK
  <1> HIDE DEF n
  <1>2. /\ more \in Seq(Nat) /\ Len(more) = Len(numbers) + 1 /\ more # <<>>
        /\ \A i \in 1 .. Len(numbers) : more[i] = numbers[i]
        /\ more[Len(numbers) + 1] = n
        /\ Len(numbers) \in Nat
    BY <1>1
  <1> HIDE DEF more
  <1>3. ASSUME NEW i \in 1 .. Len(more) PROVE more[i] = Cardinality(At(i - 1))
    <2>1. CASE i = Len(numbers) + 1
      <3>1. i - 1 = Len(numbers) BY <1>2, <2>1
      <3> QED BY <1>2, <2>1, <3>1 DEF n
    <2>2. CASE i # Len(numbers) + 1
      <3>1. i \in 1 .. Len(numbers) BY <1>2, <2>2
      <3> QED BY <1>2, <3>1 DEF UpToDate
    <2> QED BY <2>1, <2>2
  <1>4. UpToDate(more) BY <1>3 DEF UpToDate
  <1> QED BY <1>2, <1>4 DEF more, n

\* Numbers up to date for the same indices are the same.
LEMMA SameNumbers ==
  ASSUME NEW m \in Seq(Nat), NEW n \in Seq(Nat), UpToDate(m), UpToDate(n),
         Len(m) = Len(n)
  PROVE  m = n
  BY DEF UpToDate

\* The next index is counted.
LEMMA CountLInv ==
  ASSUME DbLockAssumption, LInv, NEW t \in Thread, Count(t)
  PROVE  LInv'
  <1> USE DEF LInv, StateOK
  <1> DEFINE more == Append(counted[t], Cardinality(At(Len(counted[t]))))
  <1>1. /\ UNCHANGED <<db, lock, pc, op, arg, served>>
        /\ counted' = [counted EXCEPT ![t] = more]
        /\ pc[t] \in Counting /\ Len(counted[t]) < BundleIdxCount
    BY DEF Count
  <1>2. Reading(t) BY <1>1
  <1>3. BundleIdxCount \in Nat BY IndicesFinite
  <1>4. served[t] = <<>> /\ Len(counted[t]) \in Nat
    BY <1>1, <1>2, <1>3 DEF Reading
  <1>5. /\ more \in Seq(Nat) /\ UpToDate(more) /\ Len(more) = Len(counted[t]) + 1
    BY <1>2, OneMore DEF Reading
  <1> HIDE DEF more
  <1>6. bin_bundles' = bin_bundles BY <1>1 DEF db
  <1>7. StateOK' BY <1>1, <1>5 DEF db, lock
  <1>8. Held' BY <1>1 DEF Held, lock
  <1>9. Entering' BY <1>1 DEF Entering, Counting
  <1>10. ASSUME NEW u \in Thread, pc'[u] \in Counting PROVE Reading(u)'
    <2>1. CASE u = t
      <3>1. counted'[u] = more /\ served'[u] = <<>> BY <1>1, <1>4, <2>1
      <3>2. UpToDate(served[t]) BY <1>2 DEF Reading
      <3> QED BY <1>1, <1>3, <1>4, <1>5, <1>6, <2>1, <3>1, <3>2 DEF Reading, UpToDate, At
    <2>2. CASE u # t
      <3>1. counted'[u] = counted[u] /\ served'[u] = served[u] /\ Reading(u)
        BY <1>1, <1>10, <2>2
      <3> QED BY <1>6, <3>1 DEF Reading, UpToDate, At
    <2> QED BY <2>1, <2>2
  <1>11. AsAnnounced'
    <2> SUFFICES ASSUME NEW u \in Thread, Len(served'[u]) = BundleIdxCount
                 PROVE  served'[u] = counted'[u]
      BY DEF AsAnnounced
    <2>1. u # t BY <1>1, <1>3, <1>4
    <2> QED BY <1>1, <2>1 DEF AsAnnounced
  <1> QED BY <1>7, <1>8, <1>9, <1>10, <1>11

\* The next index is served.
LEMMA ServeLInv ==
  ASSUME DbLockAssumption, LInv, NEW t \in Thread, Serve(t)
  PROVE  LInv'
  <1> USE DEF LInv, StateOK
  <1> DEFINE more == Append(served[t], Cardinality(At(Len(served[t]))))
  <1>1. /\ UNCHANGED <<db, lock, pc, op, arg, counted>>
        /\ served' = [served EXCEPT ![t] = more]
        /\ pc[t] \in Counting /\ Len(counted[t]) = BundleIdxCount
    BY DEF Serve
  <1>2. Reading(t) BY <1>1
  <1>3. more \in Seq(Nat) /\ UpToDate(more) BY <1>2, OneMore DEF Reading
  <1> HIDE DEF more
  <1>4. bin_bundles' = bin_bundles BY <1>1 DEF db
  <1>5. StateOK' BY <1>1, <1>3 DEF db, lock
  <1>6. Held' BY <1>1 DEF Held, lock
  <1>7. Entering' BY <1>1 DEF Entering, Counting
  <1>8. ASSUME NEW u \in Thread, pc'[u] \in Counting PROVE Reading(u)'
    <2>1. CASE u = t
      <3>1. counted'[u] = counted[t] /\ served'[u] = more BY <1>1, <2>1
      <3> QED BY <1>1, <1>2, <1>3, <1>4, <2>1, <3>1 DEF Reading, UpToDate, At
    <2>2. CASE u # t
      <3>1. counted'[u] = counted[u] /\ served'[u] = served[u] /\ Reading(u)
        BY <1>1, <1>8, <2>2
      <3> QED BY <1>4, <3>1 DEF Reading, UpToDate, At
    <2> QED BY <2>1, <2>2
  <1>9. AsAnnounced'
    <2> SUFFICES ASSUME NEW u \in Thread, Len(served'[u]) = BundleIdxCount
                 PROVE  served'[u] = counted'[u]
      BY DEF AsAnnounced
    <2>1. CASE u = t
      <3>1. Len(more) = Len(counted[t]) BY <1>1, <2>1
      <3>2. more = counted[t] BY <1>2, <1>3, <3>1, SameNumbers DEF Reading
      <3> QED BY <1>1, <2>1, <3>2
    <2>2. CASE u # t BY <1>1, <2>2 DEF AsAnnounced
    <2> QED BY <2>1, <2>2
  <1> QED BY <1>5, <1>6, <1>7, <1>8, <1>9

\* The invariant is inductive.
LEMMA NextLInv ==
  ASSUME DbLockAssumption, LInv, [Next]_vars
  PROVE  LInv'
  <1>1. ASSUME NEW t \in Thread, Call(t) \/ Step(t) PROVE LInv'
    BY <1>1, Unlocked, LockLInv, WriteLInv, UnlockLInv, CountLInv, ServeLInv DEF Step
  <1>2. CASE UNCHANGED vars
    BY <1>2 DEF vars, db, lock, LInv, StateOK, Held, Entering, Reading, UpToDate, At,
                AsAnnounced
  <1> QED BY <1>1, <1>2 DEF Next

(***************************************************************************)
(* For every number of threads, items and bundle indices: while threads    *)
(* insert, remove, strip and clear, the bundles a query announces are      *)
(* those it evaluates, and a saved database has as many as it says.        *)
(***************************************************************************)
THEOREM Announced ==
  ASSUME DbLockAssumption
  PROVE  Spec => [](TypeOK /\ AsAnnounced)
  <1>1. Init => LInv BY InitLInv
  <1>2. LInv /\ [Next]_vars => LInv' BY NextLInv
  <1>3. LInv => TypeOK /\ AsAnnounced
    <2> SUFFICES ASSUME LInv PROVE TypeOK /\ AsAnnounced OBVIOUS
    <2>1. \A t \in Thread : pc[t] \in {"idle", "check", "lock"} => readers[t] = 0
      BY DEF LInv, Held, ReadsAt, Counting
    <2> QED BY <2>1 DEF LInv, StateOK, TypeOK
  <1> QED BY <1>1, <1>2, <1>3, PTL DEF Spec

-----------------------------------------------------------------------------
(***************************************************************************)
(* That the pool is there as long as somebody uses it, for every number of *)
(* callers, tasks and threads, however calls nest, fail and change the     *)
(* number of threads: MgrSpec => []PoolOutlivesTasks.                      *)
(*                                                                         *)
(* The reference count is that of the frames with a manager.  It could be  *)
(* wrong if a frame began twice, so the invariant follows the tasks: those *)
(* a frame is still to enqueue are new, and a stale bundle's task that is  *)
(* queued, which is there once, has no frame yet.  That a call sees every  *)
(* failure needs that the tasks it has gone past stay returned.            *)
(***************************************************************************)

TaskState == {"none", "queued", "running", "returned", "threw"}
FrameState == {"none", "called", "enqueueing", "waiting", "leaving", "unwinding",
               "destroying", "returned", "threw"}

Managers == {f \in Frame : Live(f)}

Typed ==
  /\ ref_count_ \in Nat /\ thread_pool_ \in BOOLEAN
  /\ thread_count \in Nat /\ pool_size \in Nat
  /\ queue \in Seq(Task)
  /\ task \in [Task -> TaskState]
  /\ frame \in [Frame -> [state : FrameState, at : Nat \ {0}]]
  /\ IsFiniteSet(Managers)

Distinct(s) == \A i, j \in 1 .. Len(s) : s[i] = s[j] => i = j
Elements(s) == {s[i] : i \in 1 .. Len(s)}

New(f, n) == task[Append(f, n)] = "none"
Done(f, n) == task[Append(f, n)] = "returned"

\* A frame that got all its futures without an exception.
Succeeded(f) ==
  \/ frame[f].state \in {"leaving", "returned"}
  \/ Is(f, "destroying") /\ frame[f].at = 1

\* How far a frame is with its tasks.
Progress(f) ==
  LET at == frame[f].at
  IN  /\ frame[f].state \in {"none", "called"} => \A n \in 1 .. Width(f) : New(f, n)
      /\ Is(f, "enqueueing") => at <= Width(f) /\ \A n \in at .. Width(f) : New(f, n)
      /\ Is(f, "waiting") => at <= Width(f) /\ \A n \in 1 .. at - 1 : Done(f, n)
      /\ Succeeded(f) => \A n \in 1 .. Width(f) : Done(f, n)

\* The task of a stale bundle begins as a call when a worker takes it.
Unbegun ==
  \A t \in Stale : task[t] \in {"none", "queued"} => Is(t, "none")

KInv ==
  /\ Typed
  /\ MgrTypeOK
  /\ Distinct(queue)
  /\ \A f \in Frame : Progress(f)
  /\ Unbegun
  /\ PoolIsThere
  /\ DestroyedAlone

-----------------------------------------------------------------------------
(* Tasks, frames and the queue.                                            *)

\* A task pushed is queued once more, and it alone.
LEMMA PushedTask ==
  ASSUME NEW S, NEW s \in Seq(S), NEW t \in S, Distinct(s), t \notin Elements(s)
  PROVE  /\ Append(s, t) \in Seq(S) /\ Append(s, t) # <<>>
         /\ Len(s) \in Nat /\ Len(Append(s, t)) = Len(s) + 1
         /\ Distinct(Append(s, t))
         /\ Elements(Append(s, t)) = Elements(s) \union {t}
  <1>1. /\ Append(s, t) \in Seq(S) /\ Append(s, t) # <<>>
        /\ Len(s) \in Nat /\ Len(Append(s, t)) = Len(s) + 1
        /\ \A i \in 1 .. Len(s) : Append(s, t)[i] = s[i]
        /\ Append(s, t)[Len(s) + 1] = t
    OBVIOUS
  <1>2. Distinct(Append(s, t)) BY <1>1 DEF Distinct, Elements
  <1>3. Elements(Append(s, t)) = Elements(s) \union {t}
    BY <1>1 DEF Elements
  <1> QED BY <1>1, <1>2, <1>3

\* A task taken is not queued any more, and it alone.
LEMMA TakenTask ==
  ASSUME NEW S, NEW s \in Seq(S), s # <<>>, Distinct(s)
  PROVE  /\ Head(s) \in S /\ Head(s) \in Elements(s)
         /\ Tail(s) \in Seq(S)
         /\ Len(s) \in Nat /\ Len(s) > 0 /\ Len(Tail(s)) = Len(s) - 1
         /\ Distinct(Tail(s))
         /\ Elements(Tail(s)) = Elements(s) \ {Head(s)}
  <1>1. /\ Head(s) = s[1] /\ Tail(s) \in Seq(S)
        /\ Len(s) \in Nat /\ Len(s) > 0 /\ Len(Tail(s)) = Len(s) - 1
        /\ \A i \in 1 .. Len(s) - 1 : Tail(s)[i] = s[i + 1]
        /\ \A i \in 1 .. Len(s) : s[i] \in S
    OBVIOUS
  <1>2. Head(s) \in S /\ Head(s) \in Elements(s) BY <1>1 DEF Elements
  <1>3. Distinct(Tail(s)) BY <1>1 DEF Distinct
  <1>4. Elements(Tail(s)) = Elements(s) \ {Head(s)}
    <2>1. ASSUME NEW i \in 1 .. Len(Tail(s))
          PROVE  Tail(s)[i] \in Elements(s) \ {Head(s)}
      <3>1. i + 1 \in 1 .. Len(s) /\ 1 \in 1 .. Len(s) /\ i + 1 # 1
        BY <1>1, <2>1
      <3>2. Tail(s)[i] = s[i + 1] BY <1>1, <2>1
      <3>3. s[i + 1] # s[1] BY <3>1 DEF Distinct
      <3> QED BY <1>1, <3>1, <3>2, <3>3 DEF Elements
    <2>2. ASSUME NEW i \in 1 .. Len(s), s[i] # Head(s)
          PROVE  s[i] \in Elements(Tail(s))
      <3>1. i # 1 BY <1>1, <2>2
      <3>2. i - 1 \in 1 .. Len(Tail(s)) /\ (i - 1) + 1 = i
        BY <1>1, <2>2, <3>1
      <3>3. Tail(s)[i - 1] = s[i] BY <1>1, <3>2
      <3> QED BY <3>2, <3>3 DEF Elements
    <2> QED BY <2>1, <2>2 DEF Elements
  <1> QED BY <1>1, <1>2, <1>3, <1>4

LEMMA AppendOne ==
  ASSUME NEW c, NEW n
  PROVE  Append(<<c>>, n) = <<c, n>>
  <1>1. ASSUME NEW S, NEW s \in Seq(S), NEW u \in Seq(S), NEW e \in S,
               Len(s) = 1, Len(u) = 2, u[1] = s[1], u[2] = e
        PROVE  Append(s, e) = u
    <2> DEFINE a == Append(s, e)
    <2>1. /\ a \in Seq(S) /\ Len(a) = Len(s) + 1
          /\ \A i \in 1 .. Len(s) : a[i] = s[i]
          /\ a[Len(s) + 1] = e
      BY AppendProperties
    <2> HIDE DEF a
    <2>2. a \in Seq(S) /\ Len(a) = 2 /\ a[1] = s[1] /\ a[2] = e BY <1>1, <2>1
    <2>3. \A i \in 1 .. 2 : a[i] = u[i] BY <1>1, <2>2
    <2>4. a = u BY <1>1, <2>2, <2>3, SeqEqual
    <2> QED BY <2>4 DEF a
  <1>2. <<c>> \in Seq({c, n}) /\ Len(<<c>>) = 1 /\ <<c>>[1] = c OBVIOUS
  <1>3. <<c, n>> \in Seq({c, n}) /\ Len(<<c, n>>) = 2 /\ <<c, n>>[1] = c /\ <<c, n>>[2] = n
    OBVIOUS
  <1> DEFINE S == {c, n}
             s == <<c>>
             u == <<c, n>>
  <1>4. s \in Seq(S) /\ u \in Seq(S) /\ n \in S BY <1>2, <1>3
  <1>5. Len(s) = 1 /\ Len(u) = 2 /\ u[1] = s[1] /\ u[2] = n BY <1>2, <1>3
  <1> HIDE DEF S, s, u
  <1>6. Append(s, n) = u BY <1>1, <1>4, <1>5
  <1> QED BY <1>6 DEF s, u

LEMMA FramesAreSequences ==
  ASSUME ThreadPoolMgrAssumption
  PROVE  Frame \subseteq Seq(Caller \cup Nat)
  <1>1. \A c \in Caller : <<c>> \in Seq(Caller \cup Nat) OBVIOUS
  <1>2. \A t \in Stale : t \in Seq(Caller \cup Nat)
    <2> SUFFICES ASSUME NEW t \in Stale PROVE t \in Seq(Caller \cup Nat) OBVIOUS
    <2>1. PICK c \in Caller, n \in 1 .. Bundles : t = <<c, n>>
      BY DEF ThreadPoolMgrAssumption
    <2>2. n \in Nat OBVIOUS
    <2>3. \A d \in Caller, k \in Nat : <<d, k>> \in Seq(Caller \cup Nat) OBVIOUS
    <2> QED BY <2>1, <2>2, <2>3
  <1> QED BY <1>1, <1>2 DEF Frame

\* A frame has at least one task, and a stale bundle's task is a frame.
LEMMA Frames ==
  ASSUME ThreadPoolMgrAssumption
  PROVE  /\ Stale \subseteq Frame /\ Stale \subseteq Task
         /\ \A f \in Frame : Width(f) \in Nat \ {0}
         /\ \A f \in Frame : \A n \in 1 .. Width(f) : Append(f, n) \in Task
         /\ \A t \in Task : \E f \in Frame : \E n \in 1 .. Width(f) : t = Append(f, n)
  <1>1. Stale \subseteq Frame BY DEF Frame
  <1>2. \A f \in Frame : Width(f) \in Nat \ {0} BY DEF Width, ThreadPoolMgrAssumption
  <1>3. \A f \in Frame : \A n \in 1 .. Width(f) : Append(f, n) \in Task
    BY DEF Task, TasksOf
  <1>4. \A t \in Task : \E f \in Frame : \E n \in 1 .. Width(f) : t = Append(f, n)
    BY DEF Task, TasksOf
  <1>5. Stale \subseteq Task
    <2> SUFFICES ASSUME NEW t \in Stale PROVE t \in Task OBVIOUS
    <2>1. PICK c \in Caller, n \in 1 .. Bundles : t = <<c, n>>
      BY DEF ThreadPoolMgrAssumption
    <2>2. <<c>> \in Frame /\ Width(<<c>>) = Bundles BY DEF Frame, Width
    <2>3. Append(<<c>>, n) = <<c, n>> BY AppendOne
    <2> QED BY <1>3, <2>1, <2>2, <2>3
  <1> QED BY <1>1, <1>2, <1>3, <1>4, <1>5

\* A task is of one frame.
LEMMA Apart ==
  ASSUME ThreadPoolMgrAssumption, NEW f \in Frame, NEW g \in Frame,
         NEW n \in Nat, NEW m \in Nat, Append(f, n) = Append(g, m)
  PROVE  f = g /\ n = m
  <1> DEFINE S == Caller \cup Nat
  <1>1. f \in Seq(S) /\ g \in Seq(S) BY FramesAreSequences
  <1>2. n \in S /\ m \in S OBVIOUS
  <1> HIDE DEF S
  <1> QED BY <1>1, <1>2, AppendInjective

\* A frame that does not move keeps its progress, whatever becomes of the
\* tasks that are queued or run.
LEMMA SameProgress ==
  ASSUME NEW f \in Frame, Progress(f), frame'[f] = frame[f],
         \A n \in 1 .. Width(f) : New(f, n) \/ Done(f, n) =>
           task'[Append(f, n)] = task[Append(f, n)],
         frame[f].at \in Nat \ {0}, Width(f) \in Nat
  PROVE  Progress(f)'
  <1> DEFINE at == frame[f].at
             w == Width(f)
  <1>1. \A n \in 1 .. w : (New(f, n) => New(f, n)') /\ (Done(f, n) => Done(f, n)')
    BY DEF New, Done
  <1>2. frame'[f].state = frame[f].state /\ frame'[f].at = at OBVIOUS
  <1>3. frame[f].state \in {"none", "called"} => \A n \in 1 .. w : New(f, n)'
    BY <1>1 DEF Progress
  <1>4. ASSUME Is(f, "enqueueing") PROVE at <= w /\ \A n \in at .. w : New(f, n)'
    <2>1. at <= w /\ \A n \in at .. w : New(f, n) BY <1>4 DEF Progress
    <2>2. \A n \in at .. w : n \in 1 .. w OBVIOUS
    <2> QED BY <1>1, <2>1, <2>2
  <1>5. ASSUME Is(f, "waiting") PROVE at <= w /\ \A n \in 1 .. at - 1 : Done(f, n)'
    <2>1. at <= w /\ \A n \in 1 .. at - 1 : Done(f, n) BY <1>5 DEF Progress
    <2>2. \A n \in 1 .. at - 1 : n \in 1 .. w BY <2>1
    <2> QED BY <1>1, <2>1, <2>2
  <1>6. Succeeded(f) => \A n \in 1 .. w : Done(f, n)' BY <1>1 DEF Progress
  <1>7. /\ Is(f, "enqueueing")' = Is(f, "enqueueing") /\ Is(f, "waiting")' = Is(f, "waiting")
        /\ Succeeded(f)' = Succeeded(f)
    BY <1>2 DEF Is, Succeeded
  <1> QED BY <1>2, <1>3, <1>4, <1>5, <1>6, <1>7 DEF Progress

\* The count of the managers when one frame moves.
LEMMA OneManagerMore ==
  ASSUME Typed, ref_count_ = Cardinality(Managers), NEW f \in Frame,
         ~Live(f), Live(f)', \A g \in Frame \ {f} : frame'[g] = frame[g]
  PROVE  /\ IsFiniteSet(Managers') /\ Cardinality(Managers') = ref_count_ + 1
  <1>1. Managers' = Managers \cup {f} BY DEF Managers, Live
  <1>2. f \notin Managers BY DEF Managers
  <1> QED BY <1>1, <1>2, FS_AddElement DEF Typed

LEMMA OneManagerLess ==
  ASSUME Typed, ref_count_ = Cardinality(Managers), NEW f \in Frame,
         Live(f), ~Live(f)', \A g \in Frame \ {f} : frame'[g] = frame[g]
  PROVE  /\ IsFiniteSet(Managers') /\ Cardinality(Managers') = ref_count_ - 1
         /\ ref_count_ - 1 \in Nat
  <1>1. Managers' = Managers \ {f} BY DEF Managers, Live
  <1>2. f \in Managers BY DEF Managers
  <1>3. /\ IsFiniteSet(Managers') /\ Cardinality(Managers') = Cardinality(Managers) - 1
    BY <1>1, <1>2, FS_RemoveElement DEF Typed
  <1>4. Cardinality(Managers') \in Nat BY <1>3, FS_CardinalityType
  <1> QED BY <1>3, <1>4

LEMMA SameManagers ==
  ASSUME \A g \in Frame : Live(g)' <=> Live(g)
  PROVE  Managers' = Managers
  BY DEF Managers

LEMMA InitKInv ==
  ASSUME ThreadPoolMgrAssumption, MgrInit
  PROVE  KInv
  <1> USE DEF MgrInit
  <1>1. \A f \in Frame : frame[f].state \in {"called", "none"} /\ frame[f].at = 1 OBVIOUS
  <1>2. Managers = {} BY <1>1 DEF Managers, Live
  <1>3. IsFiniteSet(Managers) /\ Cardinality(Managers) = 0 BY <1>2, FS_EmptySet
  <1>4. queue \in Seq(Task) /\ Len(queue) = 0 OBVIOUS
  <1>5. Typed
    <2>1. frame \in [Frame -> [state : FrameState, at : Nat \ {0}]] BY DEF FrameState
    <2>2. task \in [Task -> TaskState] BY DEF TaskState
    <2> QED BY <1>3, <1>4, <2>1, <2>2 DEF Typed, ThreadPoolMgrAssumption
  <1>6. MgrTypeOK
    <2>1. {queue[i] : i \in 1 .. Len(queue)} = {} BY <1>4
    <2>2. {t \in Task : task[t] = "queued"} = {} OBVIOUS
    <2> QED BY <1>3, <2>1, <2>2 DEF MgrTypeOK, Managers, ThreadPoolMgrAssumption
  <1>7. Distinct(queue) BY <1>4 DEF Distinct
  <1>8. ASSUME NEW f \in Frame PROVE Progress(f)
    <2>1. \A n \in 1 .. Width(f) : New(f, n) BY Frames DEF New
    <2> QED BY <1>1, <2>1 DEF Progress, Is, Succeeded
  <1>9. Unbegun
    <2> SUFFICES ASSUME NEW t \in Stale PROVE Is(t, "none") BY DEF Unbegun
    <2>1. Len(t) # 1 /\ t \in Frame
      <3>1. PICK c \in Caller, n \in 1 .. Bundles : t = <<c, n>>
        BY DEF ThreadPoolMgrAssumption
      <3> QED BY <3>1, Frames
    <2> QED BY <2>1 DEF Is
  <1>10. PoolIsThere /\ DestroyedAlone
    <2>1. Running = {} BY DEF Running
    <2> QED BY <1>1, <2>1 DEF PoolIsThere, DestroyedAlone, Is
  <1> QED BY <1>5, <1>6, <1>7, <1>8, <1>9, <1>10 DEF KInv

-----------------------------------------------------------------------------
(* The steps.                                                              *)

\* One frame moves.
LEMMA Moved ==
  ASSUME Typed, NEW f \in Frame, NEW state \in FrameState, NEW at \in Nat \ {0},
         frame' = [frame EXCEPT ![f] = [state |-> state, at |-> at]]
  PROVE  /\ frame'[f].state = state /\ frame'[f].at = at
         /\ \A g \in Frame \ {f} : frame'[g] = frame[g]
         /\ frame' \in [Frame -> [state : FrameState, at : Nat \ {0}]]
  BY DEF Typed

\* The tasks stay as they are.
LEMMA SameTasks ==
  ASSUME ThreadPoolMgrAssumption, KInv, UNCHANGED <<queue, task>>, NEW f \in Frame,
         \A g \in Frame \ {f} : frame'[g] = frame[g],
         frame[f].state # "none"
  PROVE  /\ \A g \in Frame \ {f} : Progress(g)'
         /\ Unbegun' /\ Distinct(queue)' /\ Running' = Running
         /\ {queue[i] : i \in 1 .. Len(queue)}' = {t \in Task : task[t] = "queued"}'
  <1>1. ASSUME NEW g \in Frame \ {f} PROVE Progress(g)'
    <2>1. Progress(g) /\ frame[g].at \in Nat \ {0} /\ Width(g) \in Nat
      BY Frames DEF KInv, Typed
    <2> QED BY <2>1, SameProgress
  <1>2. Unbegun' BY Frames DEF KInv, Unbegun, Is
  <1>3. Distinct(queue)' BY DEF KInv, Distinct
  <1>4. Running' = Running BY DEF Running
  <1>5. {queue[i] : i \in 1 .. Len(queue)}' = {t \in Task : task[t] = "queued"}'
    BY DEF KInv, MgrTypeOK
  <1> QED BY <1>1, <1>2, <1>3, <1>4, <1>5

LEMMA ConstructKInv ==
  ASSUME ThreadPoolMgrAssumption, KInv, NEW f \in Frame, Construct(f)
  PROVE  KInv'
  <1>1. Typed /\ Progress(f) /\ ref_count_ = Cardinality(Managers) /\ Width(f) \in Nat \ {0}
    BY Frames DEF KInv, MgrTypeOK, Managers
  <1>2. /\ Is(f, "called") /\ MutexFree /\ thread_pool_' = TRUE
        /\ ref_count_' = ref_count_ + 1
        /\ pool_size' \in Nat
        /\ UNCHANGED <<thread_count, queue, task>>
        /\ frame' = [frame EXCEPT ![f] = [state |-> "enqueueing", at |-> 1]]
    BY <1>1 DEF Construct, GoTo, Typed
  <1>3. /\ frame'[f].state = "enqueueing" /\ frame'[f].at = 1
        /\ \A g \in Frame \ {f} : frame'[g] = frame[g]
        /\ frame' \in [Frame -> [state : FrameState, at : Nat \ {0}]]
    <2>1. "enqueueing" \in FrameState /\ 1 \in Nat \ {0} BY DEF FrameState
    <2> QED BY <1>1, <1>2, <2>1, Moved
  <1>4. IsFiniteSet(Managers') /\ Cardinality(Managers') = ref_count_'
    BY <1>1, <1>2, <1>3, OneManagerMore DEF Live, Is
  <1>5. /\ \A g \in Frame \ {f} : Progress(g)'
        /\ Unbegun' /\ Distinct(queue)' /\ Running' = Running
        /\ {queue[i] : i \in 1 .. Len(queue)}' = {t \in Task : task[t] = "queued"}'
    BY <1>2, <1>3, SameTasks DEF Is
  <1>6. Progress(f)'
    <2>1. \A n \in 1 .. Width(f) : New(f, n) BY <1>1, <1>2 DEF Progress, Is
    <2>2. \A n \in 1 .. Width(f) : New(f, n)' BY <1>2, <2>1 DEF New
    <2> QED BY <1>1, <1>3, <2>2 DEF Progress, Is, Succeeded
  <1>7. Typed' BY <1>1, <1>2, <1>3, <1>4 DEF Typed
  <1>8. MgrTypeOK' BY <1>2, <1>4, <1>5, <1>7 DEF MgrTypeOK, Managers, Typed
  <1>9. PoolIsThere' BY <1>2 DEF PoolIsThere
  <1>10. DestroyedAlone' BY <1>2, <1>3 DEF DestroyedAlone, MutexFree, Is
  <1> QED BY <1>5, <1>6, <1>7, <1>8, <1>9, <1>10 DEF KInv

LEMMA EnqueueKInv ==
  ASSUME ThreadPoolMgrAssumption, KInv, NEW f \in Frame, EnqueueTask(f)
  PROVE  KInv'
  <1> DEFINE at == frame[f].at
             w == Width(f)
             t == Append(f, at)
             state == IF at < w THEN "enqueueing" ELSE "waiting"
             next == IF at < w THEN at + 1 ELSE 1
  <1>1. /\ Typed /\ Progress(f) /\ ref_count_ = Cardinality(Managers)
        /\ w \in Nat \ {0} /\ at \in Nat \ {0} /\ Distinct(queue)
        /\ Elements(queue) = {u \in Task : task[u] = "queued"}
    BY Frames DEF KInv, MgrTypeOK, Managers, Elements, Typed
  <1>2. /\ Is(f, "enqueueing") /\ thread_pool_
        /\ UNCHANGED <<ref_count_, thread_pool_, thread_count, pool_size>>
        /\ queue' = Append(queue, t)
        /\ task' = [task EXCEPT ![t] = "queued"]
    BY DEF EnqueueTask
  <1>3. frame' = [frame EXCEPT ![f] = [state |-> state, at |-> next]]
    BY DEF EnqueueTask, NextAt
  <1>4. at <= w /\ \A n \in at .. w : New(f, n) BY <1>1, <1>2 DEF Progress
  <1>5. t \in Task /\ task[t] = "none"
    <2>1. at \in 1 .. w /\ at \in at .. w BY <1>1, <1>4
    <2> QED BY <1>4, <2>1, Frames DEF New
  <1>6. /\ state \in {"enqueueing", "waiting"} /\ next \in Nat \ {0} /\ next <= w
        /\ state = "enqueueing" => next = at + 1
        /\ state = "waiting" => next = 1
    BY <1>1
  <1> HIDE DEF state, next
  <1>7. /\ frame'[f].state = state /\ frame'[f].at = next
        /\ \A g \in Frame \ {f} : frame'[g] = frame[g]
        /\ frame' \in [Frame -> [state : FrameState, at : Nat \ {0}]]
    BY <1>1, <1>3, <1>6, Moved DEF FrameState
  <1>8. Managers' = Managers
    <2>1. \A g \in Frame : Live(g)' <=> Live(g) BY <1>2, <1>6, <1>7 DEF Live, Is
    <2> QED BY <2>1, SameManagers
  <1> HIDE DEF t
  <1>9. /\ task'[t] = "queued" /\ \A u \in Task \ {t} : task'[u] = task[u]
        /\ task' \in [Task -> TaskState]
    BY <1>1, <1>2, <1>5 DEF Typed, TaskState
  <1>10. /\ queue' \in Seq(Task) /\ Distinct(queue')
         /\ Elements(queue') = Elements(queue) \cup {t}
    <2>1. t \notin Elements(queue) BY <1>1, <1>5
    <2> QED BY <1>1, <1>2, <1>5, <2>1, PushedTask DEF Typed
  <1>11. Elements(queue') = {u \in Task : task'[u] = "queued"}
    BY <1>1, <1>5, <1>9, <1>10
  <1>12. ASSUME NEW g \in Frame \ {f} PROVE Progress(g)'
    <2>1. Progress(g) /\ frame[g].at \in Nat \ {0} /\ Width(g) \in Nat
      BY Frames DEF KInv, Typed
    <2>2. \A n \in 1 .. Width(g) : task'[Append(g, n)] = task[Append(g, n)]
      <3> SUFFICES ASSUME NEW n \in 1 .. Width(g)
                   PROVE  task'[Append(g, n)] = task[Append(g, n)]
        OBVIOUS
      <3>1. Append(g, n) # t BY <1>1, Apart DEF t
      <3> QED BY <1>9, <3>1, Frames
    <2> QED BY <1>7, <2>1, <2>2, SameProgress
  <1>13. Progress(f)'
    <2>1. CASE state = "waiting"
      <3>1. next - 1 = 0 BY <1>6, <2>1
      <3>2. \A n \in 1 .. next - 1 : Done(f, n)' BY <3>1
      <3> QED BY <1>6, <1>7, <2>1, <3>2 DEF Progress, Is, Succeeded
    <2>2. CASE state = "enqueueing"
      <3>1. ASSUME NEW n \in next .. w PROVE New(f, n)'
        <4>1. n \in Nat /\ n \in at .. w /\ n \in 1 .. w /\ n # at BY <1>1, <1>6, <2>2
        <4>2. Append(f, n) # t BY <1>1, <4>1, Apart DEF t
        <4>3. task[Append(f, n)] = "none" BY <1>4, <4>1 DEF New
        <4> QED BY <1>9, <4>1, <4>2, <4>3, Frames DEF New
      <3> QED BY <1>6, <1>7, <2>2, <3>1 DEF Progress, Is, Succeeded
    <2> QED BY <1>6, <2>1, <2>2
  <1>14. Unbegun'
    <2> SUFFICES ASSUME NEW u \in Stale, task'[u] \in {"none", "queued"}
                 PROVE  frame'[u].state = "none"
      BY DEF Unbegun, Is
    <2>1. u \in Task /\ u \in Frame BY Frames
    <2>2. task[u] \in {"none", "queued"} BY <1>5, <1>9, <2>1
    <2>3. frame[u].state = "none" BY <2>2 DEF KInv, Unbegun, Is
    <2>4. u # f BY <1>2, <2>3 DEF Is
    <2> QED BY <1>7, <2>1, <2>3, <2>4
  <1>15. Typed' BY <1>1, <1>2, <1>7, <1>8, <1>9, <1>10 DEF Typed
  <1>16. MgrTypeOK'
    BY <1>1, <1>2, <1>8, <1>11, <1>15 DEF MgrTypeOK, Managers, Typed, Elements
  <1>17. PoolIsThere' BY <1>2 DEF PoolIsThere
  <1>18. DestroyedAlone' BY <1>2, <1>6, <1>7 DEF KInv, DestroyedAlone, Is
  <1>19. Distinct(queue)' BY <1>10 DEF Distinct
  <1> QED BY <1>12, <1>13, <1>14, <1>15, <1>16, <1>17, <1>18, <1>19 DEF KInv

LEMMA GetKInv ==
  ASSUME ThreadPoolMgrAssumption, KInv, NEW f \in Frame, Get(f)
  PROVE  KInv'
  <1> DEFINE at == frame[f].at
             w == Width(f)
  <1>1. /\ Typed /\ Progress(f) /\ ref_count_ = Cardinality(Managers)
        /\ w \in Nat \ {0} /\ at \in Nat \ {0}
    BY Frames DEF KInv, MgrTypeOK, Managers, Typed
  <1>2. /\ Is(f, "waiting")
        /\ UNCHANGED <<ref_count_, thread_pool_, thread_count, pool_size, queue, task>>
    BY DEF Get
  <1>3. at <= w /\ \A n \in 1 .. at - 1 : Done(f, n) BY <1>1, <1>2 DEF Progress
  <1>4. PICK state \in {"waiting", "leaving", "unwinding"}, next \in Nat \ {0} :
          /\ frame' = [frame EXCEPT ![f] = [state |-> state, at |-> next]]
          /\ state = "waiting" => at < w /\ next = at + 1
          /\ state = "leaving" => ~(at < w)
          /\ state # "unwinding" => Done(f, at)
    <2>1. CASE Done(f, at) /\ NextAt(f, "waiting", "leaving")
      <3>1. CASE at < w
        <4>1. at + 1 \in Nat \ {0} BY <1>1
        <4>2. frame' = [frame EXCEPT ![f] = [state |-> "waiting", at |-> at + 1]]
          BY <2>1, <3>1 DEF NextAt
        <4> QED BY <2>1, <3>1, <4>1, <4>2
      <3>2. CASE ~(at < w)
        <4>1. frame' = [frame EXCEPT ![f] = [state |-> "leaving", at |-> 1]]
          BY <2>1, <3>2 DEF NextAt
        <4>2. "leaving" \in {"waiting", "leaving", "unwinding"} /\ 1 \in Nat \ {0} OBVIOUS
        <4>3. "leaving" # "waiting" OBVIOUS
        <4> QED BY <2>1, <3>2, <4>1, <4>2, <4>3
      <3> QED BY <3>1, <3>2
    <2>2. CASE GoTo(f, "unwinding")
      <3>1. frame' = [frame EXCEPT ![f] = [state |-> "unwinding", at |-> 1]]
        BY <2>2 DEF GoTo
      <3>2. "unwinding" \in {"waiting", "leaving", "unwinding"} /\ 1 \in Nat \ {0} OBVIOUS
      <3>3. "unwinding" # "waiting" /\ "unwinding" # "leaving" OBVIOUS
      <3> QED BY <3>1, <3>2, <3>3
    <2> QED BY <2>1, <2>2 DEF Get, Done
  <1>5. /\ frame'[f].state = state /\ frame'[f].at = next
        /\ \A g \in Frame \ {f} : frame'[g] = frame[g]
        /\ frame' \in [Frame -> [state : FrameState, at : Nat \ {0}]]
    <2>1. state \in FrameState BY DEF FrameState
    <2> QED BY <1>1, <1>4, <2>1, Moved
  <1>6. Managers' = Managers
    <2>1. \A g \in Frame : Live(g)' <=> Live(g) BY <1>2, <1>5 DEF Live, Is
    <2> QED BY <2>1, SameManagers
  <1>7. /\ \A g \in Frame \ {f} : Progress(g)'
        /\ Unbegun' /\ Distinct(queue)' /\ Running' = Running
        /\ {queue[i] : i \in 1 .. Len(queue)}' = {t \in Task : task[t] = "queued"}'
    BY <1>2, <1>5, SameTasks DEF Is
  <1>8. Progress(f)'
    <2>1. \A n : Done(f, n)' = Done(f, n) BY <1>2 DEF Done
    <2>2. CASE state = "waiting"
      <3>1. next <= w /\ \A n \in 1 .. next - 1 : n \in 1 .. at - 1 \/ n = at
        BY <1>1, <1>4, <2>2
      <3>2. \A n \in 1 .. next - 1 : Done(f, n) BY <1>3, <1>4, <2>2, <3>1
      <3> QED BY <1>5, <2>1, <2>2, <3>1, <3>2 DEF Progress, Is, Succeeded
    <2>3. CASE state = "leaving"
      <3>1. \A n \in 1 .. w : n \in 1 .. at - 1 \/ n = at BY <1>1, <1>3, <1>4, <2>3
      <3>2. \A n \in 1 .. w : Done(f, n) BY <1>3, <1>4, <2>3, <3>1
      <3> QED BY <1>5, <2>1, <2>3, <3>2 DEF Progress, Is, Succeeded
    <2>4. CASE state = "unwinding" BY <1>5, <2>4 DEF Progress, Is, Succeeded
    <2> QED BY <2>2, <2>3, <2>4
  <1>9. Typed' BY <1>1, <1>2, <1>5, <1>6 DEF Typed
  <1>10. MgrTypeOK' BY <1>1, <1>2, <1>6, <1>7, <1>9 DEF MgrTypeOK, Managers, Typed
  <1>11. PoolIsThere' BY <1>2, <1>7 DEF KInv, PoolIsThere
  <1>12. DestroyedAlone' BY <1>2, <1>5 DEF KInv, DestroyedAlone, Is
  <1> QED BY <1>7, <1>8, <1>9, <1>10, <1>11, <1>12 DEF KInv

LEMMA DestructKInv ==
  ASSUME ThreadPoolMgrAssumption, KInv, NEW f \in Frame, Destruct(f)
  PROVE  KInv'
  <1>1. Typed /\ Progress(f) /\ ref_count_ = Cardinality(Managers) /\ Live(f)
    BY DEF KInv, MgrTypeOK, Managers, Destruct, Live
  <1>2. /\ frame[f].state \in {"leaving", "unwinding"} /\ MutexFree
        /\ ref_count_' = ref_count_ - 1
        /\ UNCHANGED <<thread_pool_, thread_count, pool_size, queue, task>>
    BY DEF Destruct
  <1>3. PICK state \in {"returned", "threw", "destroying"}, next \in Nat \ {0} :
          /\ frame' = [frame EXCEPT ![f] = [state |-> state, at |-> next]]
          /\ state = "destroying" => ~(ref_count_ > 1)
          /\ state = "returned" \/ (state = "destroying" /\ next = 1) => Is(f, "leaving")
    <2>1. CASE ref_count_ > 1
      <3>1. frame' = [frame EXCEPT ![f] = [state |-> Over(f), at |-> 1]]
        BY <2>1 DEF Destruct, GoTo
      <3>2. /\ Over(f) \in {"returned", "threw", "destroying"} /\ 1 \in Nat \ {0}
            /\ Over(f) # "destroying" /\ (Over(f) = "returned" => Is(f, "leaving"))
        BY DEF Over
      <3> QED BY <3>1, <3>2
    <2>2. CASE ~(ref_count_ > 1)
      <3>1. PICK next \in Nat \ {0} : next = IF Is(f, "leaving") THEN 1 ELSE 2 OBVIOUS
      <3>2. frame' = [frame EXCEPT ![f] = [state |-> "destroying", at |-> next]]
        BY <2>2, <3>1 DEF Destruct
      <3>3. "destroying" \in {"returned", "threw", "destroying"} OBVIOUS
      <3>4. "destroying" # "returned" /\ (next = 1 => Is(f, "leaving")) BY <3>1
      <3> QED BY <2>2, <3>2, <3>3, <3>4
    <2> QED BY <2>1, <2>2
  <1>4. /\ frame'[f].state = state /\ frame'[f].at = next
        /\ \A g \in Frame \ {f} : frame'[g] = frame[g]
        /\ frame' \in [Frame -> [state : FrameState, at : Nat \ {0}]]
    <2>1. state \in FrameState BY DEF FrameState
    <2> QED BY <1>1, <1>3, <2>1, Moved
  <1>5. /\ IsFiniteSet(Managers') /\ Cardinality(Managers') = ref_count_' /\ ref_count_' \in Nat
    <2>1. ~Live(f)' BY <1>4 DEF Live
    <2> QED BY <1>1, <1>2, <1>4, <2>1, OneManagerLess
  <1>6. /\ \A g \in Frame \ {f} : Progress(g)'
        /\ Unbegun' /\ Distinct(queue)' /\ Running' = Running
        /\ {queue[i] : i \in 1 .. Len(queue)}' = {t \in Task : task[t] = "queued"}'
    BY <1>2, <1>4, SameTasks
  <1>7. Progress(f)'
    <2>1. Succeeded(f)' => Succeeded(f)
      <3>1. Succeeded(f)' => state = "returned" \/ (state = "destroying" /\ next = 1)
        BY <1>4 DEF Succeeded, Is
      <3>2. Is(f, "leaving") => Succeeded(f) BY DEF Succeeded, Is
      <3> QED BY <1>3, <3>1, <3>2
    <2>2. \A n : Done(f, n)' = Done(f, n) BY <1>2 DEF Done
    <2>3. Succeeded(f)' => \A n \in 1 .. Width(f) : Done(f, n)'
      BY <1>1, <2>1, <2>2 DEF Progress
    <2> QED BY <1>4, <2>3 DEF Progress, Is
  <1>8. Typed' BY <1>1, <1>2, <1>4, <1>5 DEF Typed
  <1>9. MgrTypeOK' BY <1>1, <1>2, <1>5, <1>6, <1>8 DEF MgrTypeOK, Managers, Typed
  <1>10. PoolIsThere'
    <2>1. ref_count_ > 0 BY <1>2, <1>5, <1>1 DEF Typed
    <2> QED BY <1>2, <2>1 DEF KInv, PoolIsThere
  <1>11. DestroyedAlone'
    <2>1. state = "destroying" => ref_count_' = 0 BY <1>1, <1>2, <1>3, <1>5 DEF Typed
    <2> QED BY <1>2, <1>4, <2>1 DEF DestroyedAlone, MutexFree, Is
  <1> QED BY <1>6, <1>7, <1>8, <1>9, <1>10, <1>11 DEF KInv

LEMMA DestroyPoolKInv ==
  ASSUME ThreadPoolMgrAssumption, KInv, NEW f \in Frame, DestroyPool(f)
  PROVE  KInv'
  <1> DEFINE state == IF frame[f].at = 1 THEN "returned" ELSE "threw"
  <1>1. Typed /\ Progress(f) /\ ref_count_ = Cardinality(Managers)
    BY DEF KInv, MgrTypeOK, Managers
  <1>2. /\ Is(f, "destroying") /\ queue = <<>> /\ Running = {}
        /\ UNCHANGED <<ref_count_, thread_count, pool_size, queue, task>>
        /\ thread_pool_' = FALSE
        /\ frame' = [frame EXCEPT ![f] = [state |-> state, at |-> 1]]
    BY DEF DestroyPool, GoTo
  <1>3. state \in {"returned", "threw"} /\ (state = "returned" => frame[f].at = 1) OBVIOUS
  <1> HIDE DEF state
  <1>4. /\ frame'[f].state = state /\ frame'[f].at = 1
        /\ \A g \in Frame \ {f} : frame'[g] = frame[g]
        /\ frame' \in [Frame -> [state : FrameState, at : Nat \ {0}]]
    <2>1. state \in FrameState /\ 1 \in Nat \ {0} BY <1>3 DEF FrameState
    <2> QED BY <1>1, <1>2, <2>1, Moved
  <1>5. Managers' = Managers
    <2>1. \A g \in Frame : Live(g)' <=> Live(g) BY <1>2, <1>3, <1>4 DEF Live, Is
    <2> QED BY <2>1, SameManagers
  <1>6. /\ \A g \in Frame \ {f} : Progress(g)'
        /\ Unbegun' /\ Distinct(queue)' /\ Running' = Running
        /\ {queue[i] : i \in 1 .. Len(queue)}' = {t \in Task : task[t] = "queued"}'
    BY <1>2, <1>4, SameTasks DEF Is
  <1>7. Progress(f)'
    <2>1. Succeeded(f)' => Succeeded(f) BY <1>2, <1>3, <1>4 DEF Succeeded, Is
    <2>2. \A n : Done(f, n)' = Done(f, n) BY <1>2 DEF Done
    <2>3. Succeeded(f)' => \A n \in 1 .. Width(f) : Done(f, n)'
      BY <1>1, <2>1, <2>2 DEF Progress
    <2> QED BY <1>3, <1>4, <2>3 DEF Progress, Is
  <1>8. Typed' BY <1>1, <1>2, <1>4, <1>5 DEF Typed
  <1>9. MgrTypeOK' BY <1>1, <1>2, <1>5, <1>6, <1>8 DEF MgrTypeOK, Managers, Typed
  <1>10. PoolIsThere'
    <2>1. ref_count_ = 0 BY <1>2 DEF KInv, DestroyedAlone
    <2> QED BY <1>2, <1>6, <2>1 DEF PoolIsThere
  <1>11. DestroyedAlone' BY <1>2, <1>3, <1>4 DEF KInv, DestroyedAlone, Is
  <1> QED BY <1>6, <1>7, <1>8, <1>9, <1>10, <1>11 DEF KInv

LEMMA StartTaskKInv ==
  ASSUME ThreadPoolMgrAssumption, KInv, StartTask
  PROVE  KInv'
  <1> DEFINE t == Head(queue)
  <1>1. /\ Typed /\ ref_count_ = Cardinality(Managers) /\ Distinct(queue)
        /\ Elements(queue) = {u \in Task : task[u] = "queued"}
        /\ queue # <<>> /\ thread_pool_
    BY DEF KInv, MgrTypeOK, Managers, Elements, StartTask, PoolIsThere
  <1>2. /\ UNCHANGED <<ref_count_, thread_pool_, thread_count, pool_size>>
        /\ queue' = Tail(queue)
        /\ task' = [task EXCEPT ![t] = "running"]
    BY DEF StartTask
  <1>3. /\ t \in Task /\ t \in Elements(queue)
        /\ queue' \in Seq(Task) /\ Distinct(queue')
        /\ Elements(queue') = Elements(queue) \ {t}
    BY <1>1, <1>2, TakenTask DEF Typed
  <1>4. task[t] = "queued" BY <1>1, <1>3
  <1>5. /\ t \in Stale => frame' = [frame EXCEPT ![t] = [state |-> "called", at |-> 1]]
        /\ t \notin Stale => frame' = frame
    BY DEF StartTask, GoTo
  <1> HIDE DEF t
  <1>6. /\ task'[t] = "running" /\ \A u \in Task \ {t} : task'[u] = task[u]
        /\ task' \in [Task -> TaskState]
    BY <1>1, <1>2, <1>3 DEF Typed, TaskState
  <1>7. Elements(queue') = {u \in Task : task'[u] = "queued"}
    BY <1>1, <1>3, <1>6
  <1>8. /\ t \in Stale => t \in Frame /\ frame[t].state = "none"
        /\ t \in Stale => frame'[t].state = "called" /\ frame'[t].at = 1
        /\ \A g \in Frame : g # t \/ t \notin Stale => frame'[g] = frame[g]
        /\ frame' \in [Frame -> [state : FrameState, at : Nat \ {0}]]
    <2>1. CASE t \in Stale
      <3>1. t \in Frame /\ frame[t].state = "none"
        BY <1>4, <2>1, Frames DEF KInv, Unbegun, Is
      <3>2. "called" \in FrameState /\ 1 \in Nat \ {0} BY DEF FrameState
      <3>3. /\ frame'[t].state = "called" /\ frame'[t].at = 1
            /\ \A g \in Frame \ {t} : frame'[g] = frame[g]
            /\ frame' \in [Frame -> [state : FrameState, at : Nat \ {0}]]
        BY <1>1, <1>5, <2>1, <3>1, <3>2, Moved
      <3> QED BY <2>1, <3>1, <3>3
    <2>2. CASE t \notin Stale BY <1>1, <1>5, <2>2 DEF Typed
    <2> QED BY <2>1, <2>2
  <1>9. Managers' = Managers
    <2>1. \A g \in Frame : Live(g)' <=> Live(g) BY <1>8 DEF Live
    <2> QED BY <2>1, SameManagers
  <1>10. ASSUME NEW g \in Frame PROVE Progress(g)'
    <2>1. Progress(g) /\ frame[g].at \in Nat \ {0} /\ Width(g) \in Nat
      BY Frames DEF KInv, Typed
    <2>2. \A n \in 1 .. Width(g) : New(g, n) \/ Done(g, n) =>
            task'[Append(g, n)] = task[Append(g, n)]
      BY <1>4, <1>6, Frames DEF New, Done
    <2>3. CASE g = t /\ t \in Stale
      <3>1. \A n \in 1 .. Width(g) : New(g, n) BY <1>8, <2>1, <2>3 DEF Progress
      <3>2. \A n \in 1 .. Width(g) : New(g, n)' BY <2>2, <3>1 DEF New
      <3> QED BY <1>8, <2>3, <3>2 DEF Progress, Is, Succeeded
    <2>4. CASE ~(g = t /\ t \in Stale)
      <3>1. frame'[g] = frame[g] BY <1>8, <2>4
      <3> QED BY <2>1, <2>2, <3>1, SameProgress
    <2> QED BY <2>3, <2>4
  <1>11. Unbegun'
    <2> SUFFICES ASSUME NEW u \in Stale, task'[u] \in {"none", "queued"}
                 PROVE  frame'[u].state = "none"
      BY DEF Unbegun, Is
    <2>1. u \in Task /\ u \in Frame /\ u # t BY <1>6, Frames
    <2>2. task[u] \in {"none", "queued"} BY <1>6, <2>1
    <2>3. frame[u].state = "none" BY <2>2 DEF KInv, Unbegun, Is
    <2> QED BY <1>8, <2>1, <2>3
  <1>12. Typed' BY <1>1, <1>2, <1>3, <1>6, <1>8, <1>9 DEF Typed
  <1>13. MgrTypeOK'
    BY <1>1, <1>2, <1>7, <1>9, <1>12 DEF MgrTypeOK, Managers, Typed, Elements
  <1>14. PoolIsThere' BY <1>1, <1>2 DEF PoolIsThere
  <1>15. DestroyedAlone' BY <1>2, <1>8 DEF KInv, DestroyedAlone, Is
  <1>16. Distinct(queue)' BY <1>3 DEF Distinct
  <1> QED BY <1>10, <1>11, <1>12, <1>13, <1>14, <1>15, <1>16 DEF KInv

LEMMA EndTaskKInv ==
  ASSUME ThreadPoolMgrAssumption, KInv, NEW t \in Task, EndTask(t)
  PROVE  KInv'
  <1>1. /\ Typed /\ ref_count_ = Cardinality(Managers)
        /\ Elements(queue) = {u \in Task : task[u] = "queued"}
    BY DEF KInv, MgrTypeOK, Managers, Elements
  <1>2. /\ task[t] = "running"
        /\ UNCHANGED <<ref_count_, thread_pool_, thread_count, pool_size, queue, frame>>
    BY DEF EndTask
  <1>3. PICK end \in {"returned", "threw"} : task' = [task EXCEPT ![t] = end]
    BY DEF EndTask
  <1>4. /\ task'[t] = end /\ \A u \in Task \ {t} : task'[u] = task[u]
        /\ task' \in [Task -> TaskState]
    BY <1>1, <1>3 DEF Typed, TaskState
  <1>5. Managers' = Managers BY <1>2 DEF Managers, Live
  <1>6. ASSUME NEW g \in Frame PROVE Progress(g)'
    <2>1. Progress(g) /\ frame[g].at \in Nat \ {0} /\ Width(g) \in Nat
      BY Frames DEF KInv, Typed
    <2>2. \A n \in 1 .. Width(g) : New(g, n) \/ Done(g, n) =>
            task'[Append(g, n)] = task[Append(g, n)]
      BY <1>2, <1>4, Frames DEF New, Done
    <2> QED BY <1>2, <2>1, <2>2, SameProgress
  <1>7. Unbegun' BY <1>2, <1>4, Frames DEF KInv, Unbegun, Is
  <1>8. Elements(queue') = {u \in Task : task'[u] = "queued"} BY <1>1, <1>2, <1>4
  <1>9. Typed' BY <1>1, <1>2, <1>4, <1>5 DEF Typed
  <1>10. MgrTypeOK'
    BY <1>1, <1>2, <1>5, <1>8, <1>9 DEF MgrTypeOK, Managers, Typed, Elements
  <1>11. PoolIsThere'
    <2>1. t \in Running BY <1>2 DEF Running
    <2> QED BY <1>2, <2>1 DEF KInv, PoolIsThere
  <1>12. DestroyedAlone' BY <1>2 DEF KInv, DestroyedAlone, Is
  <1>13. Distinct(queue)' BY <1>2 DEF KInv, Distinct
  <1> QED BY <1>6, <1>7, <1>9, <1>10, <1>11, <1>12, <1>13 DEF KInv

\* A step that leaves the frames, the tasks and the count of managers alone.
LEMMA OthersKInv ==
  ASSUME KInv, UNCHANGED <<ref_count_, thread_pool_, queue, task, frame>>,
         thread_count' \in Nat, pool_size' \in Nat
  PROVE  KInv'
  <1>1. Managers' = Managers BY DEF Managers, Live
  <1>2. Typed' BY <1>1 DEF KInv, Typed
  <1>3. MgrTypeOK'
    <2>1. ref_count_' = Cardinality(Managers') BY <1>1 DEF KInv, MgrTypeOK, Managers
    <2>2. {queue[i] : i \in 1 .. Len(queue)}' = {t \in Task : task[t] = "queued"}'
      BY DEF KInv, MgrTypeOK
    <2> QED BY <1>2, <2>1, <2>2 DEF MgrTypeOK, Managers, Typed
  <1>4. (\A f \in Frame : Progress(f))'
    BY DEF KInv, Progress, Is, Succeeded, New, Done
  <1>5. Distinct(queue)' /\ Unbegun' BY DEF KInv, Distinct, Unbegun, Is
  <1>6. PoolIsThere' /\ DestroyedAlone'
    BY DEF KInv, PoolIsThere, DestroyedAlone, Running, Is
  <1> QED BY <1>2, <1>3, <1>4, <1>5, <1>6 DEF KInv

LEMMA SetThreadCountKInv ==
  ASSUME ThreadPoolMgrAssumption, KInv, NEW threads \in ThreadCounts, SetThreadCount(threads)
  PROVE  KInv'
  <1>1. thread_count' \in Nat BY DEF SetThreadCount, ThreadPoolMgrAssumption
  <1>2. pool_size' \in Nat BY <1>1 DEF SetThreadCount, KInv, Typed
  <1> QED BY <1>1, <1>2, OthersKInv DEF SetThreadCount

LEMMA NextKInv ==
  ASSUME ThreadPoolMgrAssumption, KInv, [MgrNext]_mgrVars
  PROVE  KInv'
  <1>1. CASE \E f \in Frame : FrameStep(f)
    <2>1. PICK f \in Frame : FrameStep(f) BY <1>1
    <2> QED BY <2>1, ConstructKInv, EnqueueKInv, GetKInv, DestructKInv, DestroyPoolKInv
            DEF FrameStep
  <1>2. CASE StartTask BY <1>2, StartTaskKInv
  <1>3. CASE \E t \in Task : EndTask(t) BY <1>3, EndTaskKInv
  <1>4. CASE \E n \in ThreadCounts : SetThreadCount(n) BY <1>4, SetThreadCountKInv
  <1>5. CASE UNCHANGED mgrVars
    <2>1. thread_count' \in Nat /\ pool_size' \in Nat BY <1>5 DEF mgrVars, KInv, Typed
    <2> QED BY <1>5, <2>1, OthersKInv DEF mgrVars
  <1> QED BY <1>1, <1>2, <1>3, <1>4, <1>5 DEF MgrNext

LEMMA KInvImplies ==
  ASSUME KInv
  PROVE  PoolOutlivesTasks
  <1>1. NoFailureLost
    <2> SUFFICES ASSUME NEW f \in Frame, frame[f].state \in {"leaving", "returned"},
                        NEW t \in TasksOf(f)
                 PROVE  task[t] = "returned"
      BY DEF NoFailureLost
    <2>1. PICK n \in 1 .. Width(f) : t = Append(f, n) BY DEF TasksOf
    <2>2. Done(f, n) BY DEF KInv, Progress, Succeeded
    <2> QED BY <2>1, <2>2 DEF Done
  <1> QED BY <1>1 DEF KInv, PoolOutlivesTasks

\* There is a pool as long as a manager or a task is there, one thread alone
\* destroys it, and a call returns only when it has seen all its tasks return,
\* whatever the numbers of callers, stale bundles, tasks and threads
\* (ThreadPoolMgr in thread_pool_mgr.cpp, and the futures its users wait for).
THEOREM PoolKept ==
  ASSUME ThreadPoolMgrAssumption
  PROVE  MgrSpec => []PoolOutlivesTasks
  <1>1. MgrInit => KInv BY InitKInv
  <1>2. KInv /\ [MgrNext]_mgrVars => KInv' BY NextKInv
  <1>3. KInv => PoolOutlivesTasks BY KInvImplies
  <1> QED BY <1>1, <1>2, <1>3, PTL DEF MgrSpec

-----------------------------------------------------------------------------
(***************************************************************************)
(* Arithmetic: remainders, whose products the prover does not find.        *)
(***************************************************************************)

\* A product with a number that is not zero is no smaller in size.
LEMMA Multiples ==
  ASSUME NEW m \in Nat \ {0}, NEW a \in Int, NEW b \in Int
  PROVE  /\ a * m \in Int
         /\ a <= b => a * m <= b * m
         /\ a < b => a * m + m <= b * m
  <1>1. a * m \in Int /\ b * m \in Int OBVIOUS
  <1>2. ASSUME a <= b PROVE a * m <= b * m
    <2>1. PICK d \in Nat : d = b - a BY <1>2
    <2>2. b * m = a * m + d * m BY <2>1
    <2>3. d * m >= 0 OBVIOUS
    <2> QED BY <1>1, <2>2, <2>3
  <1>3. ASSUME a < b PROVE a * m + m <= b * m
    <2>1. PICK d \in Nat : d = b - a - 1 BY <1>3
    <2>2. b * m = a * m + m + d * m BY <2>1
    <2>3. d * m >= 0 OBVIOUS
    <2> QED BY <1>1, <2>2, <2>3
  <1> QED BY <1>1, <1>2, <1>3

\* A remainder is what is left over from a multiple.
LEMMA Remainder ==
  ASSUME NEW m \in Nat \ {0}, NEW a \in Int
  PROVE  a % m \in 0 .. m - 1 /\ \E q \in Int : a = q * m + (a % m)
  <1>1. a % m \in 0 .. m - 1 /\ a = m * (a \div m) + (a % m) /\ a \div m \in Int OBVIOUS
  <1>2. m * (a \div m) = (a \div m) * m BY <1>1
  <1> QED BY <1>1, <1>2

\* And there is one.
LEMMA OneRemainder ==
  ASSUME NEW m \in Nat \ {0}, NEW a \in Int, NEW q \in Int, NEW r \in 0 .. m - 1, a = q * m + r
  PROVE  a % m = r
  <1>1. PICK p \in Int : a = p * m + (a % m) BY Remainder
  <1>2. a % m \in 0 .. m - 1 BY Remainder
  <1>3. CASE p < q
    <2>1. p * m + m <= q * m BY <1>3, Multiples
    <2> QED BY <1>1, <1>2, <2>1, Multiples
  <1>4. CASE q < p
    <2>1. q * m + m <= p * m BY <1>4, Multiples
    <2> QED BY <1>1, <1>2, <2>1, Multiples
  <1>5. CASE p = q BY <1>1, <1>2, <1>5, Multiples
  <1> QED BY <1>3, <1>4, <1>5

\* Numbers that differ by a multiple have the same remainder.
LEMMA SameRemainder ==
  ASSUME NEW m \in Nat \ {0}, NEW a \in Int, NEW b \in Int, NEW q \in Int, a = b + q * m
  PROVE  a % m = b % m
  <1>1. PICK p \in Int : b = p * m + (b % m) BY Remainder
  <1>2. b % m \in 0 .. m - 1 BY Remainder
  <1>3. (p + q) * m = p * m + q * m OBVIOUS
  <1>4. a = (p + q) * m + (b % m) BY <1>1, <1>2, <1>3, Multiples
  <1>5. p + q \in Int OBVIOUS
  <1> QED BY <1>2, <1>4, <1>5, OneRemainder

\* A factor may be replaced by its remainder.
LEMMA ProductRemainder ==
  ASSUME NEW m \in Nat \ {0}, NEW a \in Int, NEW b \in Int
  PROVE  ((a % m) * b) % m = (a * b) % m
  <1>1. PICK r \in Int : r = a % m BY Remainder
  <1>2. PICK p \in Int : a = p * m + r BY <1>1, Remainder
  <1>3. a * b = r * b + (p * b) * m BY <1>2
  <1>4. a * b \in Int /\ r * b \in Int /\ p * b \in Int OBVIOUS
  <1>5. (a * b) % m = (r * b) % m BY ONLY m \in Nat \ {0}, <1>3, <1>4, SameRemainder
  <1> QED BY <1>1, <1>5

\* The order in which a least number is found.
Less == OpToRel(<, Nat)

\* A set of natural numbers has a least one.
LEMMA Least ==
  ASSUME NEW S, S \subseteq Nat, S # {}
  PROVE  \E x \in S : \A y \in S : x <= y
  <1>1. IsWellFoundedOn(Less, Nat) BY NatLessThanWellFounded DEF Less
  <1>2. PICK x \in S : \A y \in S : ~ (<<y, x>> \in Less) BY <1>1, WFMin
  <1>3. ASSUME NEW y \in S PROVE x <= y
    <2>1. x \in Nat /\ y \in Nat OBVIOUS
    <2>2. ~ (<<y, x>> \in Less) BY <1>2
    <2>3. ~ (y < x) BY <2>1, <2>2 DEF Less, OpToRel
    <2> QED BY <2>1, <2>3
  <1> QED BY <1>3

\* Below a number without divisors every number has an inverse: the least
\* remainder of its multiples is 1, as it would divide the number otherwise.
LEMMA HasInverse ==
  ASSUME NEW m \in Nat \ {0}, \A d \in 2 .. m - 1 : m % d # 0, NEW f \in 1 .. m - 1
  PROVE  \E s \in 1 .. m - 1 : (s * f) % m = 1
  <1> DEFINE S == {x \in 1 .. m - 1 : \E s \in Int : (s * f) % m = x}
  <1>1. f \in S
    <2>1. 1 * f = 0 * m + f OBVIOUS
    <2>2. 1 * f \in Int /\ f \in 0 .. m - 1 OBVIOUS
    <2>3. (1 * f) % m = f BY <2>1, <2>2, OneRemainder
    <2> QED BY <2>3
  <1>2. S \subseteq Nat OBVIOUS
  <1> HIDE DEF S
  <1>3. PICK g \in S : \A y \in S : g <= y BY <1>1, <1>2, Least
  <1>4. g \in 1 .. m - 1 /\ \E s \in Int : (s * f) % m = g BY <1>3 DEF S
  <1>5. PICK s \in Int : (s * f) % m = g BY <1>4
  <1>6. s * f \in Int OBVIOUS
  <1>7. PICK q \in Int : s * f = q * m + ((s * f) % m) BY <1>6, Remainder
  <1>8. s * f = q * m + g BY <1>5, <1>7
  <1>9. g = 1
    <2> SUFFICES ASSUME g # 1 PROVE FALSE
      OBVIOUS
    <2>1. g \in 2 .. m - 1 /\ g \in Nat \ {0} BY <1>4
    <2>2. PICK r : r = m % g OBVIOUS
    <2>3. r # 0 BY <2>1, <2>2
    <2>4. r \in 0 .. g - 1 BY <2>1, <2>2, Remainder
    <2>11. m \in Int /\ g \in Nat \ {0} BY <2>1
    <2>12. \E p \in Int : m = p * g + (m % g) BY ONLY <2>11, Remainder
    <2>5. PICK p \in Int : m = p * g + r BY <2>2, <2>12
    <2>6. PICK t \in Int : t = -(p * s) BY <1>4
    <2>7. t * f = (-(p * q) - 1) * m + r
      <3>1. t * f = -(p * (s * f)) BY <2>6
      <3>2. p * (s * f) = p * (q * m + g) BY <1>8
      <3>3. p * (q * m + g) = (p * q) * m + p * g BY <1>4
      <3>4. (-(p * q) - 1) * m = -((p * q) * m) - m OBVIOUS
      <3>5. (p * q) * m \in Int /\ p * g \in Int /\ p * (s * f) \in Int BY <1>4
      <3>6. m \in Int /\ g \in Int /\ r \in Int BY <2>1, <2>4
      <3> QED BY ONLY <3>1, <3>2, <3>3, <3>4, <3>5, <3>6, <2>5
    <2>8. r \in 0 .. m - 1 /\ t * f \in Int /\ -(p * q) - 1 \in Int BY <2>4, <1>4
    <2>9. (t * f) % m = r BY ONLY <2>7, <2>8, m \in Nat \ {0}, OneRemainder
    <2>13. r \in 1 .. m - 1 BY <2>3, <2>8
    <2>10. r \in S BY <2>6, <2>9, <2>13 DEF S
    <2> QED BY <1>3, <2>1, <2>4, <2>10
  <1>10. PICK v : v = s % m OBVIOUS
  <1>11. v \in 0 .. m - 1 BY <1>10, Remainder
  <1>12. (v * f) % m = 1
    <2>2. m \in Nat \ {0} /\ s \in Int /\ f \in Int BY <1>5
    <2>1. ((s % m) * f) % m = (s * f) % m BY ONLY <2>2, ProductRemainder
    <2> QED BY <1>5, <1>9, <1>10, <2>1
  <1>13. v # 0
    <2> SUFFICES ASSUME v = 0 PROVE FALSE
      OBVIOUS
    <2>1. v * f = 0 * m + 0 /\ v * f \in Int OBVIOUS
    <2>2. 0 \in 0 .. m - 1 OBVIOUS
    <2>3. (v * f) % m = 0 BY <2>1, <2>2, OneRemainder
    <2> QED BY <1>12, <2>3
  <1>14. v \in 1 .. m - 1 BY <1>11, <1>13
  <1> QED BY <1>12, <1>14

-----------------------------------------------------------------------------
(***************************************************************************)
(* That the hashes of the exchange are those of the database, for every    *)
(* group of prime order and cofactor, every key and every factor, and for  *)
(* every number of tasks, whichever comes when and whichever throws.       *)
(*                                                                         *)
(* A point that is sent is that of its item, blinded; what a task writes   *)
(* is that point times the key.  A task has come to an index that is its   *)
(* first one and a number of steps further, so that the indices before are *)
(* written and each index is one task's; and an answer is sent when all    *)
(* tasks are past the end.                                                 *)
(***************************************************************************)
CONSTANTS Order, Cofactor, Curve, Keys, MaxItems, MaxRequests, ThreadCount

VARIABLES items, inv_factor, request, next, failed, awaited, responses, live, response, hashes, requests

Oprf == INSTANCE OPRF

\* What is multiplied is a point again.
LEMMA PointFacts ==
  ASSUME Oprf!OPRFAssumption
  PROVE  /\ Order \in Nat \ {0} /\ Cofactor \in Nat \ {0} /\ Order * Cofactor \in Nat \ {0}
         /\ \A item \in Item : Oprf!HashToCurve(item) \in Oprf!Points
         /\ Oprf!Points \subseteq Nat /\ Oprf!Scalars \subseteq Nat /\ Keys \subseteq Oprf!Scalars
         /\ \A point \in Nat, scalar \in Nat, clear \in BOOLEAN :
              Oprf!ScalarMultiply(point, scalar, clear) \in Oprf!Points
  <1>1. Order \in Nat \ {0} /\ Cofactor \in Nat \ {0} BY DEF Oprf!OPRFAssumption
  <1>2. Order * Cofactor \in Nat \ {0}
    <2>1. 1 * Cofactor <= Order * Cofactor BY <1>1, Multiples
    <2>2. Order * Cofactor \in Int BY <1>1
    <2> QED BY <1>1, <2>1, <2>2
  <1>3. PICK m \in Nat \ {0} : m = Order * Cofactor BY <1>2
  <1>4. Oprf!Points = 0 .. m - 1 BY <1>3 DEF Oprf!Points
  <1>5. ASSUME NEW point \in Nat, NEW scalar \in Nat, NEW clear \in BOOLEAN
        PROVE  Oprf!ScalarMultiply(point, scalar, clear) \in Oprf!Points
    <2>1. PICK x \in Int : x = point * scalar * (IF clear THEN Cofactor ELSE 1) BY <1>1
    <2>2. Oprf!ScalarMultiply(point, scalar, clear) = x % m BY <1>3, <2>1 DEF Oprf!ScalarMultiply
    <2>3. x % m \in 0 .. m - 1 BY Remainder
    <2> QED BY <1>4, <2>2, <2>3
  <1>6. \A item \in Item : Oprf!HashToCurve(item) \in Oprf!Points
    BY DEF Oprf!OPRFAssumption, Oprf!HashToCurve
  <1>7. Oprf!Points \subseteq Nat BY <1>4
  <1>8. Oprf!Scalars \subseteq Nat /\ Keys \subseteq Oprf!Scalars BY <1>1 DEF Oprf!Scalars, Oprf!OPRFAssumption
  <1> QED BY <1>1, <1>2, <1>5, <1>6, <1>7, <1>8

\* The inverse of a factor takes it out again.
LEMMA InverseFactor ==
  ASSUME Oprf!OPRFAssumption, NEW f \in Oprf!Scalars
  PROVE  Oprf!InvertScalar(f) \in Oprf!Scalars /\ (Oprf!InvertScalar(f) * f) % Order = 1
  <1>1. Order \in Nat \ {0} /\ (\A d \in 2 .. Order - 1 : Order % d # 0) /\ f \in 1 .. Order - 1
    BY DEF Oprf!OPRFAssumption, Oprf!Scalars
  <1>2. \E s \in 1 .. Order - 1 : (s * f) % Order = 1 BY ONLY <1>1, HasInverse
  <1>3. \E s \in Oprf!Scalars : (s * f) % Order = 1 BY <1>2 DEF Oprf!Scalars
  <1> QED BY <1>3 DEF Oprf!InvertScalar

\* A point that was blinded, multiplied by the key and unblinded is the
\* item's point times the key.
LEMMA Unblinded ==
  ASSUME Oprf!OPRFAssumption
  PROVE  \A point \in Oprf!Points, key \in Oprf!Scalars, f \in Oprf!Scalars : \A b, p :
           b = Oprf!ScalarMultiply(point, f, FALSE) /\ p = Oprf!ScalarMultiply(b, key, TRUE)
             => Oprf!ScalarMultiply(p, Oprf!InvertScalar(f), FALSE) = Oprf!ScalarMultiply(point, key, TRUE)
  <1> TAKE point \in Oprf!Points, key \in Oprf!Scalars, f \in Oprf!Scalars
  <1> TAKE b, p
  <1> HAVE b = Oprf!ScalarMultiply(point, f, FALSE) /\ p = Oprf!ScalarMultiply(b, key, TRUE)
  <1>1. /\ Order \in Nat \ {0} /\ Cofactor \in Nat \ {0} /\ Order * Cofactor \in Nat \ {0}
        /\ point \in Nat /\ key \in Nat /\ f \in Nat
    BY PointFacts
  <1>2. PICK m \in Nat \ {0} : m = Order * Cofactor BY <1>1
  <1>3. PICK v \in Nat : v = Oprf!InvertScalar(f) /\ (v * f) % Order = 1 BY InverseFactor, PointFacts
  <1>4. PICK q \in Int : v * f = q * Order + 1
    <2>1. v * f \in Int BY <1>1
    <2>2. PICK q \in Int : v * f = q * Order + ((v * f) % Order) BY ONLY <1>1, <2>1, Remainder
    <2> QED BY <1>3, <2>2
  <1>5. PICK kc \in Int : kc = key * Cofactor BY <1>1
  <1>6. b = (point * f) % m
    <2>1. point * f * 1 = point * f BY <1>1
    <2> QED BY <1>2, <2>1 DEF Oprf!ScalarMultiply
  <1>7. PICK pf \in Int : pf = point * f BY <1>1
  <1>8. b \in Int
    <2>1. pf % m \in 0 .. m - 1 BY Remainder
    <2>2. b = pf % m BY <1>6, <1>7
    <2>3. b \in 0 .. m - 1 BY <2>1, <2>2
    <2> QED BY ONLY <2>3
  <1>9. p = (b * kc) % m
    <2>3. key \in Int /\ Cofactor \in Int BY <1>1
    <2>1. b * key * Cofactor = b * kc BY ONLY <1>5, <1>8, <2>3
    <2> QED BY <1>2, <2>1 DEF Oprf!ScalarMultiply
  <1>10. p = (pf * kc) % m
    <2>1. ((pf % m) * kc) % m = (pf * kc) % m BY ProductRemainder
    <2> QED BY <1>6, <1>7, <1>9, <2>1
  <1>11. PICK pk \in Int : pk = pf * kc OBVIOUS
  <1>12. p \in Int
    <2>1. pk % m \in 0 .. m - 1 BY Remainder
    <2>2. p = pk % m BY <1>10, <1>11
    <2>3. p \in 0 .. m - 1 BY <2>1, <2>2
    <2> QED BY ONLY <2>3
  <1>13. Oprf!ScalarMultiply(p, v, FALSE) = (p * v) % m
    <2>3. v \in Int BY <1>3
    <2>1. p * v * 1 = p * v BY ONLY <1>12, <2>3
    <2> QED BY <1>2, <2>1 DEF Oprf!ScalarMultiply
  <1>14. (p * v) % m = (pk * v) % m
    <2>2. v \in Int /\ m \in Nat \ {0} BY <1>3
    <2>1. ((pk % m) * v) % m = (pk * v) % m BY ONLY <1>11, <2>2, ProductRemainder
    <2> QED BY <1>10, <1>11, <2>1
  <1>15. PICK c \in Int : c = point * kc BY <1>1
  <1>16. PICK j \in Int : j = point * key * q BY <1>1
  <1>17. pk * v = c + j * m
    <2>1. pk * v = c * (v * f)
      <3>1. pk = (point * f) * kc BY <1>7, <1>11
      <3>2. ((point * f) * kc) * v = (point * kc) * (v * f) BY <1>1
      <3> QED BY <1>15, <3>1, <3>2
    <2>2. c * (v * f) = c * (q * Order + 1) BY <1>4
    <2>3. c * (q * Order + 1) = c + c * (q * Order) BY <1>1
    <2>4. c * (q * Order) = j * m
      <3>1. c = (point * key) * Cofactor BY <1>1, <1>5, <1>15
      <3>2. PICK u \in Int : u = point * key BY <1>1
      <3>3. (u * Cofactor) * (q * Order) = (u * q) * (Order * Cofactor) BY <1>1
      <3> QED BY <1>2, <1>16, <3>1, <3>2, <3>3
    <2> QED BY <2>1, <2>2, <2>3, <2>4
  <1>18. (pk * v) % m = c % m
    <2>1. pk * v \in Int OBVIOUS
    <2> QED BY ONLY <1>17, <2>1, c \in Int, j \in Int, m \in Nat \ {0}, SameRemainder
  <1>19. c % m = Oprf!ScalarMultiply(point, key, TRUE)
    <2>1. point * key * Cofactor = c BY <1>1, <1>5, <1>15
    <2> QED BY <1>2, <2>1 DEF Oprf!ScalarMultiply
  <1> QED BY <1>3, <1>13, <1>14, <1>18, <1>19

\* The point of an item, blinded, and that point times the key.
Blinded(b, i) ==
  \E f \in Oprf!Scalars :
    inv_factor[i] = Oprf!InvertScalar(f) /\ b = Oprf!ScalarMultiply(Oprf!HashToCurve(items[i]), f, FALSE)

Multiplied(p, i) ==
  p \in Oprf!Points /\ \E b : Blinded(b, i) /\ p = Oprf!ScalarMultiply(b, oprf_key, TRUE)

\* What is sent, but for points that a fault has made none, and the answer.
IsRequest(q) ==
  /\ q \in Seq(Oprf!Points \cup {Oprf!Invalid}) /\ Len(q) = Len(items)
  /\ \A i \in 1 .. Len(items) : q[i] # Oprf!Invalid => Blinded(q[i], i)

IsResponse(p) ==
  p \in Seq(Oprf!Points) /\ Len(p) = Len(items) /\ \A i \in 1 .. Len(items) : Multiplied(p[i], i)

\* One of both is on its way while hashes are asked for.
Exchanged ==
  /\ oprf_key \in Keys /\ items \in Seq(Item) /\ live \in BOOLEAN
  /\ request = {} \/ \E q : request = {q} /\ IsRequest(q)
  /\ response = {} \/ \E p : response = {p} /\ IsResponse(p)
  /\ request = {} \/ response = {}
  /\ items = <<>> => request = {} /\ response = {}
  /\ live => request # {}

\* While the request is worked on: where each task is, what has been written,
\* and that the tasks waited for have come to the end.
Processed ==
  /\ next # <<>> /\ awaited # 0 /\ Len(responses) = Len(items)
  /\ \A t \in 1 .. Len(next) : \E k \in Nat : next[t] = t + k * Len(next)
  /\ \A i \in 1 .. Len(responses) : responses[i] # Oprf!Nothing =>
       Multiplied(responses[i], i) /\ \E t \in 1 .. Len(next), k \in Nat : next[t] = i + (k + 1) * Len(next)
  /\ \A t \in 1 .. Len(next), k \in Nat :
       t + k * Len(next) \in 1 .. Len(responses) /\ t + k * Len(next) < next[t]
         => responses[t + k * Len(next)] # Oprf!Nothing
  /\ \A t \in 1 .. Len(next) : t < awaited => t \notin failed /\ next[t] > Len(responses)

OInv ==
  /\ Exchanged
  /\ next \in Seq(Nat) /\ responses \in Seq(Oprf!Points \cup {Oprf!Nothing}) /\ awaited \in Nat
  /\ live => Processed
  /\ ~live => awaited = 0 /\ Oprf!Joined

\* What is known of a sequence.
LEMMA SequenceFacts ==
  ASSUME NEW S, NEW s \in Seq(S)
  PROVE  Len(s) \in Nat /\ DOMAIN s = 1 .. Len(s) /\ (\A i \in 1 .. Len(s) : s[i] \in S) /\ (s = <<>> <=> Len(s) = 0)
  BY LenProperties, ElementOfSeq, EmptySeq

\* A function on the first numbers is a sequence.
LEMMA IsSequence ==
  ASSUME NEW S, NEW n \in Nat, NEW f, f \in [1 .. n -> S]
  PROVE  f \in Seq(S) /\ Len(f) = n
  <1>1. f \in Seq(S) BY SeqDef
  <1>2. DOMAIN f = 1 .. n BY Zenon
  <1>3. Len(f) \in Nat /\ DOMAIN f = 1 .. Len(f) BY <1>1, SequenceFacts
  <1> QED BY <1>1, <1>2, <1>3

\* At first nothing is asked for.
LEMMA InitOInv ==
  ASSUME Oprf!Init
  PROVE  OInv
  <1>1. /\ oprf_key \in Keys /\ items = <<>> /\ request = {} /\ response = {} /\ live = FALSE
        /\ next = <<>> /\ responses = <<>> /\ awaited = 0
    BY DEF Oprf!Init
  <1>2. DOMAIN next = {} BY <1>1
  <1>3. next \in Seq(Nat) /\ responses \in Seq(Oprf!Points \cup {Oprf!Nothing}) /\ items \in Seq(Item)
    BY <1>1, EmptySeq
  <1>4. Oprf!Joined BY <1>2 DEF Oprf!Joined
  <1>5. Exchanged BY <1>1, <1>3 DEF Exchanged
  <1> QED BY <1>1, <1>3, <1>4, <1>5 DEF OInv

\* Hashes are asked for.
LEMMA RequestOInv ==
  ASSUME Oprf!OPRFAssumption, OInv, Oprf!RequestOPRF
  PROVE  OInv'
  <1>1. /\ items = <<>> /\ response = {} /\ ~live
        /\ UNCHANGED <<oprf_key, next, failed, awaited, responses, live, response>>
    BY DEF OInv, Exchanged, Oprf!RequestOPRF
  <1>2. PICK n \in 1 .. MaxItems : \E xs \in [1 .. n -> Item], factors \in [1 .. n -> Oprf!Scalars], bad \in 0 .. n :
          /\ items' = xs
          /\ inv_factor' = [i \in 1 .. n |-> Oprf!InvertScalar(factors[i])]
          /\ request' = {[i \in 1 .. n |-> IF i = bad THEN Oprf!Invalid
                            ELSE Oprf!ScalarMultiply(Oprf!HashToCurve(xs[i]), factors[i], FALSE)]}
    BY DEF Oprf!RequestOPRF
  <1>3. PICK xs \in [1 .. n -> Item], factors \in [1 .. n -> Oprf!Scalars], bad \in 0 .. n :
          /\ items' = xs
          /\ inv_factor' = [i \in 1 .. n |-> Oprf!InvertScalar(factors[i])]
          /\ request' = {[i \in 1 .. n |-> IF i = bad THEN Oprf!Invalid
                            ELSE Oprf!ScalarMultiply(Oprf!HashToCurve(xs[i]), factors[i], FALSE)]}
    BY <1>2
  <1>4. n \in Nat \ {0} BY DEF Oprf!OPRFAssumption
  <1>5. PICK q : q = [i \in 1 .. n |-> IF i = bad THEN Oprf!Invalid
                        ELSE Oprf!ScalarMultiply(Oprf!HashToCurve(xs[i]), factors[i], FALSE)]
    OBVIOUS
  <1>6. request' = {q} BY <1>3, <1>5
  <1>7. \A i \in 1 .. n : Oprf!ScalarMultiply(Oprf!HashToCurve(xs[i]), factors[i], FALSE) \in Oprf!Points
    BY PointFacts
  <1>8. q \in [1 .. n -> Oprf!Points \cup {Oprf!Invalid}] BY <1>5, <1>7
  <1>9. q \in Seq(Oprf!Points \cup {Oprf!Invalid}) /\ Len(q) = n BY <1>4, <1>8, IsSequence
  <1>10. xs \in Seq(Item) /\ Len(xs) = n BY <1>4, IsSequence
  <1>11. xs # <<>> BY <1>4, <1>10
  <1>12. \A i \in 1 .. n : q[i] # Oprf!Invalid => Blinded(q[i], i)'
    <2> SUFFICES ASSUME NEW i \in 1 .. n, q[i] # Oprf!Invalid
                 PROVE  \E f \in Oprf!Scalars :
                          /\ inv_factor'[i] = Oprf!InvertScalar(f)
                          /\ q[i] = Oprf!ScalarMultiply(Oprf!HashToCurve(items'[i]), f, FALSE)
      BY DEF Blinded
    <2>1. factors[i] \in Oprf!Scalars OBVIOUS
    <2>2. inv_factor'[i] = Oprf!InvertScalar(factors[i]) BY <1>3
    <2>3. q[i] = Oprf!ScalarMultiply(Oprf!HashToCurve(items'[i]), factors[i], FALSE) BY <1>3, <1>5
    <2> QED BY <2>1, <2>2, <2>3
  <1>13. IsRequest(q)' BY <1>3, <1>9, <1>10, <1>12 DEF IsRequest
  <1>14. Exchanged'
    BY <1>1, <1>3, <1>6, <1>10, <1>11, <1>13 DEF OInv, Exchanged
  <1>15. Oprf!Joined' BY <1>1 DEF OInv, Oprf!Joined, Oprf!Finished, Oprf!Running
  <1> QED BY <1>1, <1>14, <1>15 DEF OInv

\* The points come in and the tasks are given their first indices.
LEMMA StartOInv ==
  ASSUME Oprf!OPRFAssumption, OInv, Oprf!Start
  PROVE  OInv'
  <1>1. /\ request # {} /\ awaited = 0 /\ failed' = {} /\ awaited' = 1 /\ live' = TRUE
        /\ next' = [t \in 1 .. Oprf!TaskCount(Len(Oprf!Query)) |-> t]
        /\ responses' = [i \in 1 .. Len(Oprf!Query) |-> Oprf!Nothing]
        /\ UNCHANGED <<oprf_key, items, inv_factor, request, response, hashes, requests>>
    BY DEF Oprf!Start
  <1>2. PICK q : request = {q} /\ IsRequest(q) BY <1>1 DEF OInv, Exchanged
  <1>3. Oprf!Query = q BY <1>2 DEF Oprf!Query
  <1>4. Len(q) = Len(items) /\ items \in Seq(Item) /\ items # <<>>
    BY <1>1, <1>2 DEF IsRequest, OInv, Exchanged
  <1>5. PICK n \in Nat \ {0} : n = Len(q)
    <2>1. Len(items) \in Nat /\ Len(items) # 0 BY <1>4, SequenceFacts
    <2> QED BY <1>4, <2>1
  <1>6. PICK w \in Nat \ {0} : w = Oprf!TaskCount(Len(Oprf!Query))
    <2>1. ThreadCount \in Nat \ {0} BY DEF Oprf!OPRFAssumption
    <2> QED BY <1>3, <1>5, <2>1 DEF Oprf!TaskCount
  <1>7. next' = [t \in 1 .. w |-> t] BY <1>1, <1>6
  <1>8. next' \in Seq(Nat) /\ Len(next') = w
    <2>1. next' \in [1 .. w -> Nat] BY <1>7
    <2>2. PICK f : f = next' OBVIOUS
    <2>3. f \in Seq(Nat) /\ Len(f) = w BY <2>1, <2>2, IsSequence
    <2> QED BY <2>2, <2>3
  <1>9. responses' \in Seq(Oprf!Points \cup {Oprf!Nothing}) /\ Len(responses') = n
    <2>1. responses' \in [1 .. n -> Oprf!Points \cup {Oprf!Nothing}] BY <1>1, <1>3, <1>5
    <2>2. PICK f : f = responses' OBVIOUS
    <2>3. f \in Seq(Oprf!Points \cup {Oprf!Nothing}) /\ Len(f) = n BY <2>1, <2>2, IsSequence
    <2> QED BY <2>2, <2>3
  <1>10. Exchanged'
    <2>1. IsRequest(q)' BY <1>1, <1>2 DEF IsRequest, Blinded
    <2>2. response = {} BY <1>1 DEF OInv, Exchanged
    <2> QED BY <1>1, <1>2, <2>1, <2>2 DEF OInv, Exchanged
  <1>11. Processed'
    <2>1. next' # <<>> /\ awaited' # 0 /\ Len(responses') = Len(items')
      <3>1. PICK f : f = next' OBVIOUS
      <3>2. f # <<>> BY <1>8, <3>1, SequenceFacts
      <3> QED BY <1>1, <1>4, <1>5, <1>9, <3>1, <3>2
    <2>2. \A t \in 1 .. Len(next') : \E k \in Nat : next'[t] = t + k * Len(next')
      <3> SUFFICES ASSUME NEW t \in 1 .. w PROVE \E k \in Nat : next'[t] = t + k * w BY <1>8
      <3>1. next'[t] = t + 0 * w BY <1>7
      <3> QED BY <3>1
    <2>3. \A i \in 1 .. Len(responses') : responses'[i] = Oprf!Nothing BY <1>1, <1>3, <1>5, <1>9
    <2>4. ASSUME NEW t \in 1 .. Len(next'), NEW k \in Nat
          PROVE  ~ (t + k * Len(next') < next'[t])
      <3>1. t \in 1 .. w /\ next'[t] = t BY <1>7, <1>8, <2>4
      <3>2. 0 * w <= k * w /\ k * w \in Int BY ONLY Multiples, w \in Nat \ {0}, k \in Nat
      <3>3. ~ (t + k * w < t) BY <3>1, <3>2
      <3> QED BY <1>8, <3>1, <3>3
    <2>5. \A t \in 1 .. Len(next') : ~ (t < awaited') BY <1>1, <1>8
    <2> QED BY <2>1, <2>2, <2>3, <2>4, <2>5 DEF Processed
  <1> QED BY <1>1, <1>8, <1>9, <1>10, <1>11 DEF OInv

\* A task that runs finds the request and the responses.
LEMMA RunningIsLive ==
  ASSUME OInv, NEW t, Oprf!Running(t)
  PROVE  live /\ Processed /\ Exchanged /\ request # {}
  <1>1. live BY DEF OInv, Oprf!Joined, Oprf!Finished, Oprf!Running, Exchanged
  <1> QED BY <1>1 DEF OInv, Exchanged

\* One index of one task.
LEMMA TaskOInv ==
  ASSUME Oprf!OPRFAssumption, OInv, NEW t0, Oprf!Task(t0)
  PROVE  OInv'
  <1>1. /\ Oprf!Running(t0)
        /\ UNCHANGED <<oprf_key, items, inv_factor, request, awaited, live, response, hashes, requests>>
    BY DEF Oprf!Task
  <1>2. live /\ Processed /\ Exchanged /\ request # {} BY <1>1, RunningIsLive
  <1>3. PICK q : request = {q} /\ IsRequest(q) BY <1>2 DEF Exchanged
  <1>4. PICK n \in Nat \ {0} : n = Len(next) /\ DOMAIN next = 1 .. n /\ \A t \in 1 .. n : next[t] \in Nat
    <2>1. next \in Seq(Nat) /\ next # <<>> BY <1>2 DEF OInv, Processed
    <2> QED BY <2>1, SequenceFacts
  <1>5. PICK l \in Nat : l = Len(responses) /\ DOMAIN responses = 1 .. l /\ l = Len(items)
    <2>1. responses \in Seq(Oprf!Points \cup {Oprf!Nothing}) /\ Len(responses) = Len(items)
      BY <1>2 DEF OInv, Processed
    <2> QED BY <2>1, SequenceFacts
  <1>6. t0 \in 1 .. n /\ t0 \notin failed /\ next[t0] <= l BY <1>1, <1>4, <1>5 DEF Oprf!Running
  <1>7. PICK k0 \in Nat : next[t0] = t0 + k0 * n BY <1>2, <1>4, <1>6 DEF Processed
  <1>8. PICK i0 \in 1 .. l : i0 = next[t0]
    <2>1. 0 * n <= k0 * n /\ k0 * n \in Int BY ONLY Multiples, n \in Nat \ {0}, k0 \in Nat
    <2> QED BY <1>6, <1>7, <2>1
  <1>9. Oprf!QueryAt(next[t0]) = {q[i0]}
    <2>1. Oprf!Query = q BY <1>3 DEF Oprf!Query
    <2> QED BY <1>3, <1>8, <2>1 DEF Oprf!QueryAt
  <1>10. Exchanged'
    <2>1. IsRequest(q)' BY <1>1, <1>3 DEF IsRequest, Blinded
    <2>2. response' = {} BY <1>1, <1>2 DEF Exchanged
    <2> QED BY <1>1, <1>2, <1>3, <2>1, <2>2 DEF Exchanged
  <1>11. \A p, i : Multiplied(p, i)' <=> Multiplied(p, i) BY <1>1 DEF Multiplied, Blinded
  <1>12. CASE failed' = failed \cup {t0} /\ UNCHANGED <<next, responses>>
    <2>1. Processed'
      <3>1. \A t \in 1 .. Len(next) : t < awaited => t # t0
        BY <1>2, <1>4, <1>5, <1>6 DEF Processed
      <3>2. Processed /\ awaited' = awaited /\ items' = items BY <1>1, <1>2
      <3>3. \A t \in 1 .. Len(next) : t < awaited => t \notin failed' BY <1>12, <3>1, <3>2 DEF Processed
      <3> QED BY <1>11, <1>12, <3>2, <3>3 DEF Processed
    <2> QED BY <1>1, <1>2, <1>10, <1>12, <2>1 DEF OInv
  <1>13. CASE /\ q[i0] # Oprf!Invalid
              /\ responses' = [responses EXCEPT ![i0] = Oprf!ScalarMultiply(q[i0], oprf_key, TRUE)]
              /\ next' = [next EXCEPT ![t0] = @ + n]
              /\ UNCHANGED failed
    <2>1. PICK p : p = Oprf!ScalarMultiply(q[i0], oprf_key, TRUE) OBVIOUS
    <2>2. p \in Oprf!Points /\ Multiplied(p, i0)
      <3>1. Blinded(q[i0], i0) /\ q[i0] \in Oprf!Points
        <4>1. q \in Seq(Oprf!Points \cup {Oprf!Invalid}) /\ Len(q) = l BY <1>3, <1>5 DEF IsRequest
        <4>2. q[i0] \in Oprf!Points \cup {Oprf!Invalid} BY <4>1, SequenceFacts
        <4> QED BY <1>3, <1>5, <1>13, <4>2 DEF IsRequest
      <3>2. oprf_key \in Nat /\ q[i0] \in Nat BY <1>2, <3>1, PointFacts DEF Exchanged
      <3>3. p \in Oprf!Points BY <2>1, <3>2, PointFacts
      <3> QED BY <2>1, <3>1, <3>3 DEF Multiplied
    <2>3. p # Oprf!Nothing
      <3>1. p \in Nat BY <2>2, PointFacts
      <3> QED BY <3>1 DEF Oprf!Nothing
    <2>4. responses' = [responses EXCEPT ![i0] = p] BY <1>13, <2>1
    <2>5. next' \in Seq(Nat) /\ Len(next') = n
      <3>1. next' \in [1 .. n -> Nat]
        <4>1. next \in [1 .. n -> Nat]
          <5>1. next \in Seq(Nat) BY DEF OInv
          <5> QED BY <1>4, <5>1, LenProperties
        <4>2. next[t0] + n \in Nat BY <1>4, <1>6
        <4> QED BY <1>13, <4>1, <4>2
      <3>2. PICK f : f = next' OBVIOUS
      <3>3. f \in Seq(Nat) /\ Len(f) = n BY <3>1, <3>2, IsSequence
      <3> QED BY <3>2, <3>3
    <2>6. responses' \in Seq(Oprf!Points \cup {Oprf!Nothing}) /\ Len(responses') = l
      <3>1. responses' \in [1 .. l -> Oprf!Points \cup {Oprf!Nothing}]
        <4>1. responses \in [1 .. l -> Oprf!Points \cup {Oprf!Nothing}]
          <5>1. responses \in Seq(Oprf!Points \cup {Oprf!Nothing}) BY DEF OInv
          <5> QED BY <1>5, <5>1, LenProperties
        <4> QED BY <2>2, <2>4, <4>1
      <3>2. PICK f : f = responses' OBVIOUS
      <3>3. f \in Seq(Oprf!Points \cup {Oprf!Nothing}) /\ Len(f) = l BY <3>1, <3>2, IsSequence
      <3> QED BY <3>2, <3>3
    <2>7. next'[t0] = i0 + n /\ \A t \in 1 .. n : t # t0 => next'[t] = next[t]
      BY <1>4, <1>6, <1>8, <1>13
    <2>8. responses'[i0] = p /\ \A i \in 1 .. l : i # i0 => responses'[i] = responses[i]
      BY <1>5, <2>4
    <2>9. \A k \in Nat : (k + 1) \in Nat /\ (k + 1) * n = k * n + n /\ k * n \in Nat
      <3> SUFFICES ASSUME NEW k \in Nat PROVE (k + 1) * n = k * n + n /\ k * n \in Nat OBVIOUS
      <3>1. k * n \in Nat BY ONLY k \in Nat, n \in Nat
      <3>2. (k + 1) * n = k * n + n BY ONLY k \in Nat, n \in Nat
      <3> QED BY <3>1, <3>2
    <2>10. ASSUME NEW t \in 1 .. n PROVE \E k \in Nat : next'[t] = t + k * n
      <3>1. CASE t = t0
        <4>1. next'[t0] = t0 + (k0 + 1) * n BY <1>6, <1>7, <1>8, <2>7, <2>9
        <4> QED BY <2>9, <3>1, <4>1
      <3>2. CASE t # t0 BY <1>2, <1>4, <2>7, <3>2 DEF Processed
      <3> QED BY <3>1, <3>2
    <2>11. ASSUME NEW i \in 1 .. l, responses'[i] # Oprf!Nothing
           PROVE  Multiplied(responses'[i], i) /\ \E t \in 1 .. n, k \in Nat : next'[t] = i + (k + 1) * n
      <3>1. CASE i = i0
        <4>1. next'[t0] = i0 + (0 + 1) * n BY <2>7
        <4> QED BY <1>6, <2>2, <2>8, <3>1, <4>1
      <3>2. CASE i # i0
        <4>1. responses'[i] = responses[i] BY <2>8, <3>2
        <4>2. Multiplied(responses[i], i) /\ \E t \in 1 .. n, k \in Nat : next[t] = i + (k + 1) * n
          BY <1>2, <1>4, <1>5, <2>11, <4>1 DEF Processed
        <4>3. PICK t \in 1 .. n, k \in Nat : next[t] = i + (k + 1) * n BY <4>2
        <4>4. CASE t = t0
          <5>1. ((k + 1) + 1) * n = (k + 1) * n + n /\ k + 1 \in Nat /\ (k + 1) * n \in Nat BY <2>9
          <5>2. next'[t0] = i + ((k + 1) + 1) * n BY <1>8, <2>7, <4>3, <4>4, <5>1
          <5> QED BY <1>6, <4>1, <4>2, <5>1, <5>2
        <4>5. CASE t # t0
          <5>1. next'[t] = i + (k + 1) * n BY <2>7, <4>3, <4>5
          <5> QED BY <4>1, <4>2, <5>1
        <4> QED BY <4>4, <4>5
      <3> QED BY <3>1, <3>2
    <2>12. ASSUME NEW t \in 1 .. n, NEW k \in Nat, t + k * n \in 1 .. l, t + k * n < next'[t]
           PROVE  responses'[t + k * n] # Oprf!Nothing
      <3>1. PICK i \in 1 .. l : i = t + k * n BY <2>12
      <3>2. CASE i < next[t]
        <4>1. responses[i] # Oprf!Nothing BY <1>2, <1>4, <1>5, <3>1, <3>2 DEF Processed
        <4> QED BY <2>3, <2>8, <3>1, <4>1
      <3>3. CASE ~ (i < next[t])
        <4>1. t = t0 BY <2>7, <2>12, <3>1, <3>3
        <4>2. t0 + k0 * n <= t0 + k * n /\ t0 + k * n < (t0 + k0 * n) + n
          <5>1. next[t0] \in Nat BY <1>4, <1>6
          <5> QED BY <1>7, <1>8, <2>7, <2>12, <3>1, <3>3, <4>1, <5>1
        <4>3. k * n \in Nat /\ k0 * n \in Nat BY <2>9
        <4>4. PICK a \in Nat, a0 \in Nat : a = k * n /\ a0 = k0 * n BY <4>3
        <4>5. a0 <= a /\ a < a0 + n BY <1>6, <4>2, <4>4
        <4>6. ~ (k < k0)
          <5>1. k < k0 => k * n + n <= k0 * n BY ONLY Multiples, n \in Nat \ {0}, k \in Nat, k0 \in Nat
          <5> QED BY <4>4, <4>5, <5>1
        <4>7. ~ (k0 < k)
          <5>1. k0 < k => k0 * n + n <= k * n BY ONLY Multiples, n \in Nat \ {0}, k \in Nat, k0 \in Nat
          <5> QED BY <4>4, <4>5, <5>1
        <4>8. k = k0 BY <4>6, <4>7
        <4> QED BY <1>7, <1>8, <2>3, <2>8, <4>1, <4>8
      <3> QED BY <3>2, <3>3
    <2>13. ASSUME NEW t \in 1 .. n, t < awaited PROVE t \notin failed' /\ next'[t] > l
      <3>1. t \notin failed /\ next[t] > l BY <1>2, <1>4, <1>5, <2>13 DEF Processed
      <3>2. t # t0 BY <1>4, <1>6, <3>1
      <3> QED BY <1>13, <2>7, <3>1, <3>2
    <2>14. next' # <<>>
      <3>1. PICK f : f = next' OBVIOUS
      <3> QED BY <2>5, <3>1, SequenceFacts
    <2>15. Processed'
      <3>1. awaited' # 0 /\ awaited' = awaited /\ Len(responses') = Len(items')
        BY <1>1, <1>2, <1>5, <2>6 DEF Processed
      <3> QED BY <1>11, <2>5, <2>6, <2>10, <2>11, <2>12, <2>13, <2>14, <3>1 DEF Processed
    <2> QED BY <1>1, <1>2, <1>10, <2>5, <2>6, <2>15 DEF OInv
  <1>14. \/ failed' = failed \cup {t0} /\ UNCHANGED <<next, responses>>
         \/ /\ q[i0] # Oprf!Invalid
            /\ responses' = [responses EXCEPT ![i0] = Oprf!ScalarMultiply(q[i0], oprf_key, TRUE)]
            /\ next' = [next EXCEPT ![t0] = @ + n]
            /\ UNCHANGED failed
    BY <1>4, <1>8, <1>9 DEF Oprf!Task
  <1> QED BY <1>12, <1>13, <1>14

\* RunOPRF has waited for one more task.
LEMMA GetOInv ==
  ASSUME OInv, Oprf!Get
  PROVE  OInv'
  <1>1. /\ awaited \in DOMAIN next /\ Oprf!Finished(awaited) /\ awaited \notin failed
        /\ awaited' = awaited + 1
        /\ UNCHANGED <<oprf_key, items, inv_factor, request, next, failed, responses, live, response>>
    BY DEF Oprf!Get
  <1>2. PICK n \in Nat : n = Len(next) /\ DOMAIN next = 1 .. n /\ \A t \in 1 .. n : next[t] \in Nat
    BY SequenceFacts DEF OInv
  <1>3. PICK l \in Nat : l = Len(responses) BY SequenceFacts DEF OInv
  <1>4. live BY <1>1, <1>2 DEF OInv
  <1>5. Processed BY <1>4 DEF OInv
  <1>6. next[awaited] > l BY <1>1, <1>2, <1>3 DEF Oprf!Finished, Oprf!Running
  <1>7. \A t \in 1 .. n : t < awaited' => t \notin failed /\ next[t] > l
    <2> SUFFICES ASSUME NEW t \in 1 .. n, t < awaited + 1 PROVE t \notin failed /\ next[t] > l BY <1>1
    <2>1. CASE t = awaited BY <1>1, <1>6, <2>1
    <2>2. CASE t < awaited BY <1>2, <1>3, <1>5, <2>2 DEF Processed
    <2> QED BY <1>1, <1>2, <2>1, <2>2
  <1>8. \A p, i : Multiplied(p, i)' <=> Multiplied(p, i) BY <1>1 DEF Multiplied, Blinded
  <1>9. \A p : IsRequest(p)' <=> IsRequest(p) BY <1>1 DEF IsRequest, Blinded
  <1>10. \A p : IsResponse(p)' <=> IsResponse(p) BY <1>1, <1>8 DEF IsResponse
  <1>11. Exchanged' BY <1>1, <1>9, <1>10 DEF OInv, Exchanged
  <1>12. awaited' \in Nat /\ awaited' # 0 BY <1>1, <1>2
  <1>13. Processed' BY <1>1, <1>2, <1>3, <1>5, <1>7, <1>8, <1>12 DEF Processed
  <1> QED BY <1>1, <1>4, <1>11, <1>12, <1>13 DEF OInv

\* The exception of a task leaves ProcessQueries once all tasks have ended.
LEMMA UnwindOInv ==
  ASSUME OInv, Oprf!Unwind
  PROVE  OInv'
  <1>1. /\ Oprf!Joined /\ live' = FALSE /\ request' = {} /\ awaited' = 0 /\ awaited \in DOMAIN next
        /\ UNCHANGED <<oprf_key, items, inv_factor, next, failed, responses, response>>
    BY DEF Oprf!Unwind
  <1>2. Oprf!Joined' BY <1>1 DEF Oprf!Joined, Oprf!Finished, Oprf!Running
  <1>3. DOMAIN next = 1 .. Len(next) BY SequenceFacts DEF OInv
  <1>4. awaited # 0 /\ awaited \in Nat BY <1>1, <1>3 DEF OInv
  <1>5. request # {} BY <1>4 DEF OInv, Exchanged
  <1>6. response = {} BY <1>5 DEF OInv, Exchanged
  <1>7. Exchanged' BY <1>1, <1>6 DEF OInv, Exchanged
  <1> QED BY <1>1, <1>2, <1>7 DEF OInv

\* Every index is some task's.
LEMMA IndexOfTask ==
  ASSUME NEW n \in Nat \ {0}, NEW i \in Nat \ {0}
  PROVE  \E t \in 1 .. n, k \in Nat : i = t + k * n
  <1>1. PICK q \in Int, r \in 0 .. n - 1 : i - 1 = q * n + r
    <2>1. i - 1 \in Int OBVIOUS
    <2>2. PICK a \in Int : a = i - 1 OBVIOUS
    <2>3. (a % n) \in 0 .. n - 1 /\ \E q \in Int : a = q * n + (a % n) BY ONLY <2>2, n \in Nat \ {0}, Remainder
    <2> QED BY <2>2, <2>3
  <1>2. q >= 0
    <2>1. q < 0 => q * n + n <= 0 * n BY ONLY Multiples, n \in Nat \ {0}, q \in Int
    <2>2. q * n \in Int /\ 0 * n = 0 OBVIOUS
    <2>3. PICK a \in Int : a = q * n BY <2>2
    <2>4. 0 <= i - 1 /\ i - 1 = a + r BY <1>1, <2>3
    <2>5. q < 0 => a + n <= 0 BY <2>1, <2>2, <2>3
    <2> QED BY <2>4, <2>5
  <1>3. i = (r + 1) + q * n
    <2>1. PICK a \in Int : a = q * n OBVIOUS
    <2> QED BY <1>1, <2>1
  <1>4. r + 1 \in 1 .. n /\ q \in Nat BY <1>2
  <1> QED BY <1>3, <1>4

\* The answer: all tasks have come to the end, so every index is written.
LEMMA RespondOInv ==
  ASSUME OInv, Oprf!Respond
  PROVE  OInv'
  <1>1. /\ awaited = Len(next) + 1 /\ next # <<>> /\ Oprf!Joined
        /\ response' = {responses} /\ live' = FALSE /\ request' = {} /\ awaited' = 0
        /\ UNCHANGED <<oprf_key, items, inv_factor, next, failed, responses>>
    BY DEF Oprf!Respond
  <1>2. PICK n \in Nat \ {0} : n = Len(next) /\ DOMAIN next = 1 .. n /\ \A t \in 1 .. n : next[t] \in Nat
    BY <1>1, SequenceFacts DEF OInv
  <1>3. PICK l \in Nat : l = Len(responses) /\ \A i \in 1 .. l : responses[i] \in Oprf!Points \cup {Oprf!Nothing}
    BY SequenceFacts DEF OInv
  <1>4. live /\ request # {} BY <1>1, <1>2 DEF OInv, Exchanged
  <1>5. Processed BY <1>4 DEF OInv
  <1>6. ASSUME NEW i \in 1 .. l PROVE responses[i] # Oprf!Nothing
    <2>4. i \in Nat \ {0} OBVIOUS
    <2>1. PICK t \in 1 .. n, k \in Nat : i = t + k * n BY ONLY <2>4, n \in Nat \ {0}, IndexOfTask
    <2>2. next[t] > l BY <1>1, <1>2, <1>3, <1>5 DEF Processed
    <2>3. i < next[t] BY <1>2, <2>2
    <2> QED BY <1>2, <1>3, <1>5, <2>1, <2>3 DEF Processed
  <1>7. l = Len(items) BY <1>3, <1>5 DEF Processed
  <1>8. IsResponse(responses)
    <2>1. responses \in Seq(Oprf!Points)
      <3>1. responses \in [1 .. l -> Oprf!Points]
        <4>1. responses = [i \in 1 .. l |-> responses[i]] BY <1>3, LenProperties DEF OInv
        <4>2. \A i \in 1 .. l : responses[i] \in Oprf!Points BY <1>3, <1>6
        <4> QED BY <4>1, <4>2
      <3> QED BY <3>1, IsSequence
    <2>2. \A i \in 1 .. Len(items) : Multiplied(responses[i], i) BY <1>3, <1>5, <1>6, <1>7 DEF Processed
    <2> QED BY <1>3, <1>7, <2>1, <2>2 DEF IsResponse
  <1>9. IsResponse(responses)' BY <1>1, <1>8 DEF IsResponse, Multiplied, Blinded
  <1>10. items # <<>> BY <1>4 DEF OInv, Exchanged
  <1>11. Exchanged' BY <1>1, <1>9, <1>10 DEF OInv, Exchanged
  <1>12. Oprf!Joined' BY <1>1 DEF Oprf!Joined, Oprf!Finished, Oprf!Running
  <1> QED BY <1>1, <1>11, <1>12 DEF OInv

\* The hashes are taken out.
LEMMA ExtractOInv ==
  ASSUME OInv, Oprf!ExtractHashes
  PROVE  OInv'
  <1>1. /\ response # {} /\ response' = {} /\ items' = <<>>
        /\ UNCHANGED <<oprf_key, inv_factor, request, next, failed, awaited, responses, live>>
    BY DEF Oprf!ExtractHashes
  <1>2. request = {} /\ ~live BY <1>1 DEF OInv, Exchanged
  <1>3. items' \in Seq(Item) BY <1>1, EmptySeq
  <1>4. Exchanged' BY <1>1, <1>2, <1>3 DEF OInv, Exchanged
  <1>5. Oprf!Joined' BY <1>1, <1>2 DEF OInv, Oprf!Joined, Oprf!Finished, Oprf!Running
  <1> QED BY <1>1, <1>2, <1>4, <1>5 DEF OInv

LEMMA NextOInv ==
  ASSUME Oprf!OPRFAssumption, OInv, [Oprf!Next]_Oprf!vars
  PROVE  OInv'
  <1>1. CASE Oprf!RequestOPRF BY <1>1, RequestOInv
  <1>2. CASE Oprf!Start BY <1>2, StartOInv
  <1>3. CASE Oprf!Tasks BY <1>3, TaskOInv DEF Oprf!Tasks
  <1>4. CASE Oprf!Get BY <1>4, GetOInv
  <1>5. CASE Oprf!Unwind BY <1>5, UnwindOInv
  <1>6. CASE Oprf!Respond BY <1>6, RespondOInv
  <1>7. CASE Oprf!ExtractHashes BY <1>7, ExtractOInv
  <1>8. CASE UNCHANGED Oprf!vars
    <2>1. UNCHANGED <<oprf_key, items, inv_factor, request, next, failed, awaited, responses, live, response>>
      BY <1>8 DEF Oprf!vars
    <2>2. \A p, i : Multiplied(p, i)' <=> Multiplied(p, i) BY <2>1 DEF Multiplied, Blinded
    <2>3. \A p : IsRequest(p)' <=> IsRequest(p) BY <2>1 DEF IsRequest, Blinded
    <2>4. \A p : IsResponse(p)' <=> IsResponse(p) BY <2>1, <2>2 DEF IsResponse
    <2>5. Exchanged' BY <2>1, <2>3, <2>4 DEF OInv, Exchanged
    <2>6. live => Processed' BY <2>1, <2>2 DEF OInv, Processed
    <2>7. ~live => Oprf!Joined' BY <2>1 DEF OInv, Oprf!Joined, Oprf!Finished, Oprf!Running
    <2> QED BY <2>1, <2>5, <2>6, <2>7 DEF OInv
  <1>9. CASE Oprf!Rest BY <1>8, <1>9 DEF Oprf!Rest
  <1> QED BY <1>1, <1>2, <1>3, <1>4, <1>5, <1>6, <1>7, <1>8, <1>9 DEF Oprf!Next

\* What is answered has a point for every index, and what is written is behind
\* the task that has written it.
LEMMA OInvImplies ==
  ASSUME Oprf!OPRFAssumption, OInv
  PROVE  Oprf!AnswersComplete
  <1>1. ASSUME NEW points \in response PROVE Oprf!Nothing \notin Oprf!ToSet(points)
    <2>1. IsResponse(points) BY <1>1 DEF OInv, Exchanged
    <2>2. points \in Seq(Oprf!Points) BY <2>1 DEF IsResponse
    <2>3. Oprf!ToSet(points) \subseteq Oprf!Points BY <2>2, SequenceFacts DEF Oprf!ToSet
    <2>4. Oprf!Nothing \notin Oprf!Points BY PointFacts DEF Oprf!Nothing
    <2> QED BY <2>3, <2>4
  <1>2. ASSUME live, NEW i \in DOMAIN responses, responses[i] # Oprf!Nothing
        PROVE  \E t \in DOMAIN next : next[t] > i /\ (next[t] - i) % Len(next) = 0
    <2>1. Processed BY <1>2 DEF OInv
    <2>2. PICK n \in Nat \ {0} : n = Len(next) /\ DOMAIN next = 1 .. n
      BY <2>1, SequenceFacts DEF OInv, Processed
    <2>3. i \in 1 .. Len(responses) /\ i \in Nat BY <1>2, SequenceFacts DEF OInv
    <2>4. PICK t \in 1 .. n, k \in Nat : next[t] = i + (k + 1) * n BY <1>2, <2>1, <2>2, <2>3 DEF Processed
    <2>5. PICK j \in Nat \ {0} : j = k + 1 OBVIOUS
    <2>6. PICK a \in Int : a = j * n /\ a >= n
      <3>1. 1 <= j => 1 * n <= j * n BY ONLY Multiples, n \in Nat \ {0}, j \in Nat \ {0}
      <3>2. j * n \in Int OBVIOUS
      <3> QED BY <3>1, <3>2
    <2>7. next[t] = i + a BY <2>4, <2>5, <2>6
    <2>8. next[t] > i /\ next[t] - i = a BY <2>3, <2>6, <2>7
    <2>9. a % n = 0
      <3>1. a = j * n + 0 /\ 0 \in 0 .. n - 1 BY <2>6
      <3> QED BY ONLY <3>1, n \in Nat \ {0}, a \in Int, j \in Int, OneRemainder, j \in Nat \ {0}
    <2> QED BY <2>2, <2>8, <2>9
  <1>3. live => \A i \in DOMAIN responses : responses[i] # Oprf!Nothing =>
          \E t \in DOMAIN next : next[t] > i /\ (next[t] - i) % Len(next) = 0
    BY <1>2
  <1> QED BY ONLY <1>1, <1>3 DEF Oprf!AnswersComplete

\* A step that changes the responses has them.
LEMMA StepWritesToLive ==
  ASSUME OInv, [Oprf!Next]_Oprf!vars, responses' # responses
  PROVE  live'
  <1>1. CASE Oprf!Start BY <1>1 DEF Oprf!Start
  <1>2. CASE Oprf!Tasks
    <2>1. PICK t : Oprf!Task(t) BY <1>2 DEF Oprf!Tasks
    <2>2. Oprf!Running(t) /\ live' = live BY <2>1 DEF Oprf!Task
    <2> QED BY <2>2, RunningIsLive
  <1> QED BY <1>1, <1>2 DEF Oprf!Next, Oprf!vars, Oprf!RequestOPRF, Oprf!Get, Oprf!Unwind, Oprf!Respond,
                            Oprf!ExtractHashes, Oprf!Rest

\* The hashes that are taken out are those of the database.
LEMMA StepHashesAgree ==
  ASSUME Oprf!OPRFAssumption, OInv, Oprf!ExtractHashes
  PROVE  hashes' = [i \in DOMAIN items |-> Oprf!GetItemHash(items[i], oprf_key)]
  <1>1. PICK p \in response :
          hashes' = IF Oprf!Refused(p) THEN <<>>
                    ELSE [i \in DOMAIN p |-> Oprf!ExtractHash(Oprf!ScalarMultiply(p[i], Oprf!FactorOf(i), FALSE))]
    BY DEF Oprf!ExtractHashes
  <1>2. IsResponse(p) BY <1>1 DEF OInv, Exchanged
  <1>3. items \in Seq(Item) /\ oprf_key \in Oprf!Scalars BY PointFacts DEF OInv, Exchanged
  <1>4. p \in Seq(Oprf!Points) /\ Len(p) = Len(items) BY <1>2 DEF IsResponse
  <1>5. DOMAIN p = DOMAIN items /\ DOMAIN items = 1 .. Len(items) BY <1>3, <1>4, SequenceFacts
  <1>6. hashes' = [i \in DOMAIN items |-> Oprf!ExtractHash(Oprf!ScalarMultiply(p[i], Oprf!FactorOf(i), FALSE))]
    BY <1>1, <1>4, <1>5 DEF Oprf!Refused
  <1>7. ASSUME NEW i \in DOMAIN items
        PROVE  Oprf!ExtractHash(Oprf!ScalarMultiply(p[i], Oprf!FactorOf(i), FALSE))
                 = Oprf!GetItemHash(items[i], oprf_key)
    <2>1. Multiplied(p[i], i) BY <1>2, <1>5 DEF IsResponse
    <2>2. PICK b : Blinded(b, i) /\ p[i] = Oprf!ScalarMultiply(b, oprf_key, TRUE) BY <2>1 DEF Multiplied
    <2>3. PICK f \in Oprf!Scalars : /\ inv_factor[i] = Oprf!InvertScalar(f)
                                    /\ b = Oprf!ScalarMultiply(Oprf!HashToCurve(items[i]), f, FALSE)
      BY <2>2 DEF Blinded
    <2>4. items[i] \in Item BY <1>3, <1>5, SequenceFacts
    <2>5. PICK c \in Oprf!Points : c = Oprf!HashToCurve(items[i]) BY <2>4, PointFacts
    <2>6. PICK x : x = p[i] OBVIOUS
    <2>9. PICK key \in Oprf!Scalars : key = oprf_key BY <1>3
    <2>7. b = Oprf!ScalarMultiply(c, f, FALSE) /\ x = Oprf!ScalarMultiply(b, key, TRUE) BY <2>2, <2>3, <2>5, <2>6, <2>9
    <2>8. Oprf!ScalarMultiply(x, Oprf!InvertScalar(f), FALSE) = Oprf!ScalarMultiply(c, key, TRUE)
      <3>1. Oprf!OPRFAssumption OBVIOUS
      <3>2. c \in Oprf!Points /\ key \in Oprf!Scalars /\ f \in Oprf!Scalars OBVIOUS
      <3>3. b = Oprf!ScalarMultiply(c, f, FALSE) BY <2>7
      <3>4. x = Oprf!ScalarMultiply(b, key, TRUE) BY <2>7
      <3> QED BY ONLY <3>1, <3>2, <3>3, <3>4, Unblinded, Zenon
    <2> QED BY <2>3, <2>5, <2>6, <2>8, <2>9 DEF Oprf!FactorOf, Oprf!GetItemHash
  <1> QED BY <1>6, <1>7

\* An answer has a point for every index that was asked for, no task writes to
\* responses that are gone, and the hashes that come out of the exchange are
\* those the database has of the same items, whatever the order of the group
\* (a prime), the cofactor, the key, the factors, the number of items and of
\* tasks, and whichever task comes when or throws (OPRFReceiver in oprf_receiver.cpp,
\* OPRFSender in oprf_sender.cpp).
THEOREM Agreed ==
  ASSUME Oprf!OPRFAssumption
  PROVE  Oprf!Spec => []Oprf!AnswersComplete /\ Oprf!WritesToLive /\ Oprf!HashesAgree
  <1>1. Oprf!Init => OInv BY InitOInv
  <1>2. OInv /\ [Oprf!Next]_Oprf!vars => OInv' BY NextOInv
  <1>3. OInv => Oprf!AnswersComplete BY OInvImplies
  <1>4. OInv /\ [Oprf!Next]_Oprf!vars => [responses' # responses => live']_Oprf!vars BY StepWritesToLive
  <1>5. OInv /\ [Oprf!Next]_Oprf!vars =>
          [Oprf!ExtractHashes => hashes' = [i \in DOMAIN items |-> Oprf!GetItemHash(items[i], oprf_key)]]_Oprf!vars
    BY StepHashesAgree
  <1> QED BY <1>1, <1>2, <1>3, <1>4, <1>5, PTL DEF Oprf!Spec, Oprf!WritesToLive, Oprf!HashesAgree
=============================================================================
