---------------------------- MODULE ReceiverDB -----------------------------
(***************************************************************************)
(* The receiver's database: the set hashed_items_ of what was inserted and *)
(* the bin bundles that a query is evaluated on.  A call that changes them *)
(* holds the writer lock; it first updates hashed_items_, then dispatches  *)
(* the entries to one task of the thread pool for each bundle index, waits *)
(* for the tasks and regenerates the caches.  When a task throws, the call *)
(* is unwound: it leaves what was done done.                               *)
(*                                                                         *)
(* One call is served at a time, as the lock has it; queries look at the   *)
(* database in between.  Item hashes are taken to differ, and their parts  *)
(* not to mix: no item is made up of parts of others.                      *)
(***************************************************************************)
EXTENDS BinBundle

CONSTANTS
  Item,
  Parts,            \* the field elements of each item, all of one length
  Locations,        \* all_locations: the rows of the table where an item may be
  BundleIdxCount,
  InsertBatches,    \* the batches callers insert, records [item, label]
  RemoveBatches,    \* the batches they remove, of items
  MixedBatches,     \* whether a batch may name an item twice, or items that
                    \* are in the database before some that are not
  RemoveAbsent,     \* whether a batch to remove may name items that are not there
  MaxBundles        \* bound: nothing is inserted while an index has more bundles
                    \* (what removals that threw left behind may pile up for ever)

NoLabel == "none"
MovedFrom == "moved"   \* no label that callers insert

FeltsPerItem == Len(Parts[CHOOSE x \in Item : TRUE])
TableSize == (BundleIdxCount * NumBins) \div FeltsPerItem
BundleIdxs == 0 .. BundleIdxCount - 1

ReceiverDBAssumption ==
  /\ NumBins % FeltsPerItem = 0
  /\ BundleIdxCount \in Nat
  /\ MaxBundles \in Nat
  /\ FeltsPerItem \in Nat \ {0}
  /\ IsFiniteSet(Item)
  /\ \A x \in Item : Locations[x] # {} /\ Locations[x] \subseteq 0 .. TableSize - 1
  /\ \A x \in Item :
       ~\E parts \in [1 .. FeltsPerItem -> Item \ {x}] :
          \A k \in 1 .. FeltsPerItem : Parts[parts[k]][k] = Parts[x][k]
  /\ \A batch \in InsertBatches : \A i \in DOMAIN batch :
       batch[i].item \in Item /\ batch[i].label # MovedFrom
  /\ \A batch \in RemoveBatches : \A i \in DOMAIN batch : batch[i] \in Item
  /\ \A batch \in InsertBatches \cup RemoveBatches : batch \in Seq(Range(batch))

ASSUME ReceiverDBConfigured == BinBundleAssumption /\ ReceiverDBAssumption

VARIABLES
  hashed_items,
  item_count,
  bin_bundles,   \* for each bundle index, a sequence of bundles
  stripped,
  call,          \* the call being served and how far it is
  tasks,         \* for each bundle index, the task of the phase being run
  outcome,       \* of the last call
  file,          \* a saved database, if any
  before         \* what queries saw when the call began (a history variable)

vars == <<hashed_items, item_count, bin_bundles, stripped, call, tasks, outcome, file, before>>

Idle == [op |-> "none", stage |-> "idle", request |-> {}, phases |-> <<>>]
NoTask == [todo |-> {}, state |-> "none"]

Init ==
  /\ hashed_items = {}
  /\ item_count = 0
  /\ bin_bundles = [b \in BundleIdxs |-> <<>>]
  /\ stripped = FALSE
  /\ call = Idle
  /\ tasks = [b \in BundleIdxs |-> NoTask]
  /\ outcome = "ok"
  /\ file = {}
  /\ before = {}

(***************************************************************************)
(* Hashing.  Labeled data is hashed with the OPRF key; change_hashed_item, *)
(* which everything else uses, keeps the item as it is.                    *)
(***************************************************************************)
PlainHash(x) == [hash |-> "plain", item |-> x]

DataHash(x) == [hash |-> IF LabelSize = 0 THEN "plain" ELSE "oprf", item |-> x]

Felts(h) == [k \in 1 .. FeltsPerItem |-> <<h.hash, Parts[h.item][k]>>]

(***************************************************************************)
(* std::remove_if over a batch: the entries that are kept, in order, and   *)
(* behind them what is left in the vector.  An entry there that was kept   *)
(* has been moved from, which empties its label.  What a phase works on is *)
(* a function on positions, some of which are not used: those kept are at  *)
(* their old positions, the rest is behind the end of the batch.           *)
(***************************************************************************)
Kept(data, isKept) == [i \in {j \in DOMAIN data : isKept[j]} |-> data[i]]

Leftover(data, isKept) ==
  LET n == Len(data)
      left(e, kept) == IF kept /\ LabelSize # 0 THEN [e EXCEPT !.label = MovedFrom] ELSE e
  IN  [i \in n + Cardinality(DOMAIN Kept(data, isKept)) + 1 .. n + n |->
         left(data[i - n], isKept[i - n])]

Unerased(data, isKept) ==
  LET kept == Kept(data, isKept)
      rest == Leftover(data, isKept)
  IN  [i \in DOMAIN kept \cup DOMAIN rest |-> IF i \in DOMAIN kept THEN kept[i] ELSE rest[i]]

\* preprocess_data and the split by bundle index: the tasks of one dispatch.
CuckooIdx(location) == location * FeltsPerItem
UnpackBin(cuckoo_idx) == cuckoo_idx % NumBins
UnpackBundle(cuckoo_idx) == (cuckoo_idx - UnpackBin(cuckoo_idx)) \div NumBins

\* An entry is the item at a position, at one of the item's locations.
Entries(data) == UNION {{<<i, l>> : l \in Locations[data[i].hash.item]} : i \in DOMAIN data}

EntryOf(data, key) ==
  [felts |-> Felts(data[key[1]].hash), label |-> data[key[1]].label, at |-> CuckooIdx(key[2])]

TasksFor(data) ==
  [b \in BundleIdxs |->
     LET todo == {key \in Entries(data) : UnpackBundle(CuckooIdx(key[2])) = b}
     IN  IF todo = {} THEN NoTask ELSE [todo |-> todo, state |-> "queued"]]

(***************************************************************************)
(* The workers.  Bundles are tried from the last to the first.             *)
(***************************************************************************)
Holds(bb, e) ==
  HasRoom(e.felts, UnpackBin(e.at)) /\ IsPresent(bb, e.felts, UnpackBin(e.at))

Fits(bb, e) == DryRun(bb, e.felts, UnpackBin(e.at)) \in 1 .. MaxBinSize - 1

NewBundle(e) == InsertForReal(Clear(FALSE), e.felts, e.label, UnpackBin(e.at))

\* What a bundle set may be after an entry was written: {} if that throws.
Write(bundles, e, overwrite) ==
  LET usable == {i \in DOMAIN bundles :
                   (overwrite /\ Holds(bundles[i], e)) \/ Fits(bundles[i], e)}
      at == UnpackBin(e.at)
      written(bb) == IF overwrite /\ Holds(bb, e) THEN OverwriteLabels(bb, e.felts, e.label, at)
                     ELSE InsertForReal(bb, e.felts, e.label, at)
  IN  IF e.label = MovedFrom \/ (overwrite /\ usable = {}) THEN {}
      ELSE IF usable = {} THEN {Append(bundles, NewBundle(e))}
      ELSE {[bundles EXCEPT ![Max(usable)] = written(@)]}

\* The same for an entry that is removed, from the first bundle with it.  A
\* bundle left empty is dropped; no other is empty (see BundlesFit).
Without(bundles, i, bb) ==
  IF Empty(bb) THEN RemoveAt(bundles, i) ELSE [bundles EXCEPT ![i] = bb]

RemoveEntry(bundles, e) ==
  {Without(bundles, i, RemoveItem(bundles[i], e.felts, UnpackBin(e.at))) :
     i \in {j \in DOMAIN bundles : Holds(bundles[j], e) /\ \A k \in 1 .. j - 1 : ~Holds(bundles[k], e)}}

After(bundles, e, phase) ==
  IF phase = "remove" THEN RemoveEntry(bundles, e) ELSE Write(bundles, e, phase = "overwrite")

Active(b) == tasks[b].state \in {"queued", "running"}

\* The entries of a task are taken in the order of the batch.
Precedes(key, other) == key[1] < other[1] \/ (key[1] = other[1] /\ key[2] <= other[2])
NextKey(b) == CHOOSE key \in tasks[b].todo : \A other \in tasks[b].todo : Precedes(key, other)

NextBundles(b) ==
  UNION {After(bin_bundles[b], e, call.phases[1].phase) :
           e \in {EntryOf(call.phases[1].data, NextKey(b))}}

\* One entry of a task: insert_or_assign_worker or remove_worker.
Work(b) ==
  /\ Active(b)
  /\ \E bundles \in NextBundles(b) : bin_bundles' = [bin_bundles EXCEPT ![b] = bundles]
  /\ LET rest == tasks[b].todo \ {NextKey(b)}
     IN  tasks' = [tasks EXCEPT ![b] = [todo |-> rest,
                                        state |-> IF rest = {} THEN "done" ELSE "running"]]
  /\ UNCHANGED <<hashed_items, item_count, stripped, call, outcome, file, before>>

\* Mutant: the task goes on trying.
ThrowRetries(b) ==
  /\ Active(b)
  /\ NextBundles(b) = {}
  /\ UNCHANGED vars

Throw(b) ==
  /\ Active(b)
  /\ NextBundles(b) = {}
  /\ tasks' = [tasks EXCEPT ![b].state = "failed"]
  /\ UNCHANGED <<hashed_items, item_count, bin_bundles, stripped, call, outcome, file, before>>

\* remove's tasks refer to the vector of indices, which the unwinding frees:
\* a task that starts then reads something else and finds nothing to do.
LoseIndex(b) ==
  /\ call.stage = "unwinding"
  /\ call.phases[1].phase = "remove"
  /\ tasks[b].state = "queued"
  /\ tasks' = [tasks EXCEPT ![b].state = "done"]
  /\ UNCHANGED <<hashed_items, item_count, bin_bundles, stripped, call, outcome, file, before>>

(***************************************************************************)
(* What a query sees: the items whose parts are all in one cache, at any   *)
(* of their locations, with the labels it interpolates.                    *)
(***************************************************************************)
ServedBy(bb, x, l) ==
  LET cache == GetCache(bb)
      felts == Felts(DataHash(x))
      bin(k) == BinOf(UnpackBin(CuckooIdx(l)), k)
  IN  /\ cache # NoPolyns
      /\ \A k \in DOMAIN felts : Contains(cache.items[bin(k)], felts[k])

With(bundles, x, l) ==
  {bb \in Range(bundles[UnpackBundle(CuckooIdx(l))]) : ServedBy(bb, x, l)}

BundlesWith(x, l) ==
  LET bundles == bin_bundles[UnpackBundle(CuckooIdx(l))]
  IN  {i \in DOMAIN bundles : ServedBy(bundles[i], x, l)}

LabelsIn(cache, x, l) ==
  LET felts == Felts(DataHash(x))
      bin(k) == BinOf(UnpackBin(CuckooIdx(l)), k)
  IN  IF LabelSize = 0 THEN {NoLabel}
      ELSE {cache.labels[bin(k)][Min({j \in DOMAIN cache.items[bin(k)] :
              cache.items[bin(k)][j] = felts[k]})] : k \in DOMAIN felts}

LabelsServed(bundles, x) ==
  UNION {UNION {LabelsIn(GetCache(bb), x, l) : bb \in With(bundles, x, l)} : l \in Locations[x]}

ContentsOf(bundles) ==
  UNION {{[item |-> x, label |-> label] : label \in LabelsServed(bundles, x)} : x \in Item}

Contents == ContentsOf(bin_bundles)

(***************************************************************************)
(* The calls.                                                              *)
(***************************************************************************)
Legal(data, found) ==
  \/ MixedBatches
  \/ /\ IsInjective([i \in DOMAIN data |-> data[i].hash.item])
     /\ \A i, j \in DOMAIN data : i < j /\ found[i] => found[j]

\* The writer lock is taken, hashed_items_ is brought up to date.
Begin(request, items, phases) ==
  /\ hashed_items' = items
  /\ item_count' = item_count + Cardinality(items) - Cardinality(hashed_items)
  /\ call' = [op |-> request.op, stage |-> "running", request |-> {request}, phases |-> phases]
  /\ tasks' = IF call'.phases = <<>> THEN tasks ELSE TasksFor(call'.phases[1].data)
  /\ before' = Contents
  /\ UNCHANGED <<bin_bundles, stripped, outcome, file>>

\* Nothing is dispatched when there is nothing to do.
Phase(phase, data) ==
  IF DOMAIN data = {} THEN <<>> ELSE <<[phase |-> phase, data |-> data]>>

InsertOrAssign(batch) ==
  LET data == [i \in DOMAIN batch |->
                 [hash |-> DataHash(batch[i].item), label |-> batch[i].label]]
      found == [i \in DOMAIN data |->
                  \/ data[i].hash \in hashed_items
                  \/ \E j \in 1 .. i - 1 : data[j].hash = data[i].hash]
      isNew == [i \in DOMAIN data |-> ~found[i]]
      existing == IF LabelSize = 0 THEN <<>> ELSE Leftover(data, isNew)
  IN  /\ call.stage = "idle"
      /\ ~stripped
      /\ \A b \in BundleIdxs : Len(bin_bundles[b]) <= MaxBundles
      /\ Legal(data, found)
      /\ Begin([op |-> "insert", data |-> batch],
               hashed_items \cup {data[i].hash : i \in DOMAIN data},
               Phase("overwrite", existing) \o Phase("insert", Kept(data, isNew)))

\* remove does not erase what remove_if leaves behind the existing items.
RemoveItems(batch) ==
  LET data == [i \in DOMAIN batch |-> [hash |-> PlainHash(batch[i]), label |-> NoLabel]]
      found == [i \in DOMAIN data |->
                  /\ data[i].hash \in hashed_items
                  /\ ~\E j \in 1 .. i - 1 : data[j].hash = data[i].hash]
  IN  /\ call.stage = "idle"
      /\ ~stripped
      /\ RemoveAbsent \/ \A i \in DOMAIN data : found[i]
      /\ Begin([op |-> "remove", data |-> batch],
               hashed_items \ {data[i].hash : i \in DOMAIN data},
               Phase("remove", Unerased(data, found)))

\* f.get() for the tasks of a dispatch, in the order of the bundle indices.
Rethrow ==
  /\ call.stage = "running"
  /\ \E b \in BundleIdxs :
       /\ tasks[b].state = "failed"
       /\ \A c \in 0 .. b - 1 : tasks[c].state \in {"none", "done"}
  /\ call' = [call EXCEPT !.stage = "unwinding"]
  /\ UNCHANGED <<hashed_items, item_count, bin_bundles, stripped, tasks, outcome, file, before>>

TasksDone == \A b \in BundleIdxs : tasks[b].state \in {"none", "done"}

NextPhase ==
  /\ call.stage = "running"
  /\ Len(call.phases) > 1
  /\ TasksDone
  /\ call' = [call EXCEPT !.phases = Tail(@)]
  /\ tasks' = TasksFor(call.phases[2].data)
  /\ UNCHANGED <<hashed_items, item_count, bin_bundles, stripped, outcome, file, before>>

\* Mutant: only the last bundle of each index is looked at, the one that grows.
GenerateLastCaches(bundles) ==
  [b \in BundleIdxs |-> [i \in DOMAIN bundles[b] |->
     IF i = Len(bundles[b]) THEN RegenCache(bundles[b][i]) ELSE bundles[b][i]]]

GenerateCaches(bundles) ==
  [b \in BundleIdxs |-> [i \in DOMAIN bundles[b] |-> RegenCache(bundles[b][i])]]

Finish(result) ==
  /\ call' = Idle
  /\ tasks' = [b \in BundleIdxs |-> NoTask]
  /\ outcome' = result
  /\ before' = {}
  /\ UNCHANGED <<hashed_items, item_count, stripped, file>>

Return ==
  /\ call.stage = "running"
  /\ Len(call.phases) <= 1
  /\ TasksDone
  /\ bin_bundles' = GenerateCaches(bin_bundles)
  /\ Finish("ok")

\* The last ThreadPoolMgr, on its way out, waits for the tasks.
Unwound ==
  /\ call.stage = "unwinding"
  /\ \A b \in BundleIdxs : tasks[b].state \in {"none", "done", "failed"}
  /\ UNCHANGED bin_bundles
  /\ Finish("exception")

StripDb ==
  /\ call.stage = "idle"
  /\ stripped' = TRUE
  /\ hashed_items' = {}
  /\ bin_bundles' = [b \in BundleIdxs |-> [i \in DOMAIN bin_bundles[b] |-> Strip(bin_bundles[b][i])]]
  /\ outcome' = "ok"
  /\ UNCHANGED <<item_count, call, tasks, file, before>>

\* Mutant: the bundles stay.
ClearItemsOnly ==
  /\ call.stage = "idle"
  /\ hashed_items' = {}
  /\ item_count' = 0
  /\ stripped' = FALSE
  /\ outcome' = "ok"
  /\ UNCHANGED <<bin_bundles, call, tasks, file, before>>

ClearInternal ==
  /\ call.stage = "idle"
  /\ hashed_items' = {}
  /\ item_count' = 0
  /\ bin_bundles' = [b \in BundleIdxs |-> <<>>]
  /\ stripped' = FALSE
  /\ outcome' = "ok"
  /\ UNCHANGED <<call, tasks, file, before>>

SaveDb ==
  /\ call.stage = "idle"
  /\ file' = {[hashed_items |-> hashed_items, item_count |-> item_count, stripped |-> stripped,
               bundles |-> [b \in BundleIdxs |->
                              [i \in DOMAIN bin_bundles[b] |-> Save(bin_bundles[b][i])]]]}
  /\ UNCHANGED <<hashed_items, item_count, bin_bundles, stripped, call, tasks, outcome, before>>

FileAccepted(db) ==
  /\ ~db.stripped => db.item_count = Cardinality(db.hashed_items)
  /\ \A b \in BundleIdxs : \A i \in DOMAIN db.bundles[b] : LoadAccepts(db.bundles[b][i])

Orders(bundles) == Bijection(DOMAIN bundles, DOMAIN bundles)

\* The tasks add the bundles of an index in any order; the caches that are
\* not valid are generated at the end.  The database loaded replaces this one.
LoadDb ==
  /\ call.stage = "idle"
  /\ \E db \in file :
       IF FileAccepted(db)
       THEN /\ hashed_items' = IF db.stripped THEN {} ELSE db.hashed_items
            /\ item_count' = db.item_count
            /\ stripped' = db.stripped
            /\ \E order \in {f \in [BundleIdxs -> UNION {Orders(db.bundles[b]) : b \in BundleIdxs}] :
                               \A b \in BundleIdxs : f[b] \in Orders(db.bundles[b])} :
                 bin_bundles' = GenerateCaches([b \in BundleIdxs |->
                   [i \in DOMAIN db.bundles[b] |-> Load(db.bundles[b][order[b][i]])]])
            /\ outcome' = "ok"
            /\ UNCHANGED <<call, tasks, file, before>>
       ELSE /\ outcome' = "exception"
            /\ UNCHANGED <<hashed_items, item_count, bin_bundles, stripped, call, tasks, file, before>>

Next ==
  \/ \E batch \in InsertBatches : InsertOrAssign(batch)
  \/ \E batch \in RemoveBatches : RemoveItems(batch)
  \/ \E b \in BundleIdxs : Work(b) \/ Throw(b) \/ LoseIndex(b)
  \/ Rethrow \/ NextPhase \/ Return \/ Unwound
  \/ StripDb \/ ClearInternal \/ SaveDb \/ LoadDb

\* The pool runs its tasks, the caller's thread goes on.
Progress ==
  \/ \E b \in BundleIdxs : Work(b) \/ Throw(b)
  \/ Rethrow \/ NextPhase \/ Return \/ Unwound

Spec == Init /\ [][Next]_vars /\ WF_vars(Progress)

(***************************************************************************)
(* Properties.                                                             *)
(***************************************************************************)
Holding(x, l) ==
  LET bundles == bin_bundles[UnpackBundle(CuckooIdx(l))]
      e == [felts |-> Felts(DataHash(x)), at |-> CuckooIdx(l)]
  IN  {i \in DOMAIN bundles : Holds(bundles[i], e)}

\* get_label reads one of the locations, the first bundle there with the item.
GetLabel(x, l) ==
  LET bundles == bin_bundles[UnpackBundle(CuckooIdx(l))]
  IN  UNION {Range(GetMultiLabel(bundles[i], Felts(DataHash(x)), UnpackBin(CuckooIdx(l)))) :
               i \in {j \in Holding(x, l) : j = Min(Holding(x, l))}}

HasItem(x) == PlainHash(x) \in hashed_items

Bundle == {bb \in UNION {Range(bin_bundles[b]) : b \in BundleIdxs} : TRUE}

TypeOK ==
  /\ hashed_items \subseteq {DataHash(x) : x \in Item}
  /\ item_count \in 0 .. Cardinality(Item)
  /\ DOMAIN bin_bundles = BundleIdxs
  /\ \A bb \in Bundle : DOMAIN bb.item_bins = IF stripped THEN {} ELSE Bins
  /\ call.stage \in {"idle", "running", "unwinding"}
  /\ DOMAIN tasks = BundleIdxs

AtRest == call.stage = "idle" /\ outcome = "ok"

\* No call throws.
NothingThrown == outcome = "ok"

\* Between calls every cache is valid and is that of the bins: the database
\* can be queried (get_cache), and the answer is not that of an earlier state.
CachesFresh ==
  AtRest => \A bb \in Bundle :
    /\ ~bb.cache_invalid
    /\ ~bb.stripped => bb.batched_polyns = [items |-> bb.item_bins, labels |-> bb.label_bins]

\* An item of the database is in exactly one bundle at each of its locations
\* (twice, and its part of the result would be right in two rows), others in
\* none; the count is that of the items served.
OncePerLocation ==
  AtRest =>
    /\ \A x \in Item : \A l, m \in Locations[x] :
         /\ Cardinality(BundlesWith(x, l)) <= 1
         /\ Cardinality(BundlesWith(x, l)) = Cardinality(BundlesWith(x, m))
         /\ ~stripped => (BundlesWith(x, l) # {} <=> DataHash(x) \in hashed_items)
    /\ item_count = Cardinality({x \in Item : \E l \in Locations[x] : BundlesWith(x, l) # {}})

\* Bins stay below max_items_per_bin, so that a query's powers suffice, and no
\* bundle is left without items.
BundlesFit ==
  \A bb \in Bundle : ~bb.stripped =>
    /\ \A i \in Bins : Len(bb.item_bins[i]) < MaxBinSize
    /\ ~Empty(bb)

\* What was saved can be loaded.
SavedLoads == \A db \in file : FileAccepted(db)

\* get_label finds the label that a query is given, at each location.
LabelsAgree ==
  AtRest /\ LabelSize # 0 /\ ~stripped =>
    \A x \in Item : \A l \in Locations[x] :
      GetLabel(x, l) = {e.label : e \in {f \in Contents : f.item = x}}

\* has_item knows the items that were inserted.
KnowsItems == AtRest /\ ~stripped => \A x \in Item : HasItem(x) <=> \E e \in Contents : e.item = x

\* The database implements the map DbSpec: what queries see changes at the
\* return of a call, in one step, to what was asked for.
Seen == IF call.stage = "idle" THEN Contents ELSE before
Saved == {[contents |-> ContentsOf(db.bundles), stripped |-> db.stripped] : db \in file}

Db == INSTANCE DbSpec WITH contents <- Seen, saved <- Saved, request <- call.request

ImplementsDb == Db!Spec

\* Every call ends, also one that throws.
CallsEnd == call.stage # "idle" ~> call.stage = "idle"

\* "If an item already exists in the database, its label is overwritten with
\* the new label": get_label finds it when the call has returned.
LabelOverwritten ==
  [][Return /\ call.op = "insert" =>
       \A r \in call.request : \A e \in Db!Assigned({}, r.data) : \A l \in Locations[e.item] :
         GetLabel(e.item, l)' = {e.label}]_vars

\* Also when calls have thrown: an item that has_item finds is in a bundle at
\* each of its locations.
HashedAreHeld ==
  call.stage = "idle" /\ ~stripped =>
    \A x \in Item : DataHash(x) \in hashed_items => \A l \in Locations[x] : Holding(x, l) # {}

=============================================================================
