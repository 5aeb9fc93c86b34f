--------------------------- MODULE ServedDbProofs ---------------------------
(***************************************************************************)
(* What a query finds in an unlabeled database that is used as it should   *)
(* be: only items are removed that it has, and a bin has room for an item. *)
(*                                                                         *)
(* The caches are those of the bins (Ready), between calls they serve the  *)
(* items of the set and no others (Serves), also once they were stripped,  *)
(* saved or loaded (Counted), and no task throws.  To those who query it a *)
(* call takes effect in one step (Asked), as DbSpec says.                  *)
(***************************************************************************)
EXTENDS ReceiverDBProofs

-----------------------------------------------------------------------------
(* Bundles between calls.                                                  *)

\* No absent item is removed, and a bin holds more than one element.
Proper == Once /\ MaxBinSize > 1

\* A bundle without labels, whose cache can be written to a file if it is valid.
Plain(bb) ==
  /\ bb.label_bins = <<>>
  /\ ~bb.cache_invalid => bb.felt_polyns = bb.batched_polyns

\* A bundle between calls: its cache is valid and a file with it is accepted.
Ready(bb) ==
  /\ DOMAIN bb = Fields
  /\ bb.cache_invalid = FALSE
  /\ CoeffCount(bb.batched_polyns) <= MaxBinSize
  /\ bb.stripped \in BOOLEAN
  /\ IF bb.stripped THEN bb.item_bins = <<>> /\ bb.felt_polyns = NoPolyns
     ELSE Plain(bb) /\ OneRight(bb, Once)

\* All the bundles of an index, and of the database.
EachPlain(bundles) == \A i \in DOMAIN bundles : Plain(bundles[i])
AllPlain(bundles) == \A b \in BundleIdxs : EachPlain(bundles[b])
AllReady(bundles) == \A b \in BundleIdxs : \A i \in DOMAIN bundles[b] : Ready(bundles[b][i])

\* Changing the labels of a bundle without labels changes nothing.
LEMMA NothingToUpdate ==
  ASSUME NEW f(_, _), NEW felts, NEW s
  PROVE  UpdateBins(<<>>, felts, s, f) = <<>>
  BY DEF UpdateBins

\* An insertion and a removal leave a bundle without labels.
LEMMA PlainStays ==
  ASSUME NEW bb, DOMAIN bb = Fields, Plain(bb), NEW felts, NEW label, NEW s
  PROVE  Plain(InsertForReal(bb, felts, label, s)) /\ Plain(RemoveItem(bb, felts, s))
  <1>1. bb.label_bins = <<>> BY DEF Plain
  <1>2. InsertForReal(bb, felts, label, s).label_bins = <<>> /\ InsertForReal(bb, felts, label, s).cache_invalid = TRUE
    BY <1>1, NothingToUpdate DEF InsertForReal, Fields
  <1>3. RemoveItem(bb, felts, s).label_bins = <<>> /\ RemoveItem(bb, felts, s).cache_invalid = TRUE
    BY <1>1, NothingToUpdate DEF RemoveItem, Fields
  <1> QED BY <1>2, <1>3 DEF Plain

\* A new bundle has none.
LEMMA PlainNew ==
  ASSUME LabelSize = 0, NEW e
  PROVE  Plain(NewBundle(e))
  <1>1. PICK bb : bb = Clear(FALSE) OBVIOUS
  <1>2. DOMAIN bb = Fields /\ bb.label_bins = <<>> /\ bb.cache_invalid = TRUE
    BY <1>1 DEF Clear, ClearCache, Fields
  <1>3. Plain(bb) BY <1>2 DEF Plain
  <1>4. Plain(InsertForReal(bb, e.felts, e.label, UnpackBin(e.at))) BY ONLY <1>2, <1>3, PlainStays
  <1> QED BY <1>1, <1>4 DEF NewBundle

\* A change of one bundle, a bundle more and a bundle less leave the others.
LEMMA PlainReplaced ==
  ASSUME NEW bundles, EachPlain(bundles), NEW m, NEW bb, Plain(bb),
         NEW then, then = [bundles EXCEPT ![m] = bb]
  PROVE  EachPlain(then)
  <1>1. DOMAIN then = DOMAIN bundles OBVIOUS
  <1>2. \A i \in DOMAIN bundles : then[i] = bundles[i] \/ then[i] = bb OBVIOUS
  <1> QED BY <1>1, <1>2 DEF EachPlain

\* So is a list with one more of them.
LEMMA PlainAppended ==
  ASSUME NEW bundles, IsSeq(bundles), EachPlain(bundles), NEW bb, Plain(bb)
  PROVE  EachPlain(Append(bundles, bb))
  <1> DEFINE n == Len(bundles)
             all == Range(bundles) \cup {bb}
  <1>1. n \in Nat /\ DOMAIN bundles = 1 .. n /\ \A i \in 1 .. n : bundles[i] \in Range(bundles) BY SeqFacts
  <1>2. bundles \in Seq(Range(bundles)) BY DEF IsSeq
  <1>3. bundles \in Seq(all) /\ bb \in all BY <1>2
  <1>4. /\ DOMAIN Append(bundles, bb) = 1 .. n + 1
        /\ \A i \in 1 .. n : Append(bundles, bb)[i] = bundles[i]
        /\ Append(bundles, bb)[n + 1] = bb
    BY <1>3, AppendProperties
  <1>5. ASSUME NEW i \in 1 .. n + 1 PROVE Plain(Append(bundles, bb)[i])
    <2>1. i \in 1 .. n \/ i = n + 1 BY <1>1
    <2> QED BY <1>1, <1>4, <2>1 DEF EachPlain
  <1> QED BY <1>4, <1>5 DEF EachPlain

\* So is a list with one less.
LEMMA PlainDropped ==
  ASSUME NEW bundles, IsSeq(bundles), EachPlain(bundles), NEW m \in DOMAIN bundles
  PROVE  EachPlain(RemoveAt(bundles, m))
  <1> DEFINE n == Len(bundles)
             then == RemoveAt(bundles, m)
  <1>1. n \in Nat /\ DOMAIN bundles = 1 .. n BY SeqFacts
  <1>2. bundles \in Seq(Range(bundles)) /\ m \in 1 .. n BY <1>1 DEF IsSeq
  <1>3. /\ then \in Seq(Range(bundles)) /\ Len(then) = n - 1
        /\ \A i \in 1 .. n - 1 : then[i] = IF i < m THEN bundles[i] ELSE bundles[i + 1]
    BY <1>2, RemoveAtProperties
  <1>4. DOMAIN then = 1 .. n - 1 BY <1>1, <1>3, LenProperties
  <1>5. ASSUME NEW i \in 1 .. n - 1 PROVE Plain(then[i])
    <2>1. i \in 1 .. n /\ i + 1 \in 1 .. n BY <1>1
    <2> QED BY <1>1, <1>3, <2>1 DEF EachPlain
  <1> QED BY <1>4, <1>5 DEF EachPlain

\* What a task does with an entry leaves its bundles without labels.
LEMMA AfterPlain ==
  ASSUME LabelSize = 0, NEW once, NEW bundles, SetRight(bundles, once), EachPlain(bundles),
         NEW work \in {"insert", "remove"}, NEW e, NEW then \in After(bundles, e, work)
  PROVE  EachPlain(then)
  <1>0. IsSeq(bundles) BY DEF SetRight
  <1>1. \A i \in DOMAIN bundles : DOMAIN bundles[i] = Fields /\ Plain(bundles[i])
    BY DEF SetRight, OneRight, BundleRight, Shaped, EachPlain
  <1>2. CASE work = "insert"
    <2>1. then \in Write(bundles, e, FALSE) BY <1>2 DEF After
    <2> DEFINE usable == {i \in DOMAIN bundles : Fits(bundles[i], e)}
               m == Max(usable)
               now == InsertForReal(bundles[m], e.felts, e.label, UnpackBin(e.at))
    <2>2. then = IF usable = {} THEN Append(bundles, NewBundle(e)) ELSE [bundles EXCEPT ![m] = now]
      BY <2>1 DEF Write
    <2> HIDE DEF m
    <2>3. CASE usable = {}
      <3>1. Plain(NewBundle(e)) BY PlainNew
      <3> QED BY <1>0, <2>2, <2>3, <3>1, PlainAppended
    <2>4. CASE usable # {} /\ m \in DOMAIN bundles
      <3>1. Plain(now) BY <1>1, <2>4, PlainStays
      <3>2. then = [bundles EXCEPT ![m] = now] BY <2>2, <2>4
      <3> HIDE DEF now
      <3> QED BY <3>1, <3>2, PlainReplaced
    <2>5. CASE usable # {} /\ m \notin DOMAIN bundles
      <3>1. then = [bundles EXCEPT ![m] = now] BY <2>2, <2>5
      <3> HIDE DEF now
      <3>2. DOMAIN then = DOMAIN bundles /\ \A i \in DOMAIN bundles : then[i] = bundles[i] BY <2>5, <3>1
      <3> QED BY <3>2 DEF EachPlain
    <2> QED BY <2>3, <2>4, <2>5
  <1>3. CASE work = "remove"
    <2>1. then \in RemoveEntry(bundles, e) BY <1>3 DEF After
    <2>2. PICK m \in DOMAIN bundles :
            then = Without(bundles, m, RemoveItem(bundles[m], e.felts, UnpackBin(e.at)))
      BY <2>1 DEF RemoveEntry
    <2>3. PICK now : now = RemoveItem(bundles[m], e.felts, UnpackBin(e.at)) OBVIOUS
    <2>4. Plain(now) BY <1>1, <2>3, PlainStays
    <2>5. then = IF Empty(now) THEN RemoveAt(bundles, m) ELSE [bundles EXCEPT ![m] = now]
      BY <2>2, <2>3 DEF Without
    <2>6. CASE Empty(now) BY <1>0, <2>5, <2>6, PlainDropped
    <2>7. CASE ~Empty(now)
      <3>1. then = [bundles EXCEPT ![m] = now] BY <2>5, <2>7
      <3> QED BY <2>4, <3>1, PlainReplaced
    <2> QED BY <2>6, <2>7
  <1> QED BY <1>2, <1>3

\* The greatest number of a set is one of the set.
LEMMA MaxIs ==
  ASSUME NEW m \in Nat, NEW S, S \subseteq 0 .. m, S # {}
  PROVE  Max(S) \in S
  <1>1. \E x \in S : \A y \in S : y <= x BY Greatest
  <1>2. \E x \in S : \A y \in S : x >= y BY <1>1
  <1> QED BY <1>2 DEF Max

\* The polynomials of bins that stay below their limit.
LEMMA CoeffsBounded ==
  ASSUME NEW bb, Shaped(bb), \A i \in Bins : Len(bb.item_bins[i]) < MaxBinSize,
         NEW labels, NEW polyns, polyns = [items |-> bb.item_bins, labels |-> labels]
  PROVE  CoeffCount(polyns) <= MaxBinSize
  <1> DEFINE S == {Len(bb.item_bins[i]) + 1 : i \in Bins}
  <1>1. MaxBinSize \in Nat BY ReceiverDBConfigured DEF BinBundleAssumption
  <1>2. \A i \in Bins : Len(bb.item_bins[i]) \in Nat BY LenProperties DEF Shaped
  <1>3. S \subseteq 0 .. MaxBinSize
    <2>1. \A i \in Bins : Len(bb.item_bins[i]) + 1 \in 0 .. MaxBinSize BY <1>1, <1>2
    <2> QED BY <2>1
  <1>4. polyns.items = bb.item_bins /\ DOMAIN bb.item_bins = Bins BY DEF Shaped
  <1>5. CASE polyns.items = <<>> BY <1>1, <1>5 DEF CoeffCount
  <1>6. CASE polyns.items # <<>> /\ S # {}
    <2>1. Max(S) \in 0 .. MaxBinSize BY <1>1, <1>3, <1>6, MaxIs
    <2>2. CoeffCount(polyns) = Max(S) BY <1>4, <1>6 DEF CoeffCount
    <2> QED BY <1>1, <2>1, <2>2
  <1>7. CASE S = {}
    <2>1. Bins = {} BY <1>7
    <2> QED BY <2>1, ReceiverDBConfigured DEF BinBundleAssumption, Bins
  <1> QED BY <1>5, <1>6, <1>7

\* At the end of a call the bundles are ready.
LEMMA RegenReady ==
  ASSUME Proper, NEW bb, OneRight(bb, Once), Plain(bb), NEW then, then = RegenCache(bb)
  PROVE  Ready(then) /\ then.stripped = FALSE
  <1>0. Once \in BOOLEAN /\ MaxBinSize > 1 BY DEF Once, Proper
  <1>1. OneRight(then, Once) /\ then.cache_invalid = FALSE BY <1>0, RegenRight
  <1>2. Shaped(then) /\ Sized(then) /\ Cached(then) BY <1>1 DEF OneRight, BundleRight
  <1>3. then.batched_polyns = [items |-> then.item_bins, labels |-> then.label_bins]
    BY <1>1, <1>2 DEF Cached
  <1>4. CoeffCount(then.batched_polyns) <= MaxBinSize
    <2>1. \A i \in Bins : Len(then.item_bins[i]) < MaxBinSize BY <1>0, <1>2 DEF Sized
    <2>2. PICK polyns : polyns = then.batched_polyns OBVIOUS
    <2>3. PICK labels : labels = then.label_bins OBVIOUS
    <2>4. polyns = [items |-> then.item_bins, labels |-> labels] BY <1>3, <2>2, <2>3
    <2>5. CoeffCount(polyns) <= MaxBinSize BY ONLY <1>2, <2>1, <2>4, CoeffsBounded
    <2> QED BY <2>2, <2>5
  <1>5. Plain(then)
    <2>1. DOMAIN bb = Fields BY DEF OneRight, BundleRight, Shaped
    <2>2. CASE bb.cache_invalid
      BY <2>1, <2>2 DEF Plain, RegenCache, RegenPlaintexts, RegenPolyns, ClearCache, Fields
    <2>3. CASE ~bb.cache_invalid BY <2>3 DEF RegenCache
    <2> QED BY <2>2, <2>3
  <1>6. DOMAIN then = Fields /\ then.stripped = FALSE BY <1>2 DEF Shaped
  <1> QED BY <1>1, <1>4, <1>5, <1>6 DEF Ready

\* strip leaves the cache.
LEMMA StripReady ==
  ASSUME NEW bb, Ready(bb), NEW then, then = Strip(bb)
  PROVE  Ready(then) /\ then.stripped = TRUE /\ then.batched_polyns = bb.batched_polyns
  <1>1. DOMAIN bb = Fields /\ bb.cache_invalid = FALSE /\ CoeffCount(bb.batched_polyns) <= MaxBinSize
    BY DEF Ready
  <1>2. RegenCache(bb) = bb BY <1>1 DEF RegenCache
  <1>3. then = [bb EXCEPT !.stripped = TRUE, !.item_bins = <<>>, !.label_bins = <<>>, !.felt_polyns = NoPolyns]
    BY <1>2 DEF Strip
  <1>4. /\ DOMAIN then = Fields /\ then.stripped = TRUE /\ then.item_bins = <<>> /\ then.felt_polyns = NoPolyns
        /\ then.cache_invalid = FALSE /\ then.batched_polyns = bb.batched_polyns
    BY <1>1, <1>3 DEF Fields
  <1> QED BY <1>1, <1>4 DEF Ready

\* A bundle between calls can be saved, and what is loaded is the same again.
LEMMA SaveReady ==
  ASSUME Proper, NEW bb, Ready(bb), NEW saved, saved = Save(bb), NEW then, then = Load(saved)
  PROVE  /\ LoadAccepts(saved)
         /\ Ready(then) /\ then.stripped = bb.stripped /\ then.batched_polyns = bb.batched_polyns
         /\ saved.batched_polyns = bb.batched_polyns
         /\ RegenCache(then) = then
  <1>0. LabelSize = 0 /\ MaxBinSize > 1 /\ MaxBinSize \in Nat /\ Once
    BY ReceiverDBConfigured DEF Proper, Once, BinBundleAssumption
  <1>1. /\ DOMAIN bb = Fields /\ bb.cache_invalid = FALSE /\ bb.stripped \in BOOLEAN
        /\ CoeffCount(bb.batched_polyns) <= MaxBinSize
    BY DEF Ready
  <1>2. /\ saved.stripped = bb.stripped /\ saved.item_bins = bb.item_bins /\ saved.label_bins = bb.label_bins
        /\ saved.has_cache = TRUE /\ saved.felt_polyns = bb.felt_polyns
        /\ saved.batched_polyns = bb.batched_polyns
    BY <1>1 DEF Save
  <1>3. /\ DOMAIN then = Fields /\ then.stripped = bb.stripped /\ then.item_bins = bb.item_bins
        /\ then.label_bins = bb.label_bins /\ then.cache_invalid = FALSE
        /\ then.felt_polyns = bb.felt_polyns /\ then.batched_polyns = bb.batched_polyns
    BY <1>2 DEF Load, Fields
  <1>4. CASE bb.stripped
    <2>1. bb.felt_polyns = NoPolyns /\ bb.item_bins = <<>> BY <1>4 DEF Ready
    <2>2. CoeffCount(NoPolyns) = 0 BY DEF CoeffCount, NoPolyns
    <2>3. LoadAccepts(saved)
      <3>1. BinsFit(saved) /\ LabelsFit(saved) /\ InterpPolynsFit(saved)
        BY <1>2, <1>4 DEF BinsFit, LabelsFit, InterpPolynsFit
      <3>2. PolynsFit(saved) BY <1>0, <1>1, <1>2, <1>4, <2>1, <2>2 DEF PolynsFit
      <3> QED BY <1>2, <3>1, <3>2 DEF LoadAccepts
    <2>4. Ready(then) BY <1>1, <1>3, <1>4, <2>1 DEF Ready
    <2> QED BY <1>2, <1>3, <2>3, <2>4 DEF RegenCache
  <1>5. CASE ~bb.stripped
    <2>1. Plain(bb) /\ OneRight(bb, Once) BY <1>5 DEF Ready
    <2>2. bb.label_bins = <<>> /\ bb.felt_polyns = bb.batched_polyns BY <1>1, <2>1 DEF Plain
    <2>3. Shaped(bb) /\ Sized(bb) /\ Cached(bb) BY <2>1 DEF OneRight, BundleRight
    <2>4. bb.batched_polyns.items = bb.item_bins BY <1>1, <2>3 DEF Cached
    <2>5. DOMAIN bb.item_bins = Bins /\ \A i \in Bins : Len(bb.item_bins[i]) \in Nat
      BY <2>3, LenProperties DEF Shaped
    <2>6. \A i \in Bins : Len(bb.item_bins[i]) <= MaxBinSize BY <1>0, <2>3, <2>5 DEF Sized
    <2>7. LoadAccepts(saved)
      <3>1. BinsFit(saved) BY <1>0, <1>2, <2>5, <2>6 DEF BinsFit
      <3>2. LabelsFit(saved) BY <1>0, <1>2, <2>2 DEF LabelsFit
      <3>3. PolynsFit(saved)
        <4>1. CoeffCount(saved.felt_polyns) <= MaxBinSize BY <1>1, <1>2, <2>2
        <4>2. CoeffCount(saved.batched_polyns) = CoeffCount(saved.felt_polyns) BY <1>2, <2>2
        <4>3. DOMAIN saved.felt_polyns.items = Bins BY <1>2, <2>2, <2>4, <2>5
        <4> QED BY <1>2, <1>5, <4>1, <4>2, <4>3 DEF PolynsFit
      <3>4. InterpPolynsFit(saved) BY <1>0 DEF InterpPolynsFit
      <3> QED BY <1>2, <1>5, <3>1, <3>2, <3>3, <3>4 DEF LoadAccepts
    <2>8. Plain(then) BY <1>3, <2>2 DEF Plain
    <2>9. OneRight(then, Once) BY <1>0, <2>1, LoadRight
    <2>10. Ready(then) BY <1>1, <1>3, <1>5, <2>8, <2>9 DEF Ready
    <2> QED BY <1>2, <1>3, <2>7, <2>10 DEF RegenCache
  <1> QED BY <1>1, <1>4, <1>5

-----------------------------------------------------------------------------
(* The items that the bundles answer for.                                  *)

\* What a query finds: these items at each of their locations, and in one
\* bundle only.
Serves(bundles, S) ==
  /\ S \subseteq Item
  /\ \A x \in Item : \A l \in Locations[x] :
       /\ (\E i \in DOMAIN bundles[Index(l)] : ServedBy(bundles[Index(l)][i], x, l)) <=> x \in S
       /\ \A i, j \in DOMAIN bundles[Index(l)] :
            ServedBy(bundles[Index(l)][i], x, l) /\ ServedBy(bundles[Index(l)][j], x, l) => i = j

\* The items of a set of hashes.
ItemsOf(items) == {x \in Item : DataHash(x) \in items}

\* A query looks at the cache only.
LEMMA ServedByCache ==
  ASSUME NEW bb, NEW then, then.batched_polyns = bb.batched_polyns, NEW x, NEW l
  PROVE  ServedBy(then, x, l) <=> ServedBy(bb, x, l)
  BY DEF ServedBy, GetCache

\* A bundle with a valid cache serves the items it has.
LEMMA ServedIsHas ==
  ASSUME NEW once, NEW bb, OneRight(bb, once), bb.cache_invalid = FALSE,
         NEW x \in Item, NEW l \in Locations[x]
  PROVE  ServedBy(bb, x, l) <=> Has(bb, DataHash(x), Start(l))
  <1>1. PICK h : h = DataHash(x) OBVIOUS
  <1>2. h \in AnyHash BY <1>1, HashesAre
  <1>3. DOMAIN Felts(h) = 1 .. FeltsPerItem BY <1>2, FeltsAre
  <1>4. bb.batched_polyns = [items |-> bb.item_bins, labels |-> bb.label_bins] BY DEF OneRight, Cached
  <1>5. bb.batched_polyns.items = bb.item_bins BY <1>4
  <1>6. bb.batched_polyns # NoPolyns
    <2>1. DOMAIN bb.item_bins = Bins BY DEF OneRight, BundleRight, Shaped
    <2>2. 0 \in Bins BY Sizes DEF Bins
    <2>3. DOMAIN bb.item_bins # {} BY <2>1, <2>2
    <2>4. NoPolyns.items = <<>> BY DEF NoPolyns
    <2>5. DOMAIN <<>> = {} OBVIOUS
    <2> QED BY <1>5, <2>3, <2>4, <2>5
  <1>7. ServedBy(bb, x, l) <=>
          \A k \in 1 .. FeltsPerItem : Contains(bb.item_bins[BinOf(Start(l), k)], Felts(h)[k])
    BY <1>1, <1>3, <1>5, <1>6 DEF ServedBy, GetCache, Start
  <1> QED BY <1>1, <1>7 DEF Has

\* A database between calls serves the items of its set.
LEMMA SettledServes ==
  ASSUME Once, NEW bundles, AllRight(bundles), AllReady(bundles),
         NEW items, ItemsRight(items, bundles)
  PROVE  Serves(bundles, ItemsOf(items))
  <1>1. ASSUME NEW x \in Item, NEW l \in Locations[x]
        PROVE  /\ (\E i \in DOMAIN bundles[Index(l)] : ServedBy(bundles[Index(l)][i], x, l))
                     <=> x \in ItemsOf(items)
               /\ \A i, j \in DOMAIN bundles[Index(l)] :
                    ServedBy(bundles[Index(l)][i], x, l) /\ ServedBy(bundles[Index(l)][j], x, l) => i = j
    <2>1. PICK h : h = DataHash(x) OBVIOUS
    <2>2. h \in AnyHash /\ h.item = x BY <2>1, HashesAre
    <2>3. Index(l) \in BundleIdxs /\ Start(l) \in Starts BY <2>2, Places
    <2>4. PICK set : set = bundles[Index(l)] OBVIOUS
    <2>5. SetRight(set, Once) /\ \A i \in DOMAIN set : Ready(set[i]) BY <2>3, <2>4 DEF AllRight, AllReady
    <2>6. ASSUME NEW i \in DOMAIN set PROVE ServedBy(set[i], x, l) <=> Has(set[i], h, Start(l))
      <3>1. PICK bb : bb = set[i] OBVIOUS
      <3>2. OneRight(bb, Once) BY <2>5, <3>1 DEF SetRight
      <3>3. bb.cache_invalid = FALSE BY <2>5, <3>1 DEF Ready
      <3>4. ServedBy(bb, x, l) <=> Has(bb, DataHash(x), Start(l)) BY ONLY <1>1, <3>2, <3>3, ServedIsHas
      <3> QED BY <2>1, <3>1, <3>4
    <2>7. HeldIn(bundles, h, l) <=> h \in items BY <2>2, <1>1 DEF ItemsRight, Ordered, Once
    <2>8. HeldIn(bundles, h, l) <=> \E i \in DOMAIN set : Has(set[i], h, Start(l))
      BY <2>4 DEF HeldIn, HeldAt
    <2>9. \A i, j \in DOMAIN set : Has(set[i], h, Start(l)) /\ Has(set[j], h, Start(l)) => i = j
      BY <2>2, <2>3, <2>5 DEF SetRight
    <2>10. x \in ItemsOf(items) <=> h \in items BY <2>1 DEF ItemsOf
    <2> QED BY ONLY <2>4, <2>6, <2>7, <2>8, <2>9, <2>10
  <1>2. ItemsOf(items) \subseteq Item BY DEF ItemsOf
  <1> QED BY ONLY <1>1, <1>2 DEF Serves

\* Two databases with the same caches, in some order.
SameCaches(then, bundles) ==
  \A b \in BundleIdxs : \E from \in Bijection(DOMAIN then[b], DOMAIN bundles[b]) :
    \A i \in DOMAIN then[b] : then[b][i].batched_polyns = bundles[b][from[i]].batched_polyns

\* They serve the same items.
LEMMA SameServes ==
  ASSUME NEW bundles, NEW then, SameCaches(then, bundles), NEW S, Serves(bundles, S)
  PROVE  Serves(then, S)
  <1>1. ASSUME NEW x \in Item, NEW l \in Locations[x]
        PROVE  /\ (\E i \in DOMAIN then[Index(l)] : ServedBy(then[Index(l)][i], x, l)) <=> x \in S
               /\ \A i, j \in DOMAIN then[Index(l)] :
                    ServedBy(then[Index(l)][i], x, l) /\ ServedBy(then[Index(l)][j], x, l) => i = j
    <2>1. Index(l) \in BundleIdxs BY AtAStart DEF Index
    <2>2. PICK old : old = bundles[Index(l)] OBVIOUS
    <2>3. PICK new : new = then[Index(l)] OBVIOUS
    <2>4. PICK from \in Bijection(DOMAIN new, DOMAIN old) :
            \A i \in DOMAIN new : new[i].batched_polyns = old[from[i]].batched_polyns
      BY <2>1, <2>2, <2>3 DEF SameCaches
    <2>5. /\ from \in [DOMAIN new -> DOMAIN old]
          /\ \A i, j \in DOMAIN new : from[i] = from[j] => i = j
          /\ \A i \in DOMAIN old : \E j \in DOMAIN new : from[j] = i
      BY <2>4 DEF Bijection, Injection, Surjection, IsInjective
    <2>6. \A i \in DOMAIN new : ServedBy(new[i], x, l) <=> ServedBy(old[from[i]], x, l)
      BY ONLY <2>4, ServedByCache
    <2>7. /\ (\E i \in DOMAIN old : ServedBy(old[i], x, l)) <=> x \in S
          /\ \A i, j \in DOMAIN old : ServedBy(old[i], x, l) /\ ServedBy(old[j], x, l) => i = j
      BY <1>1, <2>2 DEF Serves
    <2>8. (\E i \in DOMAIN new : ServedBy(new[i], x, l)) <=> (\E i \in DOMAIN old : ServedBy(old[i], x, l))
      BY ONLY <2>5, <2>6
    <2>9. ASSUME NEW i \in DOMAIN new, NEW j \in DOMAIN new, ServedBy(new[i], x, l), ServedBy(new[j], x, l)
          PROVE  i = j
      <3>1. from[i] \in DOMAIN old /\ from[j] \in DOMAIN old BY <2>5
      <3>2. ServedBy(old[from[i]], x, l) /\ ServedBy(old[from[j]], x, l) BY <2>6, <2>9
      <3>3. from[i] = from[j] BY <2>7, <3>1, <3>2
      <3> QED BY <2>5, <3>3
    <2> QED BY ONLY <2>3, <2>7, <2>8, <2>9
  <1>2. S \subseteq Item BY DEF Serves
  <1> QED BY ONLY <1>1, <1>2 DEF Serves

\* Bundles one by one with the same caches.
LEMMA SamePlaces ==
  ASSUME NEW bundles, NEW then,
         \A b \in BundleIdxs : /\ DOMAIN then[b] = DOMAIN bundles[b]
                               /\ \A i \in DOMAIN bundles[b] :
                                    then[b][i].batched_polyns = bundles[b][i].batched_polyns
  PROVE  SameCaches(then, bundles)
  <1>1. ASSUME NEW b \in BundleIdxs
        PROVE  \E from \in Bijection(DOMAIN then[b], DOMAIN bundles[b]) :
                 \A i \in DOMAIN then[b] : then[b][i].batched_polyns = bundles[b][from[i]].batched_polyns
    <2>1. PICK D : D = DOMAIN bundles[b] OBVIOUS
    <2>2. PICK from : from = [i \in D |-> i] OBVIOUS
    <2>3. from \in [D -> D] /\ \A i \in D : from[i] = i BY <2>2
    <2>4. from \in Bijection(D, D) BY <2>2, <2>3 DEF Bijection, Injection, Surjection, IsInjective
    <2> QED BY <2>1, <2>3, <2>4
  <1> QED BY <1>1 DEF SameCaches

\* What queries see of an unlabeled database.
Records(S) == {[item |-> x, label |-> NoLabel] : x \in S}

\* If a set of items is served, queries see its records.
LEMMA ContentsAre ==
  ASSUME LabelSize = 0, NEW bundles, NEW S, Serves(bundles, S)
  PROVE  ContentsOf(bundles) = Records(S)
  <1>1. ASSUME NEW x \in Item
        PROVE  LabelsServed(bundles, x) = IF x \in S THEN {NoLabel} ELSE {}
    <2>1. \A l \in Locations[x] : With(bundles, x, l) # {} <=> x \in S
      <3>1. ASSUME NEW l \in Locations[x] PROVE With(bundles, x, l) # {} <=> x \in S
        <4>1. PICK set : set = bundles[Index(l)] OBVIOUS
        <4>2. With(bundles, x, l) = {bb \in Range(set) : ServedBy(bb, x, l)} BY <4>1 DEF With, Index
        <4>3. With(bundles, x, l) # {} <=> \E i \in DOMAIN set : ServedBy(set[i], x, l)
          BY ONLY <4>2 DEF Range
        <4> QED BY <1>1, <3>1, <4>1, <4>3 DEF Serves
      <3> QED BY <3>1
    <2>2. \A bb, l : LabelsIn(GetCache(bb), x, l) = {NoLabel} BY DEF LabelsIn
    <2>3. \E l : l \in Locations[x] BY <1>1, ReceiverDBConfigured DEF ReceiverDBAssumption
    <2>4. LabelsServed(bundles, x) =
            UNION {UNION {{NoLabel} : bb \in With(bundles, x, l)} : l \in Locations[x]}
      BY <2>2 DEF LabelsServed
    <2>5. \A label : label \in LabelsServed(bundles, x) <=>
            label = NoLabel /\ \E l \in Locations[x] : With(bundles, x, l) # {}
      BY ONLY <2>4
    <2>6. \A label : label \in LabelsServed(bundles, x) <=> label = NoLabel /\ x \in S
      BY ONLY <2>1, <2>3, <2>5
    <2> QED BY ONLY <2>6
  <1>2. S \subseteq Item BY DEF Serves
  <1>3. \A e : e \in ContentsOf(bundles) <=>
          \E x \in Item : \E label \in LabelsServed(bundles, x) : e = [item |-> x, label |-> label]
    BY DEF ContentsOf
  <1>4. \A e : e \in ContentsOf(bundles) <=> \E x \in S : e = [item |-> x, label |-> NoLabel]
    BY ONLY <1>1, <1>2, <1>3
  <1> QED BY ONLY <1>4 DEF Records

\* Hashes are as many as their items.
LEMMA HashesCounted ==
  ASSUME NEW items, items \subseteq Hashes
  PROVE  /\ IsFiniteSet(items) /\ Cardinality(items) \in 0 .. Cardinality(Item)
         /\ Cardinality(items) = Cardinality(ItemsOf(items))
  <1>1. IsFiniteSet(Item) BY ReceiverDBConfigured DEF ReceiverDBAssumption
  <1>2. PICK S : S = ItemsOf(items) OBVIOUS
  <1>3. S \subseteq Item /\ items = {DataHash(x) : x \in S} BY <1>2 DEF ItemsOf, Hashes
  <1>4. IsFiniteSet(S) /\ Cardinality(S) <= Cardinality(Item) /\ Cardinality(S) \in Nat /\ Cardinality(Item) \in Nat
    BY <1>1, <1>3, FS_Subset, FS_CardinalityType
  <1>5. PICK f : f = [x \in S |-> DataHash(x)] OBVIOUS
  <1>6. f \in Bijection(S, items)
    <2>1. \A x, y \in S : f[x] = f[y] => x = y BY <1>3, <1>5, HashesAre
    <2>2. f \in [S -> items] BY <1>3, <1>5
    <2>3. \A h \in items : \E x \in S : f[x] = h BY <1>3, <1>5
    <2> QED BY <2>1, <2>2, <2>3 DEF Bijection, Injection, Surjection, IsInjective
  <1>7. ExistsBijection(S, items) BY <1>6 DEF ExistsBijection
  <1>8. IsFiniteSet(items) /\ Cardinality(items) = Cardinality(S) BY <1>4, <1>7, FS_Bijection
  <1> QED BY <1>2, <1>4, <1>8

-----------------------------------------------------------------------------
(* The database as those who query it see it: the invariant.               *)

\* Some set of items is served, and it has been counted.
Known(bundles, count) ==
  \E S : Serves(bundles, S) /\ count = Cardinality(S)

\* A saved database will be accepted, and serves what it did.
FileServes(db) ==
  /\ FileAccepted(db)
  /\ AllReady(Loaded(db.bundles))
  /\ db.stripped => Known(Loaded(db.bundles), db.item_count)

\* Where the set of items is kept, it is counted; where it is not, what is
\* served still is.  Between calls the bundles are ready.
Counted ==
  /\ outcome = "ok"
  /\ ~stripped => item_count = Cardinality(hashed_items) /\ AllPlain(bin_bundles)
  /\ stripped => Known(bin_bundles, item_count)
  /\ call.stage = "idle" => AllReady(bin_bundles)
  /\ \A db \in file : FileServes(db)

\* A database between calls serves as many items as it counts.
LEMMA KnownAtRest ==
  ASSUME Proper, NEW gone, NEW items, NEW bundles, NEW count,
         SettledRight(gone, items, bundles), AllReady(bundles),
         gone => Known(bundles, count), ~gone => count = Cardinality(items)
  PROVE  Known(bundles, count)
  <1>1. CASE gone BY <1>1
  <1>2. CASE ~gone
    <2>1. items \subseteq Hashes /\ AllRight(bundles) /\ ItemsRight(items, bundles)
      BY <1>2 DEF SettledRight
    <2>2. Serves(bundles, ItemsOf(items)) BY <2>1, SettledServes DEF Proper
    <2>3. count = Cardinality(ItemsOf(items)) BY <1>2, <2>1, HashesCounted
    <2> QED BY <2>2, <2>3 DEF Known
  <1> QED BY <1>1, <1>2

\* The same caches serve as many.
LEMMA SameKnown ==
  ASSUME NEW bundles, NEW then, SameCaches(then, bundles), NEW count, Known(bundles, count)
  PROVE  Known(then, count)
  <1>1. PICK S : Serves(bundles, S) /\ count = Cardinality(S) BY DEF Known
  <1>2. Serves(then, S) BY <1>1, SameServes
  <1> QED BY <1>1, <1>2 DEF Known

\* Bundles that are not stripped and ready have no labels.
LEMMA ReadyPlain ==
  ASSUME NEW bundles, AllReady(bundles), AllRight(bundles)
  PROVE  AllPlain(bundles)
  <1>1. ASSUME NEW b \in BundleIdxs, NEW i \in DOMAIN bundles[b] PROVE Plain(bundles[b][i])
    <2>1. Ready(bundles[b][i]) BY <1>1 DEF AllReady
    <2>2. bundles[b][i].stripped = FALSE
      BY <1>1 DEF AllRight, SetRight, OneRight, BundleRight, Shaped
    <2> QED BY <2>1, <2>2 DEF Ready
  <1> QED BY <1>1 DEF AllPlain, EachPlain

\* The empty database.
LEMMA InitCounted == Init => Counted
  <1> SUFFICES ASSUME Init PROVE Counted OBVIOUS
  <1>1. bin_bundles = [b \in BundleIdxs |-> <<>>] /\ outcome = "ok" /\ stripped = FALSE /\ file = {}
        /\ item_count = 0 /\ hashed_items = {}
    BY DEF Init
  <1>2. \A b \in BundleIdxs : DOMAIN bin_bundles[b] = {} BY <1>1
  <1>3. AllPlain(bin_bundles) /\ AllReady(bin_bundles) BY <1>2 DEF AllPlain, EachPlain, AllReady
  <1>4. Cardinality({}) = 0 BY FS_EmptySet
  <1> QED BY <1>1, <1>3, <1>4 DEF Counted

\* A call begins: the count follows the set.
LEMMA BeginCounted ==
  ASSUME Inv, Inv', Counted, ~stripped, NEW request, NEW items, NEW phases, Begin(request, items, phases)
  PROVE  Counted'
  <1>1. /\ hashed_items' = items
        /\ item_count' = item_count + Cardinality(items) - Cardinality(hashed_items)
        /\ call'.stage = "running"
        /\ UNCHANGED <<bin_bundles, stripped, outcome, file>>
    BY DEF Begin
  <1>2. hashed_items \subseteq Hashes /\ items \subseteq Hashes BY <1>1 DEF Inv
  <1>3. Cardinality(hashed_items) \in Nat /\ Cardinality(items) \in Nat BY <1>2, HashesCounted, FS_CardinalityType
  <1>4. item_count = Cardinality(hashed_items) BY DEF Counted
  <1>5. item_count' = Cardinality(hashed_items') BY <1>1, <1>3, <1>4
  <1>6. /\ outcome = "ok" /\ AllPlain(bin_bundles) /\ \A db \in file : FileServes(db) BY DEF Counted
  <1> QED BY <1>1, <1>5, <1>6 DEF Counted

\* A task works: what it leaves has no labels.
LEMMA WorkCounted ==
  ASSUME Proper, Inv, Counted, NEW b \in BundleIdxs, Work(b)
  PROVE  Counted'
  <1>0. LabelSize = 0 /\ Once BY DEF Proper, Once
  <1>1. ~stripped /\ \E i, l, p, h : NextRight(b, i, l, p, h) BY NextExists DEF Work
  <1>2. PICK i, l, p, h : NextRight(b, i, l, p, h) BY <1>1
  <1>3. call.phases # <<>> /\ p = call.phases[1] /\ PhaseRight(p, hashed_items, bin_bundles) BY <1>2 DEF NextRight
  <1>4. p.phase \in {"insert", "remove"} BY <1>0, <1>3 DEF PhaseRight, Works
  <1>5. PICK one \in NextBundles(b) : bin_bundles' = [bin_bundles EXCEPT ![b] = one] BY DEF Work
  <1>6. PICK e : e = EntryOf(call.phases[1].data, NextKey(b)) OBVIOUS
  <1>7. one \in After(bin_bundles[b], e, p.phase) BY <1>3, <1>5, <1>6 DEF NextBundles
  <1>8. SetRight(bin_bundles[b], Once) /\ bin_bundles = [c \in BundleIdxs |-> bin_bundles[c]]
    BY <1>1 DEF Inv, AllRight
  <1>9. \A c \in BundleIdxs : EachPlain(bin_bundles[c]) BY <1>1 DEF Counted, AllPlain
  <1>10. EachPlain(one)
    <2>1. PICK bundles : bundles = bin_bundles[b] OBVIOUS
    <2>2. PICK work \in {"insert", "remove"} : work = p.phase BY <1>4
    <2>3. SetRight(bundles, Once) /\ EachPlain(bundles) BY <1>8, <1>9, <2>1
    <2>4. one \in After(bundles, e, work) BY <1>7, <2>1, <2>2
    <2> QED BY ONLY <1>0, <2>3, <2>4, work \in {"insert", "remove"}, AfterPlain
  <1>11. \A c \in BundleIdxs : bin_bundles'[c] = one \/ bin_bundles'[c] = bin_bundles[c] BY <1>5, <1>8
  <1>12. AllPlain(bin_bundles') BY <1>9, <1>10, <1>11 DEF AllPlain
  <1>13. call.stage # "idle" BY <1>3 DEF Inv, CallRight
  <1>14. UNCHANGED <<hashed_items, item_count, stripped, call, outcome, file>> BY DEF Work
  <1>15. outcome = "ok" /\ item_count = Cardinality(hashed_items) /\ \A db \in file : FileServes(db)
    BY <1>1 DEF Counted
  <1> QED BY <1>1, <1>12, <1>13, <1>14, <1>15 DEF Counted

\* No task throws, no call is unwound.
LEMMA NothingThrows ==
  ASSUME Proper, Inv
  PROVE  /\ \A b \in BundleIdxs : ~Throw(b) /\ ~LoseIndex(b)
         /\ ~Rethrow /\ ~Unwound
  <1>1. Once BY DEF Proper
  <1>2. CallRight(call) /\ TasksRight(tasks, call.phases, call.stage) BY DEF Inv
  <1>3. call.stage # "unwinding" BY <1>1, <1>2 DEF CallRight
  <1>4. \A b \in BundleIdxs : tasks[b].state # "failed" BY <1>1, <1>2 DEF TasksRight
  <1>5. ASSUME NEW b \in BundleIdxs, Throw(b) PROVE FALSE
    <2>1. Active(b) /\ NextBundles(b) = {} BY <1>5 DEF Throw
    <2>2. ~stripped /\ \E i, l, p, h : NextRight(b, i, l, p, h) BY <2>1, NextExists
    <2> QED BY <1>1, <2>1, <2>2, NextBundlesRight
  <1> QED BY <1>3, <1>4, <1>5 DEF LoseIndex, Rethrow, Unwound

\* A call returns, and the bundles are ready.
LEMMA ReturnCounted ==
  ASSUME Proper, Inv, Counted, Return
  PROVE  Counted'
  <1>1. /\ call.stage = "running" /\ bin_bundles' = GenerateCaches(bin_bundles) /\ outcome' = "ok"
        /\ UNCHANGED <<hashed_items, item_count, stripped, file>>
    BY DEF Return, Finish
  <1>2. ~stripped BY <1>1 DEF Inv
  <1>3. PICK then : then = bin_bundles' OBVIOUS
  <1>4. \A b \in BundleIdxs : /\ DOMAIN then[b] = DOMAIN bin_bundles[b]
                              /\ \A i \in DOMAIN bin_bundles[b] : then[b][i] = RegenCache(bin_bundles[b][i])
    BY <1>1, <1>3 DEF GenerateCaches
  <1>5. ASSUME NEW b \in BundleIdxs, NEW i \in DOMAIN bin_bundles[b]
        PROVE  Ready(then[b][i]) /\ then[b][i].stripped = FALSE
    <2>1. PICK bb : bb = bin_bundles[b][i] OBVIOUS
    <2>2. PICK new : new = then[b][i] OBVIOUS
    <2>3. new = RegenCache(bb) BY <1>4, <2>1, <2>2
    <2>4. OneRight(bb, Once) BY <1>2, <2>1 DEF Inv, AllRight, SetRight
    <2>5. Plain(bb) BY <1>2, <2>1 DEF Counted, AllPlain, EachPlain
    <2>6. Ready(new) /\ new.stripped = FALSE BY ONLY Proper, <2>3, <2>4, <2>5, RegenReady
    <2> QED BY <2>2, <2>6
  <1>6. AllReady(then) BY <1>4, <1>5 DEF AllReady
  <1>7. AllPlain(then) BY <1>4, <1>5 DEF AllPlain, EachPlain, Ready
  <1>8. item_count = Cardinality(hashed_items) /\ \A db \in file : FileServes(db) BY <1>2 DEF Counted
  <1> QED BY <1>1, <1>2, <1>3, <1>6, <1>7, <1>8 DEF Counted

\* strip: what is served is what was.
LEMMA StripCounted ==
  ASSUME Proper, Inv, Counted, StripDb
  PROVE  Counted' /\ SameCaches(bin_bundles', bin_bundles)
  <1>1. /\ call.stage = "idle" /\ stripped' = TRUE /\ outcome' = "ok"
        /\ bin_bundles' = [b \in BundleIdxs |-> [i \in DOMAIN bin_bundles[b] |-> Strip(bin_bundles[b][i])]]
        /\ UNCHANGED <<item_count, call, file>>
    BY DEF StripDb
  <1>2. SettledRight(stripped, hashed_items, bin_bundles) BY <1>1, AtRestRight
  <1>3. AllReady(bin_bundles) BY <1>1 DEF Counted
  <1>4. Known(bin_bundles, item_count) BY <1>2, <1>3, KnownAtRest DEF Counted
  <1>5. PICK then : then = bin_bundles' OBVIOUS
  <1>6. \A b \in BundleIdxs : /\ DOMAIN then[b] = DOMAIN bin_bundles[b]
                              /\ \A i \in DOMAIN bin_bundles[b] : then[b][i] = Strip(bin_bundles[b][i])
    BY <1>1, <1>5
  <1>7. ASSUME NEW b \in BundleIdxs, NEW i \in DOMAIN bin_bundles[b]
        PROVE  Ready(then[b][i]) /\ then[b][i].batched_polyns = bin_bundles[b][i].batched_polyns
    <2>1. PICK bb : bb = bin_bundles[b][i] OBVIOUS
    <2>2. PICK new : new = then[b][i] OBVIOUS
    <2>3. new = Strip(bb) BY <1>6, <2>1, <2>2
    <2>4. Ready(bb) BY <1>3, <2>1 DEF AllReady
    <2>5. Ready(new) /\ new.batched_polyns = bb.batched_polyns BY ONLY <2>3, <2>4, StripReady
    <2> QED BY <2>1, <2>2, <2>5
  <1>8. AllReady(then) BY <1>6, <1>7 DEF AllReady
  <1>9. PICK bundles : bundles = bin_bundles OBVIOUS
  <1>10. SameCaches(then, bundles)
    <2>1. \A b \in BundleIdxs : /\ DOMAIN then[b] = DOMAIN bundles[b]
                                /\ \A i \in DOMAIN bundles[b] :
                                     then[b][i].batched_polyns = bundles[b][i].batched_polyns
      BY <1>6, <1>7, <1>9
    <2> QED BY ONLY <2>1, SamePlaces
  <1>11. Known(then, item_count) BY <1>4, <1>9, <1>10, SameKnown
  <1>12. \A db \in file : FileServes(db) BY DEF Counted
  <1> QED BY <1>1, <1>5, <1>8, <1>9, <1>10, <1>11, <1>12 DEF Counted

\* clear.
LEMMA ClearCounted ==
  ASSUME Counted, ClearInternal
  PROVE  Counted'
  <1>1. /\ bin_bundles' = [b \in BundleIdxs |-> <<>>] /\ outcome' = "ok" /\ stripped' = FALSE
        /\ item_count' = 0 /\ hashed_items' = {} /\ file' = file
    BY DEF ClearInternal
  <1>2. PICK then : then = bin_bundles' OBVIOUS
  <1>3. \A b \in BundleIdxs : DOMAIN then[b] = {} BY <1>1, <1>2
  <1>4. AllPlain(then) /\ AllReady(then) BY <1>3 DEF AllPlain, EachPlain, AllReady
  <1>5. Cardinality({}) = 0 BY FS_EmptySet
  <1> QED BY <1>1, <1>2, <1>4, <1>5 DEF Counted

\* What is saved is accepted when it is loaded, and serves the same.
LEMMA SaveServes ==
  ASSUME Proper, NEW gone, NEW items, NEW bundles, NEW count,
         SettledRight(gone, items, bundles), AllReady(bundles),
         gone => Known(bundles, count), ~gone => count = Cardinality(items),
         NEW saved, saved = [b \in BundleIdxs |-> [i \in DOMAIN bundles[b] |-> Save(bundles[b][i])]],
         NEW db, db = [hashed_items |-> items, item_count |-> count, stripped |-> gone, bundles |-> saved]
  PROVE  FileServes(db) /\ SameCaches(Loaded(saved), bundles) /\ SameCaches(saved, bundles)
  <1>1. db.hashed_items = items /\ db.item_count = count /\ db.stripped = gone /\ db.bundles = saved OBVIOUS
  <1>2. PICK loaded : loaded = Loaded(saved) OBVIOUS
  <1>3. \A b \in BundleIdxs : /\ DOMAIN saved[b] = DOMAIN bundles[b]
                              /\ \A i \in DOMAIN bundles[b] : saved[b][i] = Save(bundles[b][i])
    OBVIOUS
  <1>4. \A b \in BundleIdxs : /\ DOMAIN loaded[b] = DOMAIN saved[b]
                              /\ \A i \in DOMAIN saved[b] : loaded[b][i] = Load(saved[b][i])
    BY ONLY <1>2 DEF Loaded
  <1>5. ASSUME NEW b \in BundleIdxs, NEW i \in DOMAIN bundles[b]
        PROVE  /\ LoadAccepts(saved[b][i]) /\ Ready(loaded[b][i])
               /\ loaded[b][i].batched_polyns = bundles[b][i].batched_polyns
               /\ saved[b][i].batched_polyns = bundles[b][i].batched_polyns
    <2>1. PICK bb : bb = bundles[b][i] OBVIOUS
    <2>2. PICK one : one = saved[b][i] OBVIOUS
    <2>3. PICK then : then = loaded[b][i] OBVIOUS
    <2>4. one = Save(bb) BY ONLY <1>3, <1>5, <2>1, <2>2
    <2>5. then = Load(one) BY ONLY <1>3, <1>4, <1>5, <2>2, <2>3
    <2>6. Ready(bb) BY <1>5, <2>1 DEF AllReady
    <2>7. /\ LoadAccepts(one) /\ Ready(then) /\ then.batched_polyns = bb.batched_polyns
          /\ one.batched_polyns = bb.batched_polyns
      BY ONLY Proper, <2>4, <2>5, <2>6, SaveReady
    <2> QED BY ONLY <2>1, <2>2, <2>3, <2>7
  <1>6. AllReady(loaded) BY ONLY <1>3, <1>4, <1>5 DEF AllReady
  <1>7. SameCaches(loaded, bundles)
    <2>1. \A b \in BundleIdxs : /\ DOMAIN loaded[b] = DOMAIN bundles[b]
                                /\ \A i \in DOMAIN bundles[b] :
                                     loaded[b][i].batched_polyns = bundles[b][i].batched_polyns
      BY ONLY <1>3, <1>4, <1>5
    <2> QED BY ONLY <2>1, SamePlaces
  <1>8. SameCaches(saved, bundles)
    <2>1. \A b \in BundleIdxs : /\ DOMAIN saved[b] = DOMAIN bundles[b]
                                /\ \A i \in DOMAIN bundles[b] :
                                     saved[b][i].batched_polyns = bundles[b][i].batched_polyns
      BY ONLY <1>3, <1>5
    <2> QED BY ONLY <2>1, SamePlaces
  <1>9. FileAccepted(db)
    <2>1. \A b \in BundleIdxs : \A i \in DOMAIN saved[b] : LoadAccepts(saved[b][i]) BY ONLY <1>3, <1>5
    <2> QED BY ONLY <1>1, <2>1, ~gone => count = Cardinality(items) DEF FileAccepted
  <1>10. gone => Known(loaded, count)
    <2>1. gone => Known(bundles, count) OBVIOUS
    <2> QED BY ONLY <1>7, <2>1, SameKnown
  <1> QED BY ONLY <1>1, <1>2, <1>6, <1>7, <1>8, <1>9, <1>10 DEF FileServes

\* save.
LEMMA SaveCounted ==
  ASSUME Proper, Inv, Counted, SaveDb
  PROVE  Counted'
  <1>1. call.stage = "idle" /\ UNCHANGED <<hashed_items, item_count, bin_bundles, stripped, call, outcome>>
    BY DEF SaveDb
  <1>2. SettledRight(stripped, hashed_items, bin_bundles) BY <1>1, AtRestRight
  <1>3. /\ outcome = "ok" /\ AllReady(bin_bundles)
        /\ ~stripped => item_count = Cardinality(hashed_items) /\ AllPlain(bin_bundles)
        /\ stripped => Known(bin_bundles, item_count)
    BY <1>1 DEF Counted
  <1>4. PICK saved : saved = [b \in BundleIdxs |-> [i \in DOMAIN bin_bundles[b] |-> Save(bin_bundles[b][i])]]
    OBVIOUS
  <1>5. PICK db : db = [hashed_items |-> hashed_items, item_count |-> item_count, stripped |-> stripped,
                        bundles |-> saved] OBVIOUS
  <1>6. file' = {db} BY <1>4, <1>5 DEF SaveDb
  <1>7. FileServes(db) BY ONLY Proper, <1>2, <1>3, <1>4, <1>5, SaveServes
  <1>8. \A d \in file' : FileServes(d) BY <1>6, <1>7
  <1> QED BY ONLY <1>1, <1>3, <1>8 DEF Counted

\* What is read from a file has the caches of the file.
LEMMA ReadServes ==
  ASSUME NEW db, AllReady(Loaded(db.bundles)), NEW order, NEW then, ReadAs(then, db, order)
  PROVE  /\ AllReady(then)
         /\ SameCaches(then, Loaded(db.bundles))
  <1>1. PICK loaded : loaded = Loaded(db.bundles) OBVIOUS
  <1>2. PICK read : read = [b \in BundleIdxs |->
                      [i \in DOMAIN db.bundles[b] |-> Load(db.bundles[b][order[b][i]])]] OBVIOUS
  <1>3. then = [b \in BundleIdxs |-> [i \in DOMAIN read[b] |-> RegenCache(read[b][i])]]
    BY <1>2 DEF GenerateCaches, ReadAs
  <1>4. ASSUME NEW b \in BundleIdxs
        PROVE  \E from \in Bijection(DOMAIN then[b], DOMAIN loaded[b]) :
                 \A i \in DOMAIN then[b] : from[i] \in DOMAIN loaded[b] /\ then[b][i] = loaded[b][from[i]]
    <2>1. PICK s : s = db.bundles[b] OBVIOUS
    <2>2. PICK o : o = order[b] OBVIOUS
    <2>3. o \in Bijection(DOMAIN s, DOMAIN s) BY <2>1, <2>2 DEF ReadAs, Orders
    <2>4. PICK one : one = loaded[b] OBVIOUS
    <2>5. one = [i \in DOMAIN s |-> Load(s[i])] BY <1>1, <2>1, <2>4 DEF Loaded
    <2>6. \A i \in DOMAIN s : o[i] \in DOMAIN s BY <2>3 DEF Bijection, Injection
    <2>7. PICK r : r = read[b] OBVIOUS
    <2>8. r = [i \in DOMAIN s |-> Load(s[o[i]])] BY <1>2, <2>1, <2>2, <2>7
    <2>9. PICK new : new = then[b] OBVIOUS
    <2>10. new = [i \in DOMAIN r |-> RegenCache(r[i])] BY <1>3, <2>7, <2>9
    <2>11. DOMAIN r = DOMAIN s /\ DOMAIN one = DOMAIN s /\ DOMAIN new = DOMAIN s BY ONLY <2>5, <2>8, <2>10
    <2>12. \A i \in DOMAIN s : r[i] = one[o[i]] BY ONLY <2>5, <2>6, <2>8
    <2>13. ASSUME NEW i \in DOMAIN s PROVE RegenCache(one[o[i]]) = one[o[i]]
      <3>1. o[i] \in DOMAIN one BY <2>6, <2>11
      <3>2. Ready(one[o[i]]) BY <1>1, <2>4, <3>1 DEF AllReady
      <3> QED BY <3>2 DEF Ready, RegenCache
    <2>14. \A i \in DOMAIN s : new[i] = one[o[i]] BY ONLY <2>10, <2>11, <2>12, <2>13
    <2> QED BY ONLY <2>3, <2>4, <2>6, <2>9, <2>11, <2>14
  <1>5. AllReady(then)
    <2>1. ASSUME NEW b \in BundleIdxs, NEW i \in DOMAIN then[b] PROVE Ready(then[b][i])
      <3>1. PICK j \in DOMAIN loaded[b] : then[b][i] = loaded[b][j] BY <1>4, <2>1
      <3>2. Ready(loaded[b][j]) BY <1>1, <3>1 DEF AllReady
      <3> QED BY <3>1, <3>2
    <2> QED BY <2>1 DEF AllReady
  <1>6. SameCaches(then, loaded)
    <2>1. ASSUME NEW b \in BundleIdxs
          PROVE  \E from \in Bijection(DOMAIN then[b], DOMAIN loaded[b]) :
                   \A i \in DOMAIN then[b] : then[b][i].batched_polyns = loaded[b][from[i]].batched_polyns
      BY ONLY <1>4, <2>1
    <2> QED BY ONLY <2>1 DEF SameCaches
  <1> QED BY ONLY <1>1, <1>5, <1>6

\* Load.  (It may say no to a file that is corrupt, which is none of these.)
LEMMA LoadCounted ==
  ASSUME Proper, Inv, Inv', Counted, LoadDb
  PROVE  Counted' /\ \E db \in file : /\ stripped' = db.stripped
                                      /\ SameCaches(bin_bundles', Loaded(db.bundles))
  <1>1. call.stage = "idle" /\ UNCHANGED <<call, tasks, file>> BY DEF LoadDb
  <1>2. \A db \in file : FileServes(db) BY DEF Counted
  <1>3. PICK db \in file :
          IF FileAccepted(db)
          THEN /\ hashed_items' = IF db.stripped THEN {} ELSE db.hashed_items
               /\ item_count' = db.item_count
               /\ stripped' = db.stripped
               /\ \E order \in {f \in [BundleIdxs -> UNION {Orders(db.bundles[b]) : b \in BundleIdxs}] :
                                  \A b \in BundleIdxs : f[b] \in Orders(db.bundles[b])} :
                    bin_bundles' = GenerateCaches([b \in BundleIdxs |->
                      [i \in DOMAIN db.bundles[b] |-> Load(db.bundles[b][order[b][i]])]])
               /\ outcome' = "ok"
          ELSE TRUE
    BY DEF LoadDb
  <1>4. FileServes(db) /\ FileAccepted(db) BY <1>2 DEF FileServes
  <1>5. /\ hashed_items' = (IF db.stripped THEN {} ELSE db.hashed_items) /\ item_count' = db.item_count
        /\ stripped' = db.stripped /\ outcome' = "ok"
    BY <1>3, <1>4
  <1>6. PICK order \in {f \in [BundleIdxs -> UNION {Orders(db.bundles[b]) : b \in BundleIdxs}] :
                          \A b \in BundleIdxs : f[b] \in Orders(db.bundles[b])} :
          bin_bundles' = GenerateCaches([b \in BundleIdxs |->
            [i \in DOMAIN db.bundles[b] |-> Load(db.bundles[b][order[b][i]])]])
    BY <1>3, <1>4
  <1>7. PICK then : then = bin_bundles' OBVIOUS
  <1>8. ReadAs(then, db, order)
    <2>1. \A b \in BundleIdxs : order[b] \in Orders(db.bundles[b]) BY <1>6
    <2> QED BY <1>6, <1>7, <2>1 DEF ReadAs
  <1>9. AllReady(Loaded(db.bundles)) /\ (db.stripped => Known(Loaded(db.bundles), db.item_count))
    BY <1>4 DEF FileServes
  <1>10. AllReady(then) /\ SameCaches(then, Loaded(db.bundles)) BY ONLY <1>8, <1>9, ReadServes
  <1>11. db.stripped => Known(then, db.item_count)
    <2>1. PICK loaded : loaded = Loaded(db.bundles) OBVIOUS
    <2>2. PICK count : count = db.item_count OBVIOUS
    <2>3. Known(loaded, count) => Known(then, count) BY ONLY <1>10, <2>1, SameKnown
    <2> QED BY ONLY <1>9, <2>1, <2>2, <2>3
  <1>12. ~db.stripped => db.item_count = Cardinality(db.hashed_items) BY <1>4 DEF FileAccepted
  <1>13. ~stripped' => AllPlain(then)
    <2>1. ~stripped' => AllRight(then) BY <1>7 DEF Inv
    <2> QED BY <1>10, <2>1, ReadyPlain
  <1>14. \A d \in file' : FileServes(d) BY <1>1, <1>2
  <1>15. Counted'
    BY ONLY <1>5, <1>7, <1>10, <1>11, <1>12, <1>13, <1>14 DEF Counted
  <1> QED BY <1>5, <1>7, <1>10, <1>15

\* Every step keeps the count.
LEMMA NextCounted ==
  ASSUME Proper, Inv, Inv', Counted, [Next]_vars
  PROVE  Counted'
  <1>1. ASSUME NEW batch \in InsertBatches, InsertOrAssign(batch) PROVE Counted'
    <2>1. ~stripped /\ \E request, items, phases : Begin(request, items, phases) BY <1>1 DEF InsertOrAssign
    <2> QED BY <2>1, BeginCounted
  <1>2. ASSUME NEW batch \in RemoveBatches, RemoveItems(batch) PROVE Counted'
    <2>1. ~stripped /\ \E request, items, phases : Begin(request, items, phases) BY <1>2 DEF RemoveItems
    <2> QED BY <2>1, BeginCounted
  <1>3. ASSUME NEW b \in BundleIdxs, Work(b) PROVE Counted' BY <1>3, WorkCounted
  <1>4. \A b \in BundleIdxs : ~Throw(b) /\ ~LoseIndex(b) BY NothingThrows
  <1>5. ~Rethrow /\ ~Unwound BY NothingThrows
  <1>6. CASE NextPhase
    <2>1. /\ call.stage = "running" /\ call' = [call EXCEPT !.phases = Tail(@)]
          /\ UNCHANGED <<hashed_items, item_count, bin_bundles, stripped, outcome, file>>
      BY <1>6 DEF NextPhase
    <2>2. call'.stage = "running" BY <2>1 DEF Inv, CallRight
    <2>3. /\ outcome = "ok"
          /\ ~stripped => item_count = Cardinality(hashed_items) /\ AllPlain(bin_bundles)
          /\ stripped => Known(bin_bundles, item_count)
          /\ \A db \in file : FileServes(db)
      BY DEF Counted
    <2> QED BY ONLY <2>1, <2>2, <2>3 DEF Counted
  <1>7. CASE Return BY <1>7, ReturnCounted
  <1>8. CASE StripDb BY <1>8, StripCounted
  <1>9. CASE ClearInternal BY <1>9, ClearCounted
  <1>10. CASE SaveDb BY <1>10, SaveCounted
  <1>11. CASE LoadDb BY <1>11, LoadCounted
  <1>12. CASE UNCHANGED vars BY <1>12 DEF vars, Counted
  <1> QED BY <1>1, <1>2, <1>3, <1>4, <1>5, <1>6, <1>7, <1>8, <1>9, <1>10, <1>11, <1>12 DEF Next

\* Between calls some set of items is served.
LEMMA ServedAtRest ==
  ASSUME Proper, Inv, Counted, call.stage = "idle"
  PROVE  /\ AllReady(bin_bundles)
         /\ \E S : /\ Serves(bin_bundles, S) /\ item_count = Cardinality(S)
                   /\ ~stripped => S = ItemsOf(hashed_items)
  <1>1. SettledRight(stripped, hashed_items, bin_bundles) BY AtRestRight
  <1>2. AllReady(bin_bundles) BY DEF Counted
  <1>3. CASE stripped BY <1>2, <1>3 DEF Counted, Known
  <1>4. CASE ~stripped
    <2>1. hashed_items \subseteq Hashes /\ AllRight(bin_bundles) /\ ItemsRight(hashed_items, bin_bundles)
      BY <1>1, <1>4 DEF SettledRight
    <2>2. Serves(bin_bundles, ItemsOf(hashed_items)) BY <1>2, <2>1, SettledServes DEF Proper
    <2>3. item_count = Cardinality(ItemsOf(hashed_items)) BY <1>4, <2>1, HashesCounted DEF Counted
    <2> QED BY <1>2, <2>2, <2>3
  <1> QED BY <1>3, <1>4

\* What has to be so between calls is.
LEMMA RightAtRest ==
  ASSUME Proper, Inv, Counted, call.stage = "idle"
  PROVE  CachesFresh /\ OncePerLocation /\ KnowsItems
  <1>1. AllReady(bin_bundles) BY ServedAtRest
  <1>2. PICK S : /\ Serves(bin_bundles, S) /\ item_count = Cardinality(S)
                 /\ ~stripped => S = ItemsOf(hashed_items)
    BY ServedAtRest
  <1>3. CachesFresh
    <2>1. ASSUME NEW b \in BundleIdxs, NEW bb \in Range(bin_bundles[b])
          PROVE  /\ ~bb.cache_invalid
                 /\ ~bb.stripped => bb.batched_polyns = [items |-> bb.item_bins, labels |-> bb.label_bins]
      <3>1. PICK i \in DOMAIN bin_bundles[b] : bb = bin_bundles[b][i] BY <2>1 DEF Range
      <3>2. Ready(bb) BY <1>1, <3>1 DEF AllReady
      <3> QED BY <3>2 DEF Ready, OneRight, Cached
    <2> QED BY <2>1 DEF CachesFresh, Bundle
  <1>4. OncePerLocation
    <2>1. ASSUME NEW x \in Item, NEW l \in Locations[x]
          PROVE  /\ BundlesWith(x, l) # {} <=> x \in S
                 /\ IsFiniteSet(BundlesWith(x, l))
                 /\ Cardinality(BundlesWith(x, l)) = IF x \in S THEN 1 ELSE 0
      <3>1. PICK W : W = BundlesWith(x, l) OBVIOUS
      <3>2. PICK set : set = bin_bundles[Index(l)] OBVIOUS
      <3>3. W = {i \in DOMAIN set : ServedBy(set[i], x, l)} BY <3>1, <3>2 DEF BundlesWith, Index
      <3>4. /\ (\E i \in DOMAIN set : ServedBy(set[i], x, l)) <=> x \in S
            /\ \A i, j \in DOMAIN set : ServedBy(set[i], x, l) /\ ServedBy(set[j], x, l) => i = j
        BY <1>2, <2>1, <3>2 DEF Serves
      <3>5. W # {} <=> x \in S BY ONLY <3>3, <3>4
      <3>6. \A i, j \in W : i = j BY ONLY <3>3, <3>4
      <3>7. CASE W = {} BY <3>1, <3>5, <3>7, FS_EmptySet
      <3>8. CASE W # {}
        <4>1. PICK i : W = {i} BY ONLY <3>6, <3>8
        <4>2. IsFiniteSet({i}) /\ Cardinality({i}) = 1 BY ONLY FS_Singleton
        <4>3. x \in S BY ONLY <3>5, <3>8
        <4> QED BY ONLY <3>1, <3>8, <4>1, <4>2, <4>3
      <3> QED BY <3>7, <3>8
    <2>2. S = {x \in Item : \E l \in Locations[x] : BundlesWith(x, l) # {}}
      <3>1. S \subseteq Item BY <1>2 DEF Serves
      <3>2. \A x \in Item : \E l : l \in Locations[x] BY ReceiverDBConfigured DEF ReceiverDBAssumption
      <3> QED BY ONLY <2>1, <3>1, <3>2
    <2>3. ASSUME NEW x \in Item, NEW l \in Locations[x], NEW m \in Locations[x]
          PROVE  /\ Cardinality(BundlesWith(x, l)) <= 1
                 /\ Cardinality(BundlesWith(x, l)) = Cardinality(BundlesWith(x, m))
                 /\ ~stripped => (BundlesWith(x, l) # {} <=> DataHash(x) \in hashed_items)
      <3>1. Cardinality(BundlesWith(x, l)) = IF x \in S THEN 1 ELSE 0 BY <2>1
      <3>2. Cardinality(BundlesWith(x, m)) = IF x \in S THEN 1 ELSE 0 BY <2>1
      <3>3. BundlesWith(x, l) # {} <=> x \in S BY <2>1
      <3>4. ~stripped => (x \in S <=> DataHash(x) \in hashed_items) BY <1>2 DEF ItemsOf
      <3> QED BY ONLY <3>1, <3>2, <3>3, <3>4
    <2> QED BY <1>2, <2>2, <2>3 DEF OncePerLocation
  <1>5. KnowsItems
    <2>1. Contents = Records(S) BY <1>2, ContentsAre DEF Contents, Proper, Once
    <2>2. ASSUME ~stripped, NEW x \in Item PROVE HasItem(x) <=> \E e \in Contents : e.item = x
      <3>1. HasItem(x) <=> x \in S BY <1>2, <2>2, HashesAre DEF HasItem, ItemsOf, Proper, Once
      <3>2. \A y : [item |-> y, label |-> NoLabel].item = y OBVIOUS
      <3>3. (\E e \in Records(S) : e.item = x) <=> \E y \in S : [item |-> y, label |-> NoLabel].item = x
        BY ONLY DEF Records
      <3> QED BY ONLY <2>1, <3>1, <3>2, <3>3
    <2> QED BY <2>2 DEF KnowsItems
  <1> QED BY <1>3, <1>4, <1>5

\* The types of the variables.
LEMMA TypesRight ==
  ASSUME Proper, Inv, Counted
  PROVE  TypeOK
  <1>1. hashed_items \subseteq {DataHash(x) : x \in Item} BY DEF Inv, Hashes
  <1>2. item_count \in 0 .. Cardinality(Item)
    <2>1. CASE ~stripped
      <3>1. hashed_items \subseteq Hashes BY DEF Inv
      <3>2. Cardinality(hashed_items) \in 0 .. Cardinality(Item) BY <3>1, HashesCounted
      <3> QED BY <2>1, <3>2 DEF Counted
    <2>2. CASE stripped
      <3>1. PICK S : Serves(bin_bundles, S) /\ item_count = Cardinality(S) BY <2>2 DEF Counted, Known
      <3>2. IsFiniteSet(Item) BY ReceiverDBConfigured DEF ReceiverDBAssumption
      <3>3. S \subseteq Item BY <3>1 DEF Serves
      <3>4. Cardinality(S) <= Cardinality(Item) /\ Cardinality(S) \in Nat /\ Cardinality(Item) \in Nat
        BY <3>2, <3>3, FS_Subset, FS_CardinalityType
      <3> QED BY <3>1, <3>4
    <2> QED BY <2>1, <2>2
  <1>3. DOMAIN bin_bundles = BundleIdxs
    <2>1. bin_bundles = [b \in BundleIdxs |-> bin_bundles[b]] BY DEF Inv
    <2> QED BY <2>1
  <1>4. ASSUME NEW b \in BundleIdxs, NEW bb \in Range(bin_bundles[b])
        PROVE  DOMAIN bb.item_bins = IF stripped THEN {} ELSE Bins
    <2>1. PICK i \in DOMAIN bin_bundles[b] : bb = bin_bundles[b][i] BY <1>4 DEF Range
    <2>2. CASE stripped
      <3>1. call.stage = "idle" /\ bb.stripped = TRUE BY <2>1, <2>2 DEF Inv, AllPerished, Perished
      <3>2. Ready(bb) BY <2>1, <3>1 DEF Counted, AllReady
      <3>3. bb.item_bins = <<>> BY <3>1, <3>2 DEF Ready
      <3> QED BY <2>2, <3>3
    <2>3. CASE ~stripped
      <3>1. Shaped(bb) BY <2>1, <2>3 DEF Inv, AllRight, SetRight, OneRight, BundleRight
      <3> QED BY <2>3, <3>1 DEF Shaped
    <2> QED BY <2>2, <2>3
  <1>5. \A bb \in Bundle : DOMAIN bb.item_bins = IF stripped THEN {} ELSE Bins BY <1>4 DEF Bundle
  <1>6. call.stage \in {"idle", "running", "unwinding"} /\ DOMAIN tasks = BundleIdxs
    BY DEF Inv, CallRight, TasksRight
  <1> QED BY <1>1, <1>2, <1>3, <1>5, <1>6 DEF TypeOK

\* An unlabeled database from which only items are removed that are in it:
\* no call throws, and between calls (that is, when queries look) each item
\* is served from one bundle at each of its locations, from caches that are
\* those of the bins; they are as many as the database says, and those that
\* has_item knows.  A saved database is accepted again.
THEOREM ServedRight ==
  ASSUME LabelSize = 0, ~RemoveAbsent, MaxBinSize > 1
  PROVE  Spec => [](/\ TypeOK /\ NothingThrown /\ CachesFresh /\ OncePerLocation /\ KnowsItems
                    /\ SavedLoads)
  <1> DEFINE Right == /\ TypeOK /\ NothingThrown /\ CachesFresh /\ OncePerLocation /\ KnowsItems
                      /\ SavedLoads
  <1>0. Proper BY DEF Proper, Once
  <1>1. Init => Counted BY InitCounted
  <1>2. Inv /\ Inv' /\ Counted /\ [Next]_vars => Counted' BY <1>0, NextCounted
  <1>3. Inv /\ Counted => Right
    <2> SUFFICES ASSUME Inv, Counted PROVE Right OBVIOUS
    <2>1. TypeOK BY <1>0, TypesRight
    <2>2. NothingThrown BY DEF Counted, NothingThrown
    <2>3. SavedLoads BY DEF Counted, FileServes, SavedLoads
    <2>4. CachesFresh /\ OncePerLocation /\ KnowsItems
      <3>1. CASE call.stage = "idle" BY <1>0, <3>1, RightAtRest
      <3>2. CASE call.stage # "idle" BY <3>2 DEF CachesFresh, OncePerLocation, KnowsItems, AtRest
      <3> QED BY <3>1, <3>2
    <2> QED BY <2>1, <2>2, <2>3, <2>4
  <1>4. Spec => []Inv BY DatabaseRight
  <1> HIDE DEF Right
  <1>5. Spec => []Right BY <1>1, <1>2, <1>3, <1>4, PTL DEF Spec
  <1> QED BY <1>5 DEF Right

-----------------------------------------------------------------------------
(* The database implements the map DbSpec.                                 *)

\* The batches that are inserted in a database without labels.
Unlabeled ==
  \A batch \in InsertBatches : \A i \in DOMAIN batch : batch[i] = [item |-> batch[i].item, label |-> NoLabel]

\* The items a batch to be inserted names, and one to be removed.
Named(batch) == {batch[i].item : i \in DOMAIN batch}
Listed(batch) == {batch[i] : i \in DOMAIN batch}

\* What a call makes of the items that are there.
Made(r, S) == IF r.op = "insert" THEN S \cup Named(r.data) ELSE S \ Listed(r.data)

\* While a call is served, queries saw what there was, and the set of items is
\* what the call will have made of it.
Serving(r, S) ==
  /\ r \in Db!Requests /\ call.request = {r}
  /\ before = Records(S)
  /\ ItemsOf(hashed_items) = Made(r, S)

\* Between calls none is asked for, and later there is a set that it works on.
Asked == IF call.stage = "idle" THEN call.request = {} ELSE \E r, S : Serving(r, S)

\* Queries see the same in the same caches.
LEMMA SameContents ==
  ASSUME NEW bundles, NEW then, SameCaches(then, bundles)
  PROVE  ContentsOf(then) = ContentsOf(bundles)
  <1>1. ASSUME NEW x \in Item, NEW l \in Locations[x]
        PROVE  {GetCache(bb) : bb \in With(then, x, l)} = {GetCache(bb) : bb \in With(bundles, x, l)}
    <2>1. Index(l) \in BundleIdxs BY AtAStart DEF Index
    <2>2. PICK old : old = bundles[Index(l)] OBVIOUS
    <2>3. PICK new : new = then[Index(l)] OBVIOUS
    <2>4. PICK from \in Bijection(DOMAIN new, DOMAIN old) :
            \A i \in DOMAIN new : new[i].batched_polyns = old[from[i]].batched_polyns
      BY <2>1, <2>2, <2>3 DEF SameCaches
    <2>5. /\ \A i \in DOMAIN new : from[i] \in DOMAIN old
          /\ \A i \in DOMAIN old : \E j \in DOMAIN new : from[j] = i
      BY <2>4 DEF Bijection, Injection, Surjection
    <2>6. \A i \in DOMAIN new : ServedBy(new[i], x, l) <=> ServedBy(old[from[i]], x, l)
      BY ONLY <2>4, ServedByCache
    <2>7. /\ With(then, x, l) = {bb \in Range(new) : ServedBy(bb, x, l)}
          /\ With(bundles, x, l) = {bb \in Range(old) : ServedBy(bb, x, l)}
      BY <2>2, <2>3 DEF With, Index
    <2>8. \A c : c \in {GetCache(bb) : bb \in With(then, x, l)} <=>
            \E i \in DOMAIN new : ServedBy(new[i], x, l) /\ c = new[i].batched_polyns
      BY ONLY <2>7 DEF Range, GetCache
    <2>9. \A c : c \in {GetCache(bb) : bb \in With(bundles, x, l)} <=>
            \E i \in DOMAIN old : ServedBy(old[i], x, l) /\ c = old[i].batched_polyns
      BY ONLY <2>7 DEF Range, GetCache
    <2>10. \A c : (\E i \in DOMAIN new : ServedBy(new[i], x, l) /\ c = new[i].batched_polyns) <=>
                  (\E i \in DOMAIN old : ServedBy(old[i], x, l) /\ c = old[i].batched_polyns)
      BY ONLY <2>4, <2>5, <2>6
    <2> QED BY ONLY <2>8, <2>9, <2>10
  <1>2. ASSUME NEW x \in Item PROVE LabelsServed(then, x) = LabelsServed(bundles, x)
    <2>1. ASSUME NEW l \in Locations[x]
          PROVE  UNION {LabelsIn(GetCache(bb), x, l) : bb \in With(then, x, l)} =
                 UNION {LabelsIn(GetCache(bb), x, l) : bb \in With(bundles, x, l)}
      <3>1. PICK C : C = {GetCache(bb) : bb \in With(then, x, l)} OBVIOUS
      <3>2. C = {GetCache(bb) : bb \in With(bundles, x, l)} BY <1>1, <1>2, <2>1, <3>1
      <3>3. UNION {LabelsIn(GetCache(bb), x, l) : bb \in With(then, x, l)} = UNION {LabelsIn(c, x, l) : c \in C}
        BY ONLY <3>1
      <3>4. UNION {LabelsIn(GetCache(bb), x, l) : bb \in With(bundles, x, l)} = UNION {LabelsIn(c, x, l) : c \in C}
        BY ONLY <3>2
      <3> QED BY ONLY <3>3, <3>4
    <2>2. {UNION {LabelsIn(GetCache(bb), x, l) : bb \in With(then, x, l)} : l \in Locations[x]} =
          {UNION {LabelsIn(GetCache(bb), x, l) : bb \in With(bundles, x, l)} : l \in Locations[x]}
      BY ONLY <2>1
    <2> QED BY ONLY <2>2 DEF LabelsServed
  <1>3. {{[item |-> x, label |-> label] : label \in LabelsServed(then, x)} : x \in Item} =
        {{[item |-> x, label |-> label] : label \in LabelsServed(bundles, x)} : x \in Item}
    BY ONLY <1>2
  <1> QED BY ONLY <1>3 DEF ContentsOf

\* The abstract operations on records without labels.
LEMMA AssignedIs ==
  ASSUME Unlabeled, NEW S, NEW batch \in InsertBatches
  PROVE  Db!Assigned(Records(S), batch) = Records(S \cup Named(batch))
  <1> DEFINE last(x) == CHOOSE i \in DOMAIN batch :
                          batch[i].item = x /\ \A j \in DOMAIN batch : batch[j].item = x => j <= i
  <1>1. Db!Range(batch) = {batch[i] : i \in DOMAIN batch} BY DEF Db!Range
  <1>2. {e.item : e \in Db!Range(batch)} = Named(batch) BY <1>1 DEF Named
  <1>3. Db!Assigned(Records(S), batch) =
          {e \in Records(S) : e.item \notin Named(batch)} \cup {batch[last(x)] : x \in Named(batch)}
    BY <1>2 DEF Db!Assigned
  <1>4. ASSUME NEW x \in Named(batch)
        PROVE  batch[last(x)] = [item |-> x, label |-> NoLabel]
    <2> DEFINE P == {i \in DOMAIN batch : batch[i].item = x}
    <2>1. Len(batch) \in Nat /\ DOMAIN batch = 1 .. Len(batch) BY BatchFacts
    <2>2. P \subseteq 0 .. Len(batch) /\ P # {} BY <1>4, <2>1 DEF Named
    <2>3. \E i \in P : \A j \in P : j <= i BY <2>1, <2>2, Greatest
    <2>4. \E i \in DOMAIN batch : batch[i].item = x /\ \A j \in DOMAIN batch : batch[j].item = x => j <= i
      BY <2>3
    <2>5. last(x) \in DOMAIN batch /\ batch[last(x)].item = x BY <2>4
    <2> HIDE DEF last
    <2> QED BY <2>5 DEF Unlabeled
  <1> HIDE DEF last
  <1>5. {batch[last(x)] : x \in Named(batch)} = Records(Named(batch)) BY <1>4 DEF Records
  <1>6. \A x : [item |-> x, label |-> NoLabel].item = x OBVIOUS
  <1>7. {e \in Records(S) : e.item \notin Named(batch)} = Records(S \ Named(batch))
    BY ONLY <1>6 DEF Records
  <1>8. Records(S \ Named(batch)) \cup Records(Named(batch)) = Records(S \cup Named(batch)) BY DEF Records
  <1> QED BY ONLY <1>3, <1>5, <1>7, <1>8

\* What the map makes of a batch to remove.
LEMMA RemovedIs ==
  ASSUME NEW S, NEW batch
  PROVE  Db!Removed(Records(S), batch) = Records(S \ Listed(batch))
  <1>1. Db!Range(batch) = Listed(batch) BY DEF Db!Range, Listed
  <1>2. Db!Removed(Records(S), batch) = {e \in Records(S) : e.item \notin Listed(batch)}
    BY <1>1 DEF Db!Removed
  <1>3. \A x : [item |-> x, label |-> NoLabel].item = x OBVIOUS
  <1> QED BY ONLY <1>2, <1>3 DEF Records

\* What queries see at rest.
LEMMA ContentsAtRest ==
  ASSUME Proper, NEW items, items \subseteq Hashes, NEW bundles, AllRight(bundles), AllReady(bundles),
         ItemsRight(items, bundles)
  PROVE  ContentsOf(bundles) = Records(ItemsOf(items))
  <1>1. LabelSize = 0 /\ Once BY DEF Proper, Once
  <1>2. PICK S : S = ItemsOf(items) OBVIOUS
  <1>3. Serves(bundles, S) BY <1>1, <1>2, SettledServes
  <1> QED BY ONLY <1>1, <1>2, <1>3, ContentsAre

\* Mapped to the abstract state: a call begins.
LEMMA CallRefines ==
  ASSUME Proper, Inv, Counted, Asked, call.stage = "idle", ~stripped, NEW r \in Db!Requests, NEW items, NEW phases,
         Begin(r, items, phases), ItemsOf(items) = Made(r, ItemsOf(hashed_items))
  PROVE  Asked' /\ Db!Call
  <1>1. /\ hashed_items' = items /\ call'.stage = "running" /\ call'.request = {r} /\ before' = Contents
        /\ UNCHANGED <<stripped, file>>
    BY DEF Begin
  <1>2. PICK S : S = ItemsOf(hashed_items) OBVIOUS
  <1>3. Contents = Records(S)
    <2>1. SettledRight(stripped, hashed_items, bin_bundles) BY AtRestRight
    <2>2. /\ hashed_items \subseteq Hashes /\ AllRight(bin_bundles) /\ ItemsRight(hashed_items, bin_bundles)
      BY <2>1 DEF SettledRight
    <2>3. AllReady(bin_bundles) BY DEF Counted
    <2> QED BY <1>2, <2>2, <2>3, ContentsAtRest DEF Contents
  <1>4. Serving(r, S)' BY <1>1, <1>2, <1>3 DEF Serving
  <1>5. Asked'
    <2>1. call'.stage # "idle" BY <1>1
    <2> QED BY <1>4, <2>1 DEF Asked
  <1>6. call.request = {} BY DEF Asked
  <1>7. Seen' = Seen BY <1>1 DEF Seen
  <1>8. Saved' = Saved BY <1>1 DEF Saved
  <1> QED BY <1>1, <1>5, <1>6, <1>7, <1>8 DEF Db!Call

\* Mapped to the abstract state: items are to be inserted.
LEMMA InsertRefines ==
  ASSUME Proper, Inv, Counted, Asked, NEW batch \in InsertBatches, InsertOrAssign(batch)
  PROVE  Asked' /\ Db!Call
  <1>1. PICK data : data = [i \in DOMAIN batch |-> [hash |-> DataHash(batch[i].item), label |-> batch[i].label]]
    OBVIOUS
  <1>2. PICK items : items = hashed_items \cup {data[i].hash : i \in DOMAIN data} OBVIOUS
  <1>3. PICK r : r = [op |-> "insert", data |-> batch] OBVIOUS
  <1>4. call.stage = "idle" /\ ~stripped /\ \E phases : Begin(r, items, phases)
    BY <1>1, <1>2, <1>3 DEF InsertOrAssign
  <1>5. r \in Db!Requests BY <1>3 DEF Db!Requests
  <1>6. r.op = "insert" /\ r.data = batch BY <1>3
  <1>7. ItemsOf(items) = ItemsOf(hashed_items) \cup Named(batch)
    <2>1. {data[i].hash : i \in DOMAIN data} = {DataHash(batch[i].item) : i \in DOMAIN batch} BY <1>1
    <2>2. \A i \in DOMAIN batch : batch[i].item \in Item BY ReceiverDBConfigured DEF ReceiverDBAssumption
    <2>3. \A x \in Item : DataHash(x) \in {DataHash(batch[i].item) : i \in DOMAIN batch} <=> x \in Named(batch)
      BY <2>2, HashesAre DEF Named
    <2>4. Named(batch) \subseteq Item BY <2>2 DEF Named
    <2> QED BY ONLY <1>2, <2>1, <2>3, <2>4 DEF ItemsOf
  <1>8. ItemsOf(items) = Made(r, ItemsOf(hashed_items)) BY <1>6, <1>7 DEF Made
  <1> QED BY <1>4, <1>5, <1>8, CallRefines

\* Mapped to the abstract state: items are to be removed.
LEMMA RemoveRefines ==
  ASSUME Proper, Inv, Counted, Asked, NEW batch \in RemoveBatches, RemoveItems(batch)
  PROVE  Asked' /\ Db!Call
  <1>1. PICK data : data = [i \in DOMAIN batch |-> [hash |-> PlainHash(batch[i]), label |-> NoLabel]]
    OBVIOUS
  <1>2. PICK items : items = hashed_items \ {data[i].hash : i \in DOMAIN data} OBVIOUS
  <1>3. PICK r : r = [op |-> "remove", data |-> batch] OBVIOUS
  <1>4. call.stage = "idle" /\ ~stripped /\ \E phases : Begin(r, items, phases)
    BY <1>1, <1>2, <1>3 DEF RemoveItems
  <1>5. r \in Db!Requests BY <1>3 DEF Db!Requests
  <1>6. r.op # "insert" /\ r.data = batch BY <1>3
  <1>7. ItemsOf(items) = ItemsOf(hashed_items) \ Listed(batch)
    <2>1. {data[i].hash : i \in DOMAIN data} = {PlainHash(batch[i]) : i \in DOMAIN batch} BY <1>1
    <2>2. \A i \in DOMAIN batch : batch[i] \in Item BY ReceiverDBConfigured DEF ReceiverDBAssumption
    <2>3. \A x \in Item : DataHash(x) = PlainHash(x) BY HashesAre DEF Proper, Once
    <2>4. \A x, y \in Item : DataHash(x) = DataHash(y) => x = y BY HashesAre
    <2>5. \A x \in Item : DataHash(x) \in {PlainHash(batch[i]) : i \in DOMAIN batch} <=> x \in Listed(batch)
      BY ONLY <2>2, <2>3, <2>4 DEF Listed
    <2> QED BY ONLY <1>2, <2>1, <2>5 DEF ItemsOf
  <1>8. ItemsOf(items) = Made(r, ItemsOf(hashed_items)) BY <1>6, <1>7 DEF Made
  <1> QED BY <1>4, <1>5, <1>8, CallRefines

\* A call that goes on: queries see what they saw.
LEMMA StageRefines ==
  ASSUME Asked, call.stage # "idle", call'.stage # "idle", call'.request = call.request,
         UNCHANGED <<hashed_items, stripped, file, before>>
  PROVE  Asked' /\ UNCHANGED Db!vars
  <1>1. PICK r, S : Serving(r, S) BY DEF Asked
  <1>2. Serving(r, S)' BY <1>1 DEF Serving
  <1>3. Asked' BY <1>2 DEF Asked
  <1>4. Seen' = Seen /\ Saved' = Saved BY DEF Seen, Saved
  <1> QED BY <1>3, <1>4 DEF Db!vars

\* A call returns: what it was asked for takes effect.
LEMMA ReturnRefines ==
  ASSUME Proper, Unlabeled, Inv, Inv', Counted', Asked, Return
  PROVE  Asked' /\ Db!Return
  <1>1. /\ call.stage = "running" /\ call' = Idle
        /\ UNCHANGED <<hashed_items, stripped, file>>
    BY DEF Return, Finish
  <1>2. PICK r, S : Serving(r, S) BY <1>1 DEF Asked
  <1>3. r \in Db!Requests /\ call.request = {r} /\ before = Records(S) /\ ItemsOf(hashed_items) = Made(r, S)
    BY <1>2 DEF Serving
  <1>4. call'.stage = "idle" /\ call'.request = {} /\ call'.phases = <<>> BY <1>1 DEF Idle
  <1>5. ~stripped' BY <1>1 DEF Inv
  <1>6. Contents' = Records(ItemsOf(hashed_items))
    <2>1. PICK bundles : bundles = bin_bundles' OBVIOUS
    <2>2. PICK t : t = tasks' OBVIOUS
    <2>3. PICK items : items = hashed_items OBVIOUS
    <2>4. items \subseteq Hashes /\ AllRight(bundles) /\ HeldRight(items, bundles, <<>>, t)
      BY <1>1, <1>4, <1>5, <2>1, <2>2, <2>3 DEF Inv
    <2>5. ItemsRight(items, bundles) BY ONLY <2>4, AtIdle
    <2>6. AllReady(bundles) BY <1>4, <2>1 DEF Counted
    <2>7. ContentsOf(bundles) = Records(ItemsOf(items)) BY ONLY Proper, <2>4, <2>5, <2>6, ContentsAtRest
    <2> QED BY <2>1, <2>3, <2>7 DEF Contents
  <1>7. Seen = Records(S) /\ Seen' = Records(Made(r, S)) BY <1>1, <1>3, <1>4, <1>6 DEF Seen
  <1>8. Seen' = IF r.op = "insert" THEN Db!Assigned(Seen, r.data) ELSE Db!Removed(Seen, r.data)
    <2>1. CASE r.op = "insert"
      <3>1. r.data \in InsertBatches BY <1>3, <2>1 DEF Db!Requests
      <3>2. PICK batch \in InsertBatches : batch = r.data BY <3>1
      <3>3. Db!Assigned(Records(S), batch) = Records(S \cup Named(batch)) BY AssignedIs
      <3> QED BY <1>7, <2>1, <3>2, <3>3 DEF Made
    <2>2. CASE r.op # "insert"
      <3>1. Db!Removed(Records(S), r.data) = Records(S \ Listed(r.data)) BY RemovedIs
      <3> QED BY <1>7, <2>2, <3>1 DEF Made
    <2> QED BY <2>1, <2>2
  <1>9. Saved' = Saved BY <1>1 DEF Saved
  <1>10. Asked' BY <1>4 DEF Asked
  <1> QED BY <1>1, <1>3, <1>4, <1>8, <1>9, <1>10 DEF Db!Return

\* The steps between calls.
LEMMA StripRefines ==
  ASSUME Proper, Inv, Counted, Asked, StripDb
  PROVE  Asked' /\ Db!Strip
  <1>1. call.stage = "idle" /\ stripped' = TRUE /\ UNCHANGED <<call, file>> BY DEF StripDb
  <1>2. SameCaches(bin_bundles', bin_bundles) BY StripCounted
  <1>3. Contents' = Contents BY <1>2, SameContents DEF Contents
  <1>4. Seen' = Seen BY <1>1, <1>3 DEF Seen
  <1>5. Saved' = Saved BY <1>1 DEF Saved
  <1>6. call.request = {} /\ Asked' BY <1>1 DEF Asked
  <1> QED BY <1>1, <1>4, <1>5, <1>6 DEF Db!Strip

\* The database is emptied.
LEMMA ClearRefines ==
  ASSUME Proper, Asked, ClearInternal
  PROVE  Asked' /\ Db!Clear
  <1>1. /\ call.stage = "idle" /\ stripped' = FALSE /\ bin_bundles' = [b \in BundleIdxs |-> <<>>]
        /\ UNCHANGED <<call, file>>
    BY DEF ClearInternal
  <1>2. PICK then : then = bin_bundles' OBVIOUS
  <1>3. Serves(then, {})
    <2>1. ASSUME NEW x \in Item, NEW l \in Locations[x] PROVE DOMAIN then[Index(l)] = {}
      <3>1. Index(l) \in BundleIdxs BY AtAStart DEF Index
      <3>2. then[Index(l)] = <<>> BY <1>1, <1>2, <3>1
      <3> QED BY <3>2
    <2> QED BY ONLY <2>1 DEF Serves
  <1>4. ContentsOf(then) = Records({})
    <2>1. LabelSize = 0 BY DEF Proper, Once
    <2>2. PICK S : S = {} OBVIOUS
    <2>3. Serves(then, S) BY <1>3, <2>2
    <2>4. ContentsOf(then) = Records(S) BY ONLY <2>1, <2>3, ContentsAre
    <2> QED BY <2>2, <2>4
  <1>5. Records({}) = {} BY DEF Records
  <1>6. Seen' = {} BY <1>1, <1>2, <1>4, <1>5 DEF Seen, Contents
  <1>7. Saved' = Saved BY <1>1 DEF Saved
  <1>8. call.request = {} /\ Asked' BY <1>1 DEF Asked
  <1> QED BY <1>1, <1>6, <1>7, <1>8 DEF Db!Clear

\* What is saved is what queries see.
LEMMA SaveRefines ==
  ASSUME Proper, Inv, Counted, Asked, SaveDb
  PROVE  Asked' /\ Db!Save
  <1>1. call.stage = "idle" /\ UNCHANGED <<hashed_items, item_count, bin_bundles, stripped, call, before>>
    BY DEF SaveDb
  <1>2. SettledRight(stripped, hashed_items, bin_bundles) BY <1>1, AtRestRight
  <1>3. /\ AllReady(bin_bundles)
        /\ ~stripped => item_count = Cardinality(hashed_items)
        /\ stripped => Known(bin_bundles, item_count)
    BY <1>1 DEF Counted
  <1>4. PICK saved : saved = [b \in BundleIdxs |-> [i \in DOMAIN bin_bundles[b] |-> Save(bin_bundles[b][i])]]
    OBVIOUS
  <1>5. PICK db : db = [hashed_items |-> hashed_items, item_count |-> item_count, stripped |-> stripped,
                        bundles |-> saved] OBVIOUS
  <1>6. file' = {db} BY <1>4, <1>5 DEF SaveDb
  <1>7. SameCaches(saved, bin_bundles) BY ONLY Proper, <1>2, <1>3, <1>4, <1>5, SaveServes
  <1>8. ContentsOf(saved) = Contents BY <1>7, SameContents DEF Contents
  <1>9. db.bundles = saved /\ db.stripped = stripped BY <1>5
  <1>10. Saved' = {[contents |-> Contents, stripped |-> stripped]} BY <1>6, <1>8, <1>9 DEF Saved
  <1>11. Seen = Contents /\ Seen' = Contents BY <1>1 DEF Seen, Contents
  <1>12. call.request = {} /\ Asked' BY <1>1 DEF Asked
  <1> QED BY <1>1, <1>10, <1>11, <1>12 DEF Db!Save

\* What is loaded is seen as it was when it was saved.
LEMMA LoadRefines ==
  ASSUME Proper, Inv, Inv', Counted, Asked, LoadDb
  PROVE  Asked' /\ Db!Load
  <1>1. call.stage = "idle" /\ UNCHANGED <<call, file>> BY DEF LoadDb
  <1>2. PICK db \in file : stripped' = db.stripped /\ SameCaches(bin_bundles', Loaded(db.bundles))
    BY LoadCounted
  <1>3. PICK bundles : bundles = db.bundles OBVIOUS
  <1>4. SameCaches(Loaded(bundles), bundles)
    <2>1. PICK loaded : loaded = Loaded(bundles) OBVIOUS
    <2>2. \A b \in BundleIdxs : /\ DOMAIN loaded[b] = DOMAIN bundles[b]
                                /\ \A i \in DOMAIN bundles[b] : loaded[b][i] = Load(bundles[b][i])
      BY <2>1 DEF Loaded
    <2>3. \A bb : Load(bb).batched_polyns = bb.batched_polyns BY DEF Load
    <2>4. \A b \in BundleIdxs : /\ DOMAIN loaded[b] = DOMAIN bundles[b]
                                /\ \A i \in DOMAIN bundles[b] :
                                     loaded[b][i].batched_polyns = bundles[b][i].batched_polyns
      BY ONLY <2>2, <2>3
    <2>5. SameCaches(loaded, bundles) BY ONLY <2>4, SamePlaces
    <2> QED BY <2>1, <2>5
  <1>5. ContentsOf(Loaded(bundles)) = ContentsOf(bundles) BY <1>4, SameContents
  <1>6. Contents' = ContentsOf(db.bundles) BY <1>2, <1>3, <1>5, SameContents DEF Contents
  <1>7. Seen' = ContentsOf(db.bundles) BY <1>1, <1>6 DEF Seen
  <1>8. PICK d \in Saved : d.contents = ContentsOf(db.bundles) /\ d.stripped = db.stripped
    <2>1. PICK d : d = [contents |-> ContentsOf(db.bundles), stripped |-> db.stripped] OBVIOUS
    <2>2. d \in Saved BY <1>2, <2>1 DEF Saved
    <2>3. d.contents = ContentsOf(db.bundles) /\ d.stripped = db.stripped BY <2>1
    <2> QED BY ONLY <2>2, <2>3
  <1>9. Saved' = Saved BY <1>1 DEF Saved
  <1>10. call.request = {} /\ Asked' BY <1>1 DEF Asked
  <1> QED BY <1>1, <1>2, <1>7, <1>8, <1>9, <1>10 DEF Db!Load

\* Every step is one of DbSpec, or none.
LEMMA NextRefines ==
  ASSUME Proper, Unlabeled, Inv, Inv', Counted, Counted', Asked, [Next]_vars
  PROVE  Asked' /\ [Db!Next]_Db!vars
  <1>1. ASSUME NEW batch \in InsertBatches, InsertOrAssign(batch) PROVE Asked' /\ Db!Call BY <1>1, InsertRefines
  <1>2. ASSUME NEW batch \in RemoveBatches, RemoveItems(batch) PROVE Asked' /\ Db!Call BY <1>2, RemoveRefines
  <1>3. ASSUME NEW b \in BundleIdxs, Work(b) PROVE Asked' /\ UNCHANGED Db!vars
    <2>1. UNCHANGED <<hashed_items, stripped, call, file, before>> BY <1>3 DEF Work
    <2>2. \E i, l, p, h : NextRight(b, i, l, p, h) BY <1>3, NextExists DEF Work
    <2>3. call.phases # <<>> BY <2>2 DEF NextRight
    <2>4. call.stage # "idle" BY <2>3 DEF Inv, CallRight
    <2>5. call' = call BY <2>1
    <2> QED BY <2>1, <2>4, <2>5, StageRefines
  <1>4. (\A b \in BundleIdxs : ~Throw(b) /\ ~LoseIndex(b)) /\ ~Rethrow /\ ~Unwound BY NothingThrows
  <1>5. CASE NextPhase
    <2>1. /\ call.stage = "running" /\ call' = [call EXCEPT !.phases = Tail(@)]
          /\ UNCHANGED <<hashed_items, stripped, file, before>>
      BY <1>5 DEF NextPhase
    <2>2. call'.stage = call.stage /\ call'.request = call.request BY <2>1 DEF Inv, CallRight
    <2> QED BY <2>1, <2>2, StageRefines
  <1>6. CASE Return BY <1>6, ReturnRefines DEF Db!Next
  <1>7. CASE StripDb BY <1>7, StripRefines DEF Db!Next
  <1>8. CASE ClearInternal BY <1>8, ClearRefines DEF Db!Next
  <1>9. CASE SaveDb BY <1>9, SaveRefines DEF Db!Next
  <1>10. CASE LoadDb BY <1>10, LoadRefines DEF Db!Next
  <1>11. CASE UNCHANGED vars
    <2>1. UNCHANGED <<hashed_items, bin_bundles, stripped, call, file, before>> BY <1>11 DEF vars
    <2>2. Seen' = Seen /\ Saved' = Saved BY <2>1 DEF Seen, Saved, Contents
    <2>3. Asked' BY <2>1 DEF Asked, Serving
    <2> QED BY <2>1, <2>2, <2>3 DEF Db!vars
  <1> QED
    BY <1>1, <1>2, <1>3, <1>4, <1>5, <1>6, <1>7, <1>8, <1>9, <1>10, <1>11 DEF Next, Db!Next

\* An unlabeled database from which only items are removed that are in it
\* implements the map DbSpec: a query sees the database before a call or
\* after it and nothing in between; a call that returns did what it was asked
\* for, strip and save change nothing that is seen, load brings it back.
THEOREM DatabaseRefines ==
  ASSUME LabelSize = 0, ~RemoveAbsent, MaxBinSize > 1,
         \A batch \in InsertBatches : \A i \in DOMAIN batch :
           batch[i] = [item |-> batch[i].item, label |-> NoLabel]
  PROVE  Spec => ImplementsDb
  <1>0. Proper /\ Unlabeled BY DEF Proper, Once, Unlabeled
  <1>1. Init => Counted BY InitCounted
  <1>2. Inv /\ Inv' /\ Counted /\ [Next]_vars => Counted' BY <1>0, NextCounted
  <1>3. Init => Asked /\ Db!Init
    <2> SUFFICES ASSUME Init PROVE Asked /\ Db!Init OBVIOUS
    <2>1. /\ call.stage = "idle" /\ call.request = {} /\ stripped = FALSE /\ file = {}
          /\ bin_bundles = [b \in BundleIdxs |-> <<>>]
      BY DEF Init, Idle
    <2>2. Serves(bin_bundles, {})
      <3>1. ASSUME NEW x \in Item, NEW l \in Locations[x] PROVE DOMAIN bin_bundles[Index(l)] = {}
        <4>1. Index(l) \in BundleIdxs BY AtAStart DEF Index
        <4>2. bin_bundles[Index(l)] = <<>> BY <2>1, <4>1
        <4> QED BY <4>2
      <3> QED BY ONLY <3>1 DEF Serves
    <2>3. Contents = {}
      <3>1. LabelSize = 0 BY <1>0 DEF Proper, Once
      <3>2. PICK bundles : bundles = bin_bundles OBVIOUS
      <3>3. PICK S : S = {} OBVIOUS
      <3>4. Serves(bundles, S) BY <2>2, <3>2, <3>3
      <3>5. ContentsOf(bundles) = Records(S) BY ONLY <3>1, <3>4, ContentsAre
      <3> QED BY <3>2, <3>3, <3>5 DEF Contents, Records
    <2> QED BY <2>1, <2>3 DEF Asked, Db!Init, Seen, Saved
  <1>4. Inv /\ Inv' /\ Counted /\ Counted' /\ Asked /\ [Next]_vars => Asked' /\ [Db!Next]_Db!vars
    BY <1>0, NextRefines
  <1>5. Spec => []Inv BY DatabaseRight
  <1> QED BY <1>1, <1>2, <1>3, <1>4, <1>5, PTL DEF Spec, ImplementsDb, Db!Spec

=============================================================================
