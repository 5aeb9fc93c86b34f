----------------------------- MODULE BinBundle ------------------------------
(***************************************************************************)
(* The data structure BinBundle of the receiver, as operators on values:   *)
(* bins of field elements, the label of each element in a parallel vector, *)
(* and a cache of the polynomials that are evaluated on a query.           *)
(*                                                                         *)
(* A polynomial is what it was computed from: the matching polynomial of a *)
(* bin from the elements (its roots), the interpolation polynomial from    *)
(* the elements and their labels.  The cuckoo filters in front of the bins *)
(* are taken to answer exactly (they are the subject of CuckooFilter).     *)
(***************************************************************************)
EXTENDS Integers, Sequences, FiniteSetsExt, SequencesExt

CONSTANTS
  NumBins,      \* bins of a bundle
  MaxBinSize,   \* max_items_per_bin
  LabelSize     \* 0: unlabeled; 1: labeled (the parts of a label are one)

BinBundleAssumption ==
  /\ NumBins \in Nat \ {0}
  /\ MaxBinSize \in Nat \ {0}
  /\ LabelSize \in {0, 1}

Bins == 0 .. NumBins - 1

NoPolyns == [items |-> <<>>, labels |-> <<>>]

ClearCache(bb) ==
  [bb EXCEPT !.felt_polyns = NoPolyns, !.batched_polyns = NoPolyns, !.cache_invalid = TRUE]

Clear(stripped) ==
  ClearCache([stripped |-> stripped,
              item_bins |-> IF stripped THEN <<>> ELSE [i \in Bins |-> <<>>],
              label_bins |-> IF stripped \/ LabelSize = 0 THEN <<>> ELSE [i \in Bins |-> <<>>],
              felt_polyns |-> NoPolyns, batched_polyns |-> NoPolyns, cache_invalid |-> TRUE])

Empty(bb) == \A i \in DOMAIN bb.item_bins : bb.item_bins[i] = <<>>

\* The bin of the k-th part of an item whose first part goes to bin start.
BinOf(start, k) == start + k - 1

HasRoom(felts, start) == felts # <<>> /\ start + Len(felts) <= NumBins

IsPresent(bb, felts, start) ==
  \A k \in DOMAIN felts : Contains(bb.item_bins[BinOf(start, k)], felts[k])

\* The position of each part in its bin: the first one, as std::find has it.
Positions(bb, felts, start) ==
  [k \in DOMAIN felts |->
     Min({j \in DOMAIN bb.item_bins[BinOf(start, k)] :
            bb.item_bins[BinOf(start, k)][j] = felts[k]})]

\* In a labeled bundle no part may be in its bin already.
Repeated(bb, felts, start) ==
  LabelSize # 0 /\ \E k \in DOMAIN felts : Contains(bb.item_bins[BinOf(start, k)], felts[k])

(***************************************************************************)
(* multi_insert.  The dry run returns the size of the largest of the bins  *)
(* after the insertion, -1 if it cannot be done.                           *)
(***************************************************************************)
DryRun(bb, felts, start) ==
  IF ~HasRoom(felts, start) \/ Repeated(bb, felts, start) THEN -1
  ELSE Max({Len(bb.item_bins[BinOf(start, k)]) + 1 : k \in DOMAIN felts})

\* The bins with f(k, bin) in place of the bin of each part k.
UpdateBins(bins, felts, start, f(_, _)) ==
  [i \in DOMAIN bins |->
     IF i - start + 1 \in DOMAIN felts THEN f(i - start + 1, bins[i]) ELSE bins[i]]

InsertForReal(bb, felts, label, start) ==
  [bb EXCEPT
     !.item_bins = UpdateBins(@, felts, start, LAMBDA k, bin : Append(bin, felts[k])),
     !.label_bins = UpdateBins(@, felts, start, LAMBDA k, bin : Append(bin, label)),
     !.cache_invalid = TRUE]

\* Mutant: the cache is left as it is, as if it depended on the items only.
OverwriteKeepsCache(bb, felts, label, start) ==
  LET at == Positions(bb, felts, start)
  IN  [bb EXCEPT
         !.label_bins = UpdateBins(@, felts, start,
                                   LAMBDA k, bin : [bin EXCEPT ![at[k]] = label])]

(***************************************************************************)
(* try_multi_overwrite, for a bundle that holds all the parts: the labels  *)
(* at their positions are replaced.                                        *)
(***************************************************************************)
OverwriteLabels(bb, felts, label, start) ==
  LET at == Positions(bb, felts, start)
  IN  [bb EXCEPT
         !.label_bins = UpdateBins(@, felts, start,
                                   LAMBDA k, bin : [bin EXCEPT ![at[k]] = label]),
         !.cache_invalid = TRUE]

\* Mutant: the last element of each bin is removed, whatever it is.
RemoveLastFelts(bb, felts, start) ==
  [bb EXCEPT
     !.item_bins = UpdateBins(@, felts, start, LAMBDA k, bin : Front(bin)),
     !.label_bins = UpdateBins(@, felts, start, LAMBDA k, bin : Front(bin)),
     !.cache_invalid = TRUE]

\* try_multi_remove, for a bundle that holds all the parts.
RemoveItem(bb, felts, start) ==
  LET at == Positions(bb, felts, start)
  IN  [bb EXCEPT
         !.item_bins = UpdateBins(@, felts, start, LAMBDA k, bin : RemoveAt(bin, at[k])),
         !.label_bins = UpdateBins(@, felts, start, LAMBDA k, bin : RemoveAt(bin, at[k])),
         !.cache_invalid = TRUE]

\* try_get_multi_label: the label of each part.
GetMultiLabel(bb, felts, start) ==
  LET at == Positions(bb, felts, start)
  IN  [k \in DOMAIN felts |-> bb.label_bins[BinOf(start, k)][at[k]]]

(***************************************************************************)
(* The cache.                                                              *)
(***************************************************************************)
RegenPolyns(bb) ==
  [bb EXCEPT !.felt_polyns = [items |-> bb.item_bins, labels |-> bb.label_bins]]

RegenPlaintexts(bb) == [bb EXCEPT !.batched_polyns = bb.felt_polyns]

RegenCache(bb) ==
  IF bb.cache_invalid
  THEN [RegenPlaintexts(RegenPolyns(ClearCache(bb))) EXCEPT !.cache_invalid = FALSE]
  ELSE bb

\* The cache a query evaluates; get_cache throws when it is stale.
GetCache(bb) == bb.batched_polyns

Strip(bb) ==
  [RegenCache(bb) EXCEPT !.stripped = TRUE, !.item_bins = <<>>, !.label_bins = <<>>,
                         !.felt_polyns = NoPolyns]

(***************************************************************************)
(* save and load.  The coefficients of a bin's matching polynomial are one *)
(* more than its elements; load refuses counts that do not fit, and in a   *)
(* debug build a labeled bin with an element twice.                        *)
(***************************************************************************)
CoeffCount(polyns) ==
  IF polyns.items = <<>> THEN 0 ELSE Max({Len(polyns.items[i]) + 1 : i \in DOMAIN polyns.items})

\* The bundle as it is written: the cache only if it is valid.
Save(bb) ==
  [stripped |-> bb.stripped, item_bins |-> bb.item_bins, label_bins |-> bb.label_bins,
   has_cache |-> ~bb.cache_invalid,
   felt_polyns |-> IF bb.cache_invalid THEN NoPolyns ELSE bb.felt_polyns,
   batched_polyns |-> IF bb.cache_invalid THEN NoPolyns ELSE bb.batched_polyns]

BinsFit(saved) ==
  ~saved.stripped =>
    /\ DOMAIN saved.item_bins = Bins
    /\ \A i \in Bins : /\ Len(saved.item_bins[i]) <= MaxBinSize
                       /\ LabelSize # 0 => IsInjective(saved.item_bins[i])

LabelsFit(saved) ==
  ~saved.stripped =>
    /\ LabelSize = 0 <=> saved.label_bins = <<>>
    /\ \A i \in DOMAIN saved.label_bins : Len(saved.label_bins[i]) = Len(saved.item_bins[i])

PolynsFit(saved) ==
  /\ ~saved.stripped => DOMAIN saved.felt_polyns.items = Bins
  /\ CoeffCount(saved.felt_polyns) <= MaxBinSize
  /\ IF saved.stripped THEN CoeffCount(saved.batched_polyns) <= MaxBinSize
     ELSE CoeffCount(saved.batched_polyns) = CoeffCount(saved.felt_polyns)

\* An interpolation polynomial has one coefficient less than the matching
\* polynomial, that is one for each item.
InterpPolynsFit(saved) ==
  LabelSize # 0 /\ ~saved.stripped =>
    /\ DOMAIN saved.felt_polyns.labels = Bins
    /\ \A i \in Bins : Len(saved.felt_polyns.labels[i]) = Len(saved.felt_polyns.items[i])

LoadAccepts(saved) ==
  /\ BinsFit(saved)
  /\ LabelsFit(saved)
  /\ saved.stripped => saved.has_cache
  /\ saved.has_cache => PolynsFit(saved) /\ InterpPolynsFit(saved)

Load(saved) ==
  [stripped |-> saved.stripped, item_bins |-> saved.item_bins,
   label_bins |-> saved.label_bins, felt_polyns |-> saved.felt_polyns,
   batched_polyns |-> saved.batched_polyns, cache_invalid |-> ~saved.has_cache]

=============================================================================
