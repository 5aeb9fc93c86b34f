---------------------------- MODULE CuckooFilter ----------------------------
(***************************************************************************)
(* The cuckoo filter in front of a bin of a BinBundle.  The bundle adds    *)
(* each element it puts into the bin, without a look at the result, and    *)
(* removes what it takes out; when it is loaded, a new filter is filled.   *)
(* An element that the filter denies is not searched for in the bin.       *)
(*                                                                         *)
(* add kicks out tags one by one: each round of the loop is a step.  What  *)
(* cannot be placed after MaxKicks rounds is kept in the overflow entry;   *)
(* while that is used, nothing is added.                                   *)
(***************************************************************************)
EXTENDS CuckooFilterTable, Functions

CONSTANTS
  Element,    \* field elements
  Hash,       \* the two halves of the hash of an element, [high, low]
  TagHash,    \* the hash of a tag
  MaxKicks,   \* 500 in the code
  MaxLen      \* the bin has at most so many elements

CuckooFilterAssumption ==
  /\ MaxKicks \in Nat
  /\ MaxLen \in 0 .. KeyCountMax

VARIABLES
  table,
  num_items,
  overflow,
  bin,       \* how many times the bin holds each element
  moving,    \* the tag that is being placed, if any, and in which round
  loading,   \* the elements that are still to be added after a load
  refused    \* whether this filter has refused an element (a history variable)

vars == <<table, num_items, overflow, bin, moving, loading, refused>>

NoOverflow == [index |-> 0, tag |-> 0, used |-> FALSE]

Init ==
  /\ table = EmptyTable
  /\ num_items = 0
  /\ overflow = NoOverflow
  /\ bin = [x \in Element |-> 0]
  /\ moving = {}
  /\ loading = [x \in Element |-> 0]
  /\ refused = FALSE

idx_bucket_limit(value) == value % NumBuckets
tag_bit_limit(value) == IF value % 2^BitsPerTag = 0 THEN 1 ELSE value % 2^BitsPerTag

TagOf(x) == tag_bit_limit(Hash[x].low)
IndexOf(x) == idx_bucket_limit(Hash[x].high)
get_alt_index == [idx \in Buckets, tag \in Tags \ {0} |-> idx ^^ idx_bucket_limit(TagHash[tag])]

\* Both buckets where a tag that is in one of them may be.
Homes(idx, tag) == {idx, get_alt_index[idx, tag]}
HomesOf(x) == Homes(IndexOf(x), TagOf(x))

InOverflow(x) == overflow.used /\ overflow.tag = TagOf(x) /\ overflow.index \in HomesOf(x)

contains(x) ==
  \/ InOverflow(x)
  \/ find_tag_in_buckets(table, IndexOf(x), get_alt_index[IndexOf(x), TagOf(x)], TagOf(x))

Idle == moving = {} /\ \A x \in Element : loading[x] = 0

\* add, up to the loop of add_index_tag.
Add(x) ==
  IF overflow.used
  THEN refused' = TRUE /\ UNCHANGED moving
  ELSE /\ moving' = {[idx |-> IndexOf(x), tag |-> TagOf(x), round |-> 0, counts |-> 1]}
       /\ UNCHANGED refused

Insert(x) ==
  /\ Idle
  /\ FoldFunction(+, 0, bin) < MaxLen
  /\ bin' = [bin EXCEPT ![x] = @ + 1]
  /\ Add(x)
  /\ UNCHANGED <<table, num_items, overflow, loading>>

Place ==
  \E m \in moving :
    /\ m.round < MaxKicks
    /\ HasFreePlace(table, m.idx)
    /\ table' = InsertTag(table, m.idx, m.tag)
    /\ num_items' = num_items + m.counts
    /\ moving' = {}
    /\ UNCHANGED <<overflow, bin, loading, refused>>

\* The first round looks at one bucket only, the others kick out.
TryOther ==
  \E m \in moving :
    /\ m.round = 0 /\ m.round < MaxKicks
    /\ ~HasFreePlace(table, m.idx)
    /\ moving' = {[m EXCEPT !.idx = get_alt_index[m.idx, m.tag], !.round = 1]}
    /\ UNCHANGED <<table, num_items, overflow, bin, loading, refused>>

\* Mutant: the tag that is kicked out goes to the alternative of its conqueror.
KickToOther ==
  \E m \in moving, place \in Places :
    /\ m.round \in 1 .. MaxKicks - 1
    /\ ~HasFreePlace(table, m.idx)
    /\ LET kicked == KickOut(table, m.idx, m.tag, place)
       IN  /\ table' = kicked.table
           /\ moving' = {[m EXCEPT !.tag = kicked.old_tag, !.round = @ + 1,
                                   !.idx = get_alt_index[m.idx, m.tag]]}
    /\ UNCHANGED <<num_items, overflow, bin, loading, refused>>

Kick ==
  \E m \in moving, place \in Places :
    /\ m.round \in 1 .. MaxKicks - 1
    /\ ~HasFreePlace(table, m.idx)
    /\ LET kicked == KickOut(table, m.idx, m.tag, place)
       IN  /\ table' = kicked.table
           /\ moving' = {[m EXCEPT !.tag = kicked.old_tag, !.round = @ + 1,
                                   !.idx = get_alt_index[m.idx, kicked.old_tag]]}
    /\ UNCHANGED <<num_items, overflow, bin, loading, refused>>

GiveUp ==
  \E m \in moving :
    /\ m.round = MaxKicks
    /\ overflow' = [index |-> m.idx, tag |-> m.tag, used |-> TRUE]
    /\ num_items' = num_items + m.counts
    /\ moving' = {}
    /\ UNCHANGED <<table, bin, loading, refused>>

\* try_eliminate_overflow, up to the loop.
EliminateOverflow ==
  IF overflow.used
  THEN /\ overflow' = [overflow EXCEPT !.used = FALSE]
       /\ moving' = {[idx |-> overflow.index, tag |-> overflow.tag, round |-> 0, counts |-> 0]}
  ELSE UNCHANGED <<overflow, moving>>

DeleteFrom(bucket, tag) ==
  /\ table' = DeleteTag(table, bucket, tag)
  /\ num_items' = num_items - 1
  /\ EliminateOverflow

RemoveTag(idx, tag) ==
  LET alt == get_alt_index[idx, tag]
  IN  IF find_tag_in_bucket(table, idx, tag) THEN DeleteFrom(idx, tag)
      ELSE IF find_tag_in_bucket(table, alt, tag) THEN DeleteFrom(alt, tag)
      ELSE IF overflow.used /\ overflow.index \in {idx, alt} /\ overflow.tag = tag
      THEN /\ overflow' = [overflow EXCEPT !.used = FALSE]
           /\ num_items' = num_items - 1
           /\ UNCHANGED <<table, moving>>
      ELSE UNCHANGED <<table, num_items, overflow, moving>>

\* The bundle removes what the filter and then the bin have.
RemoveElement(x) ==
  /\ Idle
  /\ bin[x] > 0 /\ contains(x)
  /\ bin' = [bin EXCEPT ![x] = @ - 1]
  /\ RemoveTag(IndexOf(x), TagOf(x))
  /\ UNCHANGED <<loading, refused>>

\* The bundle is loaded, its filters are filled anew, in the order of the bin
\* (which may be any).
Load ==
  /\ Idle
  /\ \E x \in Element : bin[x] > 0
  /\ table' = EmptyTable
  /\ num_items' = 0
  /\ overflow' = NoOverflow
  /\ loading' = bin
  /\ refused' = FALSE
  /\ UNCHANGED <<bin, moving>>

LoadNext ==
  /\ moving = {}
  /\ \E x \in Element : loading[x] > 0 /\ Add(x) /\ loading' = [loading EXCEPT ![x] = @ - 1]
  /\ UNCHANGED <<table, num_items, overflow, bin>>

Progress == Place \/ TryOther \/ Kick \/ GiveUp \/ LoadNext

Next ==
  \/ \E x \in Element : Insert(x) \/ RemoveElement(x)
  \/ Load \/ Progress

Spec == Init /\ [][Next]_vars /\ WF_vars(Progress)

(***************************************************************************)
(* Properties.                                                             *)
(***************************************************************************)
TypeOK ==
  /\ table \in [DOMAIN EmptyTable -> 0 .. 2^WordBits - 1]
  /\ num_items \in 0 .. MaxLen
  /\ overflow.index \in Buckets /\ overflow.tag \in Tags
  /\ \A m \in moving : m.idx \in Buckets /\ m.tag \in Tags \ {0} /\ m.round \in 0 .. MaxKicks

Held == [b \in Buckets |-> [p \in Places |-> read_tag(table, b, p)]]

\* How many times the filter holds a tag for a pair of buckets, and how many
\* elements of the bin have it.
Stored(held, tag, homes) ==
  Cardinality({bp \in homes \X Places : held[bp[1]][bp[2]] = tag})
  + IF overflow.used /\ overflow.tag = tag /\ overflow.index \in homes THEN 1 ELSE 0

Expected(tag, homes) ==
  FoldSet(LAMBDA x, n : n + bin[x], 0, {x \in Element : TagOf(x) = tag /\ HomesOf(x) = homes})

\* Unless the filter has refused an element, its tags are those of the bin, each
\* as many times and in a bucket where it is looked for: whatever was kicked
\* around, no element is denied, and removing one leaves the others.
EveryTagKept ==
  Idle /\ ~refused =>
    LET held == Held
    IN  \A tag \in Tags \ {0}, b \in Buckets :
          Stored(held, tag, Homes(b, tag)) = Expected(tag, Homes(b, tag))

\* get_num_items is the number of tags held, also after a refusal.
CountRight ==
  Idle => LET held == Held
          IN  num_items = Cardinality({bp \in Buckets \X Places : held[bp[1]][bp[2]] # 0})
                          + IF overflow.used THEN 1 ELSE 0

\* get_iterator: "Returns an iterator pointing to the given field element in the
\* bin if found": an element of the bin is found.
ElementsFound == Idle => \A x \in Element : bin[x] > 0 => contains(x)

=============================================================================
