------------------------------- MODULE Params -------------------------------
(***************************************************************************)
(* PSUParams: read from a JSON document by the receiver, checked, saved    *)
(* with its database, from which a receiver that is started again loads    *)
(* them, and into the response to a parameter request, loaded and checked  *)
(* again by the sender; and what both derive from them: how many bins a    *)
(* bundle has, and where the bins of an item are.                          *)
(***************************************************************************)
EXTENDS PowersConfig, TLC

LOCAL INSTANCE SequencesExt

CONSTANTS
  FeltsMin, FeltsMax,           \* felts_per_item_min, felts_per_item_max
  HashFuncMin, HashFuncMax,     \* hash_func_count_min, hash_func_count_max
  ItemBitsMin, ItemBitsMax,     \* item_bit_count_min, item_bit_count_max
  Version, OtherVersion,        \* serialization versions of two programs
  Numbers,                      \* bound: for each number of a document, its values
  QueryPowers                   \* bound: the sets of query powers in documents

ParamsAssumption ==
  /\ {FeltsMin, FeltsMax, HashFuncMin, HashFuncMax, ItemBitsMin, ItemBitsMax} \subseteq Nat \ {0}
  /\ {Version, OtherVersion} \subseteq Nat \ {0}
  /\ Version # OtherVersion
  /\ \A f \in DOMAIN Numbers : Numbers[f] \subseteq Nat

VARIABLES
  document,   \* the numbers and powers it gives, those left out or not numbers
  mine,       \* the receiver's parameters: {} or a singleton
  file,       \* the buffer in the saved database: {} or a singleton
  saved,      \* the buffer on its way to the sender
  theirs,     \* the sender's parameters
  thrown      \* loading threw an exception

vars == <<document, mine, file, saved, theirs, thrown>>

Fields == DOMAIN Numbers
Sections == {"table_params", "item_params", "query_params", "seal_params"}

(***************************************************************************)
(* PSUParams::initialize.  SEAL accepts its parameters if they support     *)
(* batching, here if the plain modulus is large enough for the degree.     *)
(***************************************************************************)
Batching(p) == p.plain_modulus_bits > 1 /\ p.poly_modulus_degree > 0

ItemBitCount(p) == (p.plain_modulus_bits - 1) * p.felts_per_item

ItemsPerBundle(p) == p.poly_modulus_degree \div p.felts_per_item

BinsPerBundle(p) == ItemsPerBundle(p) * p.felts_per_item
BundleIdxCount(p) == p.table_size \div ItemsPerBundle(p)

Accepted(p) ==
  /\ p.table_size # 0
  /\ p.hash_func_count \in HashFuncMin .. HashFuncMax
  /\ p.felts_per_item \in FeltsMin .. FeltsMax
  /\ ValidQueryParams(p.max_items_per_bin, p.ps_low_degree, p.query_powers)
  /\ Batching(p)
  /\ ItemBitCount(p) \in ItemBitsMin .. ItemBitsMax
  /\ ItemsPerBundle(p) # 0
  /\ p.table_size % ItemsPerBundle(p) = 0

-----------------------------------------------------------------------------
\* json_value_ui32 and get_non_null_json_value throw for what is missing or
\* no number; of plain_modulus and plain_modulus_bits there must be one.
Readable(d) == d.faulty = {} /\ d.moduli = 1

\* The power 1 is there, whether the document has it or not.
Given(d) == [f \in Fields |-> d.numbers[f]] @@ [query_powers |-> d.powers \cup {1}]

Documents ==
  [table_size : Numbers.table_size, max_items_per_bin : Numbers.max_items_per_bin,
   hash_func_count : Numbers.hash_func_count, felts_per_item : Numbers.felts_per_item,
   ps_low_degree : Numbers.ps_low_degree, poly_modulus_degree : Numbers.poly_modulus_degree,
   plain_modulus_bits : Numbers.plain_modulus_bits]

\* Bound: at most one thing is missing or no number.
Faults == {{}} \cup {{f} : f \in Fields \cup Sections}

Init ==
  /\ \E numbers \in Documents, powers \in QueryPowers, faulty \in Faults, moduli \in 0 .. 2 :
       /\ faulty = {} \/ moduli = 1
       /\ document = [numbers |-> numbers, powers |-> powers, faulty |-> faulty, moduli |-> moduli]
  /\ mine = {} /\ file = {} /\ saved = {} /\ theirs = {} /\ thrown = FALSE

\* Load from JSON, and the constructor.  A saved database is tried first.
LoadJson ==
  /\ mine = {} /\ file = {} /\ ~thrown
  /\ IF Readable(document) /\ Accepted(Given(document))
     THEN mine' = {Given(document)} /\ UNCHANGED thrown
     ELSE thrown' = TRUE /\ UNCHANGED mine
  /\ UNCHANGED <<document, file, saved, theirs>>

(***************************************************************************)
(* The buffer save writes.  A struct holds its numbers in order; a table   *)
(* leaves out a number that has the default, 0, and what is left out is    *)
(* read as that; the powers are a vector; SEAL writes its own parameters.  *)
(* What initialize derives is not written.                                 *)
(***************************************************************************)
Scalar(v) == {v} \ {0}
ScalarRead(field) == IF field = {} THEN 0 ELSE CHOOSE v \in field : TRUE

SealFields == {"poly_modulus_degree", "plain_modulus_bits"}

\* Mutant: the degree is not written.
SavedQueryPowers(p) ==
  [ps_low_degree |-> {}, query_powers |-> SetToSortSeq(p.query_powers, <)]

SavedQueryParams(p) ==
  [ps_low_degree |-> Scalar(p.ps_low_degree), query_powers |-> SetToSortSeq(p.query_powers, <)]

Saved(p, version) ==
  [version |-> Scalar(version),
   item_params |-> <<p.felts_per_item>>,
   table_params |-> <<p.table_size, p.max_items_per_bin, p.hash_func_count>>,
   query_params |-> SavedQueryParams(p),
   seal_params |-> [f \in SealFields |-> p[f]]]

SameVersion(buffer) == ScalarRead(buffer.version) = Version

Loaded(buffer) ==
  buffer.seal_params @@
  [felts_per_item |-> buffer.item_params[1],
   table_size |-> buffer.table_params[1],
   max_items_per_bin |-> buffer.table_params[2],
   hash_func_count |-> buffer.table_params[3],
   ps_low_degree |-> ScalarRead(buffer.query_params.ps_low_degree),
   query_powers |-> ToSet(buffer.query_params.query_powers)]

\* save, by a program of this version or of another.
Buffers == {Saved(p, version) : p \in mine, version \in {Version, OtherVersion}}

\* The receiver saves its database and ends.
SaveDb ==
  /\ mine # {} /\ file = {} /\ saved = {}
  /\ \E buffer \in Buffers : file' = {buffer}
  /\ mine' = {}
  /\ UNCHANGED <<document, saved, theirs, thrown>>

\* The receiver answers a parameter request.
Save ==
  /\ mine # {} /\ saved = {}
  /\ \E buffer \in Buffers : saved' = {buffer}
  /\ UNCHANGED <<document, mine, file, theirs, thrown>>

\* Load from a stream, and the constructor.
LoadFrom(buffer, loaded) ==
  IF SameVersion(buffer) /\ Accepted(Loaded(buffer))
  THEN loaded = {Loaded(buffer)} /\ UNCHANGED thrown
  ELSE loaded = {} /\ thrown' = TRUE

\* A receiver is started with the saved database.
LoadDb ==
  /\ file # {} /\ mine = {} /\ ~thrown
  /\ \E buffer \in file : LoadFrom(buffer, mine')
  /\ UNCHANGED <<document, file, saved, theirs>>

\* The sender loads the response.
LoadStream ==
  /\ saved # {} /\ theirs = {} /\ ~thrown
  /\ \E buffer \in saved : LoadFrom(buffer, theirs')
  /\ UNCHANGED <<document, mine, file, saved>>

Done == (thrown \/ theirs # {}) /\ UNCHANGED vars

Next == LoadJson \/ SaveDb \/ LoadDb \/ Save \/ LoadStream \/ Done
Spec == Init /\ [][Next]_vars

-----------------------------------------------------------------------------
(* Properties.                                                             *)

\* unpack_cuckoo_idx for the first bin of the item at a location.
BinIdx(p, location) == (location * p.felts_per_item) % BinsPerBundle(p)
BundleIdx(p, location) == (location * p.felts_per_item) \div BinsPerBundle(p)

\* With parameters that were accepted, the bins of the item at any location
\* are all in one bundle, that there is; no two locations share a bin, and
\* every bin has a slot of the ciphertexts.
LocationsFit ==
  \A p \in mine \cup theirs :
    /\ BinsPerBundle(p) <= p.poly_modulus_degree
    /\ \A l \in 0 .. p.table_size - 1 :
         /\ BundleIdx(p, l) < BundleIdxCount(p)
         /\ BinIdx(p, l) + p.felts_per_item <= BinsPerBundle(p)
         /\ BinIdx(p, l) % p.felts_per_item = 0

\* Whichever way they came, a side never refuses parameters that one of its
\* version has accepted, and all use those of the document.
SidesAgree ==
  [][/\ LoadDb /\ (\E buffer \in file : SameVersion(buffer)) => mine' = {Given(document)}
     /\ LoadStream /\ (\E buffer \in saved : SameVersion(buffer))
          => theirs' = mine /\ theirs' = {Given(document)}]_vars

=============================================================================
