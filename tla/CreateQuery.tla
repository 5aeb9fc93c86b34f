---------------------------- MODULE CreateQuery ----------------------------
(***************************************************************************)
(* Sender::create_query: cuckoo hashing of the items, the messages for the *)
(* transfer at the places the table gives them, and the powers of the      *)
(* table's field elements, in the order the receiver takes them apart.     *)
(* UnionQuery has its outcome in one step: any table in CuckooTables.      *)
(*                                                                         *)
(* KukuTable is external; it walks at random through the locations of the  *)
(* items it throws out.  Encoding and encryption keep the slots as they    *)
(* are.  An item is its hash: equal items have equal messages.             *)
(***************************************************************************)
EXTENDS Integers, SequencesExt

CONSTANTS
  Item, Empty,      \* Empty: the item { 0, 0 } of a place with none
  TableSize,
  ItemsPerBundle,
  Loc,              \* the locations of each item
  InsertAttempts,   \* cuckoo_table_insert_attempts
  Felts,            \* the field elements of each item, and of Empty
  PlainModulus,
  SourcePowers,     \* pd_.source_nodes()
  MaxItems          \* bound on the number of items

Column == 0 .. TableSize - 1
BundleIdxCount == TableSize \div ItemsPerBundle
Felt == 0 .. PlainModulus - 1
FeltsPerItem == Len(Felts[Empty])

CreateQueryAssumption ==
  /\ Empty \notin Item
  /\ {TableSize, ItemsPerBundle} \subseteq Nat \ {0} /\ TableSize % ItemsPerBundle = 0
  /\ Loc \in [Item -> SUBSET Column] /\ \A x \in Item : Loc[x] # {}
  /\ \A x \in Item \cup {Empty} : Felts[x] \in Seq(Felt) /\ Len(Felts[x]) = FeltsPerItem
  /\ SourcePowers \subseteq Nat \ {0}
  /\ MaxItems \in Nat

VARIABLES
  items, pc,
  item_idx,           \* of the item to be inserted; item_idx - 1 in the code
  in_hand,            \* the item KukuTable is about to place, or Empty
  level,              \* attempts it has left
  leftover,           \* leftover_item()
  table,
  sendMessages,       \* the item whose block is at each place, or Empty for zero
  itt,                \* table_idx_to_item_idx_, with 0 for none
  plain_powers,       \* for each bundle index so far
  encrypted_powers    \* for each power, its ciphertexts

cuckoo == <<item_idx, in_hand, level, leftover, table>>
messages == <<sendMessages, itt>>
powers == <<plain_powers, encrypted_powers>>
vars == <<items, pc, cuckoo, messages, powers>>

Init ==
  /\ items \in UNION {[1 .. n -> Item] : n \in 0 .. MaxItems}
  /\ pc = "hash"
  /\ item_idx = 1
  /\ in_hand = Empty
  /\ level = 0
  /\ leftover = Empty
  /\ table = [l \in Column |-> Empty]
  /\ sendMessages = [l \in Column |-> Empty]
  /\ itt = [l \in Column |-> 0]
  /\ plain_powers = <<>>
  /\ encrypted_powers = [e \in SourcePowers |-> <<>>]

-----------------------------------------------------------------------------
(* KukuTable::insert and what create_query does with its answer.           *)

\* Mutant: nothing is there already.
NeverInTable(x) == FALSE

InTable(x) == \E l \in Column : table[l] = x

BeginInsert ==
  /\ pc = "hash" /\ in_hand = Empty
  /\ item_idx <= Len(items) /\ ~InTable(items[item_idx])
  /\ in_hand' = items[item_idx]
  /\ level' = InsertAttempts
  /\ UNCHANGED <<items, pc, item_idx, leftover, table, messages, powers>>

\* insert is false; with no item left over, the item was there: go on.
SkipRepeated ==
  /\ pc = "hash" /\ in_hand = Empty
  /\ item_idx <= Len(items) /\ InTable(items[item_idx])
  /\ leftover = Empty
  /\ item_idx' = item_idx + 1
  /\ UNCHANGED <<items, pc, in_hand, level, leftover, table, messages, powers>>

Place ==
  /\ in_hand # Empty /\ level > 0
  /\ \E l \in Loc[in_hand] :
       table[l] = Empty /\ table' = [table EXCEPT ![l] = in_hand]
  /\ in_hand' = Empty
  /\ item_idx' = item_idx + 1
  /\ UNCHANGED <<items, pc, level, leftover, messages, powers>>

\* All places of the item are taken: it changes with one of the items there.
Kick ==
  /\ in_hand # Empty /\ level > 0
  /\ \A l \in Loc[in_hand] : table[l] # Empty
  /\ \E l \in Loc[in_hand] :
       table' = [table EXCEPT ![l] = in_hand] /\ in_hand' = table[l]
  /\ level' = level - 1
  /\ UNCHANGED <<items, pc, item_idx, leftover, messages, powers>>

\* insert is false with an item left over: create_query throws.
InsertFails ==
  /\ in_hand # Empty /\ level = 0
  /\ leftover' = in_hand
  /\ in_hand' = Empty
  /\ pc' = "failed"
  /\ UNCHANGED <<items, item_idx, level, table, messages, powers>>

-----------------------------------------------------------------------------

\* cuckoo.query: where the item is.
Location(x) == CHOOSE l \in Loc[x] : table[l] = x

\* What is sent for a place with no item is zero.
AssignMessages ==
  /\ pc = "hash" /\ in_hand = Empty /\ item_idx > Len(items)
  /\ sendMessages' = [l \in Column |-> Empty]
  /\ item_idx' = 1
  /\ pc' = IF items = <<>> THEN "prepare" ELSE "fill"
  /\ UNCHANGED <<items, in_hand, level, leftover, table, itt, powers>>

\* For each item in turn; the last of equal items stays.
FillMessage ==
  /\ pc = "fill"
  /\ LET temp_loc == Location(items[item_idx])
     IN  /\ itt' = [itt EXCEPT ![temp_loc] = item_idx]
         /\ sendMessages' = [sendMessages EXCEPT ![temp_loc] = items[item_idx]]
  /\ item_idx' = item_idx + 1
  /\ pc' = IF item_idx = Len(items) THEN "prepare" ELSE pc
  /\ UNCHANGED <<items, in_hand, level, leftover, table, powers>>

\* exponentiate_array: by squaring, from the lowest bit of the exponent on.
ExponentiateLoop[values \in Felt, result \in Felt, exponent \in Nat] ==
  IF exponent = 0 THEN result
  ELSE ExponentiateLoop[(values * values) % PlainModulus,
                        IF exponent % 2 = 1 THEN (values * result) % PlainModulus ELSE result,
                        exponent \div 2]

Exponentiate(values, exponent) ==
  [i \in DOMAIN values |-> ExponentiateLoop[values[i], 1 % PlainModulus, exponent]]

BundleItems(bundle_idx) ==
  [i \in 1 .. ItemsPerBundle |-> table[bundle_idx * ItemsPerBundle + i - 1]]

\* The elements of a bundle's items one after the other, and their powers.
PrepareData ==
  /\ pc = "prepare"
  /\ LET bundle_idx == Len(plain_powers)
         alg_items == FlattenSeq([i \in 1 .. ItemsPerBundle |-> Felts[BundleItems(bundle_idx)[i]]])
     IN  plain_powers' = Append(plain_powers,
                                [e \in SourcePowers |-> Exponentiate(alg_items, e)])
  /\ pc' = IF Len(plain_powers') = BundleIdxCount THEN "encrypt" ELSE pc
  /\ UNCHANGED <<items, cuckoo, messages, encrypted_powers>>

\* The ciphertexts of a bundle index go behind those of the ones before.
EncryptData ==
  /\ pc = "encrypt"
  /\ plain_powers # <<>>
  /\ encrypted_powers' =
       [e \in SourcePowers |-> Append(encrypted_powers[e], Head(plain_powers)[e])]
  /\ plain_powers' = Tail(plain_powers)
  /\ pc' = IF plain_powers' = <<>> THEN "done" ELSE pc
  /\ UNCHANGED <<items, cuckoo, messages>>

Next ==
  \/ BeginInsert \/ SkipRepeated \/ Place \/ Kick \/ InsertFails
  \/ AssignMessages \/ FillMessage \/ PrepareData \/ EncryptData

Spec == Init /\ [][Next]_vars

-----------------------------------------------------------------------------
(* Properties.                                                             *)

Hashed == pc \in {"prepare", "encrypt", "done"}

\* The items that KukuTable has been given so far.
Begun == IF pc = "fill" \/ Hashed THEN Len(items)
         ELSE IF in_hand # Empty \/ leftover # Empty THEN item_idx
         ELSE item_idx - 1

(***************************************************************************)
(* However items throw each other out, none is lost: those inserted so far *)
(* are in the table, in hand, or left over when hashing fails.             *)
(***************************************************************************)
NothingDropped ==
  {items[k] : k \in 1 .. Begun}
    = ({table[l] : l \in Column} \cup {in_hand, leftover}) \ {Empty}

(***************************************************************************)
(* The table is one of those UnionQuery chooses from: every item is in it  *)
(* once, at one of its locations, whatever items are repeated.             *)
(***************************************************************************)
QueryIsCuckoo ==
  Hashed =>
    /\ \A k \in 1 .. Len(items) : \E l \in Loc[items[k]] :
         \A m \in Column : table[m] = items[k] <=> m = l
    /\ \A l \in Column : table[l] # Empty => table[l] \in ToSet(items)

(***************************************************************************)
(* Each place has the message of the item hashed to it, and the index      *)
(* translation leads back to such an item; other places have none.         *)
(***************************************************************************)
MessagesFollow ==
  Hashed => \A l \in Column :
    /\ sendMessages[l] = table[l]
    /\ IF table[l] = Empty THEN itt[l] = 0 ELSE items[itt[l]] = table[l]

\* A query that is made has each of its items once, at one of its locations,
\* and their messages at the same places.
QueryRight == NothingDropped /\ QueryIsCuckoo /\ MessagesFollow

PowerOf[value \in Felt, exponent \in Nat] ==
  IF exponent = 0 THEN 1 % PlainModulus
  ELSE (value * PowerOf[value, exponent - 1]) % PlainModulus

(***************************************************************************)
(* What the receiver loads as power e of a bundle index has, in the slots  *)
(* of each place of the bundle, the power of the elements of the item that *)
(* is there.                                                               *)
(***************************************************************************)
SlotsRight ==
  pc = "done" =>
    \A e \in SourcePowers :
      /\ Len(encrypted_powers[e]) = BundleIdxCount
      /\ \A l \in Column, j \in 1 .. FeltsPerItem :
           encrypted_powers[e][l \div ItemsPerBundle + 1]
                              [(l % ItemsPerBundle) * FeltsPerItem + j]
             = PowerOf[Felts[table[l]][j], e]

=============================================================================
