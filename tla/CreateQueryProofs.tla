------------------------- MODULE CreateQueryProofs -------------------------
(***************************************************************************)
(* That a query has each of its items once and their messages at the same  *)
(* places, for all items and locations, however cuckoo hashing goes:       *)
(* Spec => []QueryRight.                                                   *)
(*                                                                         *)
(* The item in hand is not in the table, so that it changes with another   *)
(* one, and none is there twice; this makes NothingDropped inductive, and  *)
(* QueryIsCuckoo follows when nothing is in hand or left over.  While the  *)
(* messages are filled in, a place has none yet or that of its item.       *)
(***************************************************************************)
EXTENDS CreateQuery, TLAPS

Items == Item \cup {Empty}

Typed ==
  /\ items \in Seq(Item)
  /\ pc \in {"hash", "failed", "fill", "prepare", "encrypt", "done"}
  /\ item_idx \in 1 .. Len(items) + 1
  /\ in_hand \in Items /\ leftover \in Items
  /\ table \in [Column -> Items]
  /\ sendMessages \in [Column -> Items] /\ itt \in [Column -> Nat]

\* Where the algorithm is: an item in hand is the next one or one thrown out
\* for it.
Stages ==
  /\ in_hand # Empty => pc = "hash" /\ leftover = Empty
  /\ leftover # Empty <=> pc = "failed"
  /\ in_hand # Empty \/ pc \in {"failed", "fill"} => item_idx <= Len(items)

\* The items of the table are at their locations, once, and not in hand.
Located ==
  /\ \A l \in Column : table[l] # Empty => l \in Loc[table[l]]
  /\ \A l, m \in Column : table[l] # Empty /\ table[l] = table[m] => l = m
  /\ \A l \in Column : in_hand # Empty => table[l] # in_hand

\* The messages of the first n items are at their places.
FilledUpTo(n) ==
  /\ \A k \in 1 .. n : sendMessages[Location(items[k])] = items[k]
  /\ \A l \in Column :
       /\ sendMessages[l] \in {Empty, table[l]}
       /\ IF sendMessages[l] = Empty THEN itt[l] = 0
          ELSE itt[l] \in 1 .. Len(items) /\ items[itt[l]] = table[l]

Filled ==
  /\ pc \in {"hash", "failed"} => \A l \in Column : itt[l] = 0
  /\ pc = "fill" => FilledUpTo(item_idx - 1)
  /\ Hashed => FilledUpTo(Len(items))

QInv == Typed /\ Stages /\ Located /\ NothingDropped /\ Filled

-----------------------------------------------------------------------------

LEMMA InitQInv ==
  ASSUME CreateQueryAssumption, Init
  PROVE  QInv
  <1> USE DEF Init
  <1>1. PICK n \in 0 .. MaxItems : items \in [1 .. n -> Item] OBVIOUS
  <1>2. n \in Nat BY DEF CreateQueryAssumption
  <1>3. items \in Seq(Item) /\ Len(items) = n BY <1>1, <1>2
  <1>4. Typed BY <1>2, <1>3 DEF Typed, Items
  <1>5. Stages /\ Located BY DEF Stages, Located
  <1>6. NothingDropped
    <2>1. Begun = 0 BY DEF Begun, Hashed
    <2>2. {items[k] : k \in 1 .. Begun} = {} BY <2>1
    <2> QED BY <2>2 DEF NothingDropped
  <1>7. Filled BY DEF Filled, Hashed
  <1> QED BY <1>4, <1>5, <1>6, <1>7 DEF QInv

\* What NothingDropped says of one item.
LEMMA Given ==
  NothingDropped <=>
    \A x : (\E k \in 1 .. Begun : items[k] = x)
             <=> /\ x # Empty
                 /\ x = in_hand \/ x = leftover \/ \E l \in Column : table[l] = x
  BY DEF NothingDropped

\* An item to be inserted is not in the table.
LEMMA BeginInsertQInv ==
  ASSUME CreateQueryAssumption, QInv, BeginInsert
  PROVE  QInv'
  <1>1. /\ Typed /\ Stages /\ Located /\ NothingDropped /\ Filled
        /\ pc = "hash" /\ in_hand = Empty /\ leftover = Empty
        /\ item_idx <= Len(items) /\ \A l \in Column : table[l] # items[item_idx]
        /\ in_hand' = items[item_idx]
        /\ UNCHANGED <<items, pc, item_idx, leftover, table, sendMessages, itt>>
    BY DEF QInv, BeginInsert, InTable, Stages, messages
  <1>2. items[item_idx] \in Item /\ items[item_idx] # Empty
    BY <1>1 DEF Typed, CreateQueryAssumption
  <1>3. Typed' BY <1>1, <1>2 DEF Typed, Items, Column
  <1>4. Stages' /\ Located' BY <1>1, <1>2 DEF Stages, Located, Column
  <1>5. NothingDropped'
    <2>1. Begun = item_idx - 1 /\ Begun' = item_idx
      BY <1>1, <1>2 DEF Begun, Hashed
    <2>2. \A x : (\E k \in 1 .. item_idx : items[k] = x)
                   <=> (\E k \in 1 .. item_idx - 1 : items[k] = x)
                       \/ x = items[item_idx]
      BY <1>1 DEF Typed
    <2>3. \A x : (\E k \in 1 .. Begun' : items'[k] = x)
                   <=> /\ x # Empty
                       /\ x = in_hand' \/ x = leftover' \/ \E l \in Column : table'[l] = x
      BY <1>1, <1>2, <2>1, <2>2, Given
    <2> QED BY <2>3 DEF NothingDropped, Column
  <1>6. Filled' BY <1>1 DEF Filled, Hashed, FilledUpTo, Column
  <1> QED BY <1>3, <1>4, <1>5, <1>6 DEF QInv

LEMMA SkipRepeatedQInv ==
  ASSUME CreateQueryAssumption, QInv, SkipRepeated
  PROVE  QInv'
  <1>1. /\ Typed /\ Stages /\ Located /\ NothingDropped /\ Filled
        /\ pc = "hash" /\ in_hand = Empty /\ leftover = Empty
        /\ item_idx <= Len(items) /\ \E l \in Column : table[l] = items[item_idx]
        /\ item_idx' = item_idx + 1
        /\ UNCHANGED <<items, pc, in_hand, leftover, table, sendMessages, itt>>
    BY DEF QInv, SkipRepeated, InTable, Stages, messages
  <1>2. items[item_idx] \in Item /\ items[item_idx] # Empty
    BY <1>1 DEF Typed, CreateQueryAssumption
  <1>3. Typed' BY <1>1 DEF Typed, Items, Column
  <1>4. Stages' /\ Located' BY <1>1 DEF Stages, Located, Column
  <1>5. NothingDropped'
    <2>1. Begun = item_idx - 1 /\ Begun' = item_idx
      BY <1>1 DEF Begun, Hashed, Typed
    <2>2. \A x : (\E k \in 1 .. item_idx : items[k] = x)
                   <=> (\E k \in 1 .. item_idx - 1 : items[k] = x)
                       \/ x = items[item_idx]
      BY <1>1 DEF Typed
    <2>3. \A x : (\E k \in 1 .. item_idx : items[k] = x)
                   <=> /\ x # Empty
                       /\ \/ x = in_hand \/ x = leftover
                          \/ \E l \in Column : table[l] = x
      BY <1>1, <1>2, <2>1, <2>2, Given
    <2> QED BY SMTT(30), <1>1, <2>1, <2>3 DEF NothingDropped, Column
  <1>6. Filled' BY <1>1 DEF Filled, Hashed, FilledUpTo, Column
  <1> QED BY <1>3, <1>4, <1>5, <1>6 DEF QInv

LEMMA PlaceQInv ==
  ASSUME CreateQueryAssumption, QInv, Place
  PROVE  QInv'
  <1>1. PICK l \in Loc[in_hand] :
          /\ Typed /\ Stages /\ Located /\ NothingDropped /\ Filled
          /\ in_hand # Empty /\ pc = "hash" /\ leftover = Empty
          /\ table[l] = Empty /\ table' = [table EXCEPT ![l] = in_hand]
          /\ in_hand' = Empty
          /\ item_idx' = item_idx + 1 /\ item_idx <= Len(items)
          /\ UNCHANGED <<items, pc, leftover, sendMessages, itt>>
    BY DEF QInv, Place, Stages, messages
  <1>2. in_hand \in Item /\ l \in Column
    BY <1>1 DEF Typed, Items, CreateQueryAssumption
  <1>3. \A m \in Column : table'[m] = IF m = l THEN in_hand ELSE table[m]
    BY <1>1, <1>2 DEF Typed
  <1>4. Typed' BY <1>1, <1>2 DEF Typed, Items, Column
  <1>5. Stages' BY <1>1 DEF Stages
  <1>6. Located' BY <1>1, <1>2, <1>3 DEF Located, Column
  <1>7. NothingDropped'
    <2>1. Begun = item_idx /\ Begun' = item_idx
      BY <1>1 DEF Begun, Hashed, Typed
    <2>2. \A x : (\E k \in 1 .. Begun' : items'[k] = x)
                   <=> /\ x # Empty
                       /\ x = in_hand' \/ x = leftover' \/ \E m \in Column : table'[m] = x
      <3>1. \A x : x # Empty =>
              ((\E m \in Column : table'[m] = x)
                 <=> x = in_hand \/ \E m \in Column : table[m] = x)
        BY <1>1, <1>2, <1>3
      <3>2. \A x : (\E k \in 1 .. item_idx : items[k] = x)
                     <=> x # Empty /\ (x = in_hand \/ \E m \in Column : table[m] = x)
        BY <1>1, <2>1, Given
      <3> QED BY <1>1, <2>1, <3>1, <3>2
    <2> QED BY <2>2 DEF NothingDropped, Column
  <1>8. Filled' BY <1>1 DEF Filled, Hashed
  <1> QED BY <1>4, <1>5, <1>6, <1>7, <1>8 DEF QInv

\* The item thrown out was in the table once, and so it no longer is there.
LEMMA KickQInv ==
  ASSUME CreateQueryAssumption, QInv, Kick
  PROVE  QInv'
  <1>1. PICK l \in Loc[in_hand] :
          /\ Typed /\ Stages /\ Located /\ NothingDropped /\ Filled
          /\ in_hand # Empty /\ pc = "hash" /\ leftover = Empty
          /\ table[l] # Empty /\ table' = [table EXCEPT ![l] = in_hand]
          /\ in_hand' = table[l]
          /\ UNCHANGED <<items, pc, item_idx, leftover, sendMessages, itt>>
    BY DEF QInv, Kick, Stages, messages
  <1>2. in_hand \in Item /\ l \in Column
    BY <1>1 DEF Typed, Items, CreateQueryAssumption
  <1>3. \A m \in Column : table'[m] = IF m = l THEN in_hand ELSE table[m]
    BY <1>1, <1>2 DEF Typed
  <1>4. Typed' BY <1>1, <1>2 DEF Typed, Items, Column
  <1>5. Stages' BY <1>1 DEF Stages
  <1>6. Located' BY <1>1, <1>2, <1>3 DEF Located, Column
  <1>7. NothingDropped'
    <2>1. Begun = item_idx /\ Begun' = item_idx
      BY <1>1 DEF Begun, Hashed, Typed
    <2>2. \A x : (\E k \in 1 .. Begun' : items'[k] = x)
                   <=> /\ x # Empty
                       /\ x = in_hand' \/ x = leftover' \/ \E m \in Column : table'[m] = x
      BY <1>1, <1>2, <1>3, <2>1, Given
    <2> QED BY <2>2 DEF NothingDropped, Column
  <1>8. Filled' BY <1>1 DEF Filled, Hashed
  <1> QED BY <1>4, <1>5, <1>6, <1>7, <1>8 DEF QInv

LEMMA InsertFailsQInv ==
  ASSUME CreateQueryAssumption, QInv, InsertFails
  PROVE  QInv'
  <1>1. /\ Typed /\ Stages /\ Located /\ NothingDropped /\ Filled
        /\ in_hand # Empty /\ pc = "hash" /\ leftover = Empty
        /\ leftover' = in_hand /\ in_hand' = Empty /\ pc' = "failed"
        /\ item_idx <= Len(items)
        /\ UNCHANGED <<items, item_idx, table, sendMessages, itt>>
    BY DEF QInv, InsertFails, Stages, messages
  <1>2. Typed' BY <1>1 DEF Typed, Items, Column
  <1>3. Stages' /\ Located' BY <1>1 DEF Stages, Located, Column
  <1>4. NothingDropped'
    <2>1. Begun = item_idx /\ Begun' = item_idx
      BY <1>1 DEF Begun, Hashed
    <2>2. \A x : (\E k \in 1 .. Begun' : items'[k] = x)
                   <=> /\ x # Empty
                       /\ x = in_hand' \/ x = leftover' \/ \E m \in Column : table'[m] = x
      BY <1>1, <2>1, Given
    <2> QED BY <2>2 DEF NothingDropped, Column
  <1>5. Filled' BY <1>1 DEF Filled, Hashed, Column
  <1> QED BY <1>2, <1>3, <1>4, <1>5 DEF QInv

LEMMA AssignMessagesQInv ==
  ASSUME CreateQueryAssumption, QInv, AssignMessages
  PROVE  QInv'
  <1>1. /\ Typed /\ Stages /\ Located /\ NothingDropped /\ Filled
        /\ pc = "hash" /\ in_hand = Empty /\ leftover = Empty
        /\ item_idx > Len(items) /\ item_idx' = 1
        /\ sendMessages' = [l \in Column |-> Empty]
        /\ pc' = IF items = <<>> THEN "prepare" ELSE "fill"
        /\ UNCHANGED <<items, in_hand, leftover, table, itt>>
    BY DEF QInv, AssignMessages, Stages
  <1>2. Len(items) \in Nat /\ item_idx = Len(items) + 1
    BY <1>1 DEF Typed
  <1>3. Typed' BY <1>1, <1>2 DEF Typed, Items, Column
  <1>4. Stages' /\ Located'
    <2>1. items # <<>> => Len(items) >= 1 BY <1>1 DEF Typed
    <2> QED BY <1>1, <2>1 DEF Stages, Located, Column
  <1>5. NothingDropped'
    <2>1. Begun = Len(items) /\ Begun' = Len(items)
      BY <1>1, <1>2 DEF Begun, Hashed
    <2> QED BY SMTT(30), <1>1, <2>1 DEF NothingDropped, Column
  <1>6. Filled'
    <2>1. \A l \in Column : sendMessages'[l] = Empty /\ itt'[l] = 0
      BY <1>1 DEF Filled, Column
    <2>2. /\ pc' = "fill" => item_idx' - 1 = 0
          /\ Hashed' => Len(items') = 0
          /\ pc' \notin {"hash", "failed"}
      BY <1>1 DEF Hashed
    <2>3. FilledUpTo(0)' BY <2>1 DEF FilledUpTo, Column
    <2>4. pc' = "fill" => FilledUpTo(item_idx - 1)' BY <2>2, <2>3
    <2>5. Hashed' => FilledUpTo(Len(items))' BY <2>2, <2>3
    <2> QED BY <2>2, <2>4, <2>5 DEF Filled
  <1> QED BY <1>3, <1>4, <1>5, <1>6 DEF QInv

\* When nothing is in hand or left over, all items begun are in the table.
LEMMA LocationFound ==
  ASSUME CreateQueryAssumption, QInv, in_hand = Empty, leftover = Empty,
         NEW k \in 1 .. Begun, k <= Len(items)
  PROVE  /\ items[k] \in Item
         /\ Location(items[k]) \in Loc[items[k]] /\ Location(items[k]) \in Column
         /\ table[Location(items[k])] = items[k]
  <1>1. Typed /\ Located /\ NothingDropped BY DEF QInv
  <1>2. items[k] \in Item BY <1>1 DEF Typed, Begun
  <1>3. PICK l \in Column : table[l] = items[k] BY <1>1, Given
  <1>4. l \in Loc[items[k]] BY <1>1, <1>2, <1>3 DEF Located, CreateQueryAssumption
  <1>5. Location(items[k]) \in Loc[items[k]] /\ table[Location(items[k])] = items[k]
    BY <1>3, <1>4 DEF Location
  <1> QED BY <1>2, <1>5 DEF CreateQueryAssumption

LEMMA FillMessageQInv ==
  ASSUME CreateQueryAssumption, QInv, FillMessage
  PROVE  QInv'
  <1> DEFINE temp_loc == Location(items[item_idx])
  <1>1. /\ Typed /\ Stages /\ Located /\ NothingDropped /\ Filled
        /\ pc = "fill" /\ in_hand = Empty /\ leftover = Empty
        /\ item_idx <= Len(items) /\ item_idx' = item_idx + 1
        /\ itt' = [itt EXCEPT ![temp_loc] = item_idx]
        /\ sendMessages' = [sendMessages EXCEPT ![temp_loc] = items[item_idx]]
        /\ pc' = IF item_idx = Len(items) THEN "prepare" ELSE pc
        /\ UNCHANGED <<items, in_hand, leftover, table>>
    BY DEF QInv, FillMessage, Stages, cuckoo
  <1>2. item_idx \in 1 .. Len(items) /\ Len(items) \in Nat /\ Begun = Len(items)
    BY <1>1 DEF Typed, Begun
  <1>3. \A k \in 1 .. Len(items) :
          /\ items[k] \in Item
          /\ Location(items[k]) \in Column /\ table[Location(items[k])] = items[k]
    BY <1>1, <1>2, LocationFound
  <1>4. \A k \in 1 .. Len(items) : Location(items[k])' = Location(items[k])
    BY <1>1 DEF Location
  <1> HIDE DEF temp_loc
  <1>5. temp_loc \in Column /\ table[temp_loc] = items[item_idx] /\ items[item_idx] \in Item
    BY <1>2, <1>3 DEF temp_loc
  <1>6. \A l \in Column :
          /\ itt'[l] = IF l = temp_loc THEN item_idx ELSE itt[l]
          /\ sendMessages'[l] = IF l = temp_loc THEN items[item_idx] ELSE sendMessages[l]
    BY <1>1, <1>5 DEF Typed
  <1>7. Typed' BY <1>1, <1>2, <1>5 DEF Typed, Items, Column
  <1>8. Stages' /\ Located' BY <1>1, <1>2 DEF Stages, Located, Column
  <1>9. NothingDropped'
    <2>1. Begun' = Len(items) BY <1>1 DEF Begun, Hashed
    <2>2. {items'[k] : k \in 1 .. Begun'} = {items[k] : k \in 1 .. Begun}
      BY <1>1, <1>2, <2>1
    <2>3. {table'[l] : l \in Column} = {table[l] : l \in Column} BY <1>1
    <2> QED BY <1>1, <2>2, <2>3 DEF NothingDropped, Column
  <1>10. FilledUpTo(item_idx - 1)'
    <2>1. FilledUpTo(item_idx - 1) BY <1>1 DEF Filled
    <2>2. ASSUME NEW k \in 1 .. item_idx
          PROVE  sendMessages'[Location(items[k])] = items[k]
      <3>1. CASE Location(items[k]) = temp_loc
        BY <1>2, <1>3, <1>5, <1>6, <3>1
      <3>2. CASE Location(items[k]) # temp_loc
        <4>1. k \in 1 .. item_idx - 1 BY <1>2, <3>2 DEF temp_loc
        <4> QED BY <1>2, <1>3, <1>6, <2>1, <3>2, <4>1 DEF FilledUpTo
      <3> QED BY <3>1, <3>2
    <2>3. ASSUME NEW l \in Column
          PROVE  /\ sendMessages'[l] \in {Empty, table[l]}
                 /\ IF sendMessages'[l] = Empty THEN itt'[l] = 0
                    ELSE itt'[l] \in 1 .. Len(items) /\ items[itt'[l]] = table[l]
      <3>1. items[item_idx] # Empty BY <1>5 DEF CreateQueryAssumption
      <3> QED BY <1>2, <1>5, <1>6, <2>1, <3>1 DEF FilledUpTo
    <2>4. \A k \in 1 .. item_idx' - 1 : sendMessages'[Location(items[k])'] = items'[k]
      BY <1>1, <1>2, <1>4, <2>2
    <2> QED BY <1>1, <2>3, <2>4 DEF FilledUpTo, Column
  <1>11. Filled'
    <2>1. CASE item_idx = Len(items)
      <3>1. pc' = "prepare" /\ item_idx' - 1 = Len(items')
        BY <1>1, <1>2, <2>1
      <3>2. FilledUpTo(Len(items))' BY <1>10, <3>1
      <3> QED BY <3>1, <3>2 DEF Filled, Hashed
    <2>2. CASE item_idx # Len(items)
      <3>1. pc' = "fill" BY <1>1, <2>2
      <3> QED BY <1>10, <3>1 DEF Filled, Hashed
    <2> QED BY <2>1, <2>2
  <1> QED BY <1>7, <1>8, <1>9, <1>11 DEF QInv

\* What is prepared and encrypted is not part of the invariant.
LEMMA EncryptQInv ==
  ASSUME CreateQueryAssumption, QInv, PrepareData \/ EncryptData
  PROVE  QInv'
  <1>1. /\ Typed /\ Stages /\ Located /\ NothingDropped /\ Filled
        /\ pc \in {"prepare", "encrypt"} /\ pc' \in {"prepare", "encrypt", "done"}
        /\ UNCHANGED <<items, item_idx, in_hand, leftover, table, sendMessages, itt>>
    BY DEF QInv, PrepareData, EncryptData, cuckoo, messages
  <1>2. Typed' BY <1>1 DEF Typed, Column
  <1>3. Stages' /\ Located' BY <1>1 DEF Stages, Located, Column
  <1>4. Hashed /\ Hashed' BY <1>1 DEF Hashed
  <1>5. NothingDropped'
    <2>1. Begun' = Begun BY <1>1, <1>4 DEF Begun
    <2> QED BY <1>1, <2>1 DEF NothingDropped, Column
  <1>6. FilledUpTo(Len(items))' BY <1>1, <1>4 DEF Filled, FilledUpTo, Location, Column
  <1>7. Filled' BY <1>1, <1>6 DEF Filled, Hashed
  <1> QED BY <1>2, <1>3, <1>5, <1>7 DEF QInv

LEMMA StutterQInv ==
  ASSUME QInv, UNCHANGED vars
  PROVE  QInv'
  <1>1. /\ Typed /\ Stages /\ Located /\ NothingDropped /\ Filled
        /\ UNCHANGED <<items, pc, item_idx, in_hand, leftover, table, sendMessages, itt>>
    BY DEF QInv, vars, cuckoo, messages
  <1>2. Typed' /\ Stages' /\ Located' BY <1>1 DEF Typed, Stages, Located, Column
  <1>3. NothingDropped' BY <1>1 DEF NothingDropped, Begun, Hashed, Column
  <1>4. pc = "fill" => FilledUpTo(item_idx - 1)'
    BY <1>1 DEF Filled, FilledUpTo, Location, Column
  <1>5. Hashed => FilledUpTo(Len(items))'
    BY <1>1 DEF Filled, FilledUpTo, Location, Column
  <1>6. Filled' BY <1>1, <1>4, <1>5 DEF Filled, Hashed
  <1> QED BY <1>2, <1>3, <1>6 DEF QInv

LEMMA NextQInv ==
  ASSUME CreateQueryAssumption, QInv, [Next]_vars
  PROVE  QInv'
  <1>1. CASE BeginInsert BY <1>1, BeginInsertQInv
  <1>2. CASE SkipRepeated BY <1>2, SkipRepeatedQInv
  <1>3. CASE Place BY <1>3, PlaceQInv
  <1>4. CASE Kick BY <1>4, KickQInv
  <1>5. CASE InsertFails BY <1>5, InsertFailsQInv
  <1>6. CASE AssignMessages BY <1>6, AssignMessagesQInv
  <1>7. CASE FillMessage BY <1>7, FillMessageQInv
  <1>8. CASE PrepareData \/ EncryptData BY <1>8, EncryptQInv
  <1>9. CASE UNCHANGED vars BY <1>9, StutterQInv
  <1> QED BY <1>1, <1>2, <1>3, <1>4, <1>5, <1>6, <1>7, <1>8, <1>9 DEF Next

LEMMA QInvRight ==
  ASSUME CreateQueryAssumption, QInv
  PROVE  QueryRight
  <1>1. Typed /\ Stages /\ Located /\ NothingDropped /\ Filled BY DEF QInv
  <1>2. SUFFICES ASSUME Hashed PROVE QueryIsCuckoo /\ MessagesFollow
    BY <1>1 DEF QueryRight, QueryIsCuckoo, MessagesFollow
  <1>3. in_hand = Empty /\ leftover = Empty /\ Begun = Len(items) /\ Len(items) \in Nat
    BY <1>1, <1>2 DEF Hashed, Stages, Begun, Typed
  <1>4. \A k \in 1 .. Len(items) :
          /\ items[k] \in Item /\ Location(items[k]) \in Loc[items[k]]
          /\ Location(items[k]) \in Column /\ table[Location(items[k])] = items[k]
    BY <1>3, LocationFound
  <1>5. \A l \in Column : table[l] # Empty => \E k \in 1 .. Len(items) : items[k] = table[l]
    BY <1>1, <1>3, Given
  <1>6. \A k \in 1 .. Len(items), m \in Column :
          table[m] = items[k] <=> m = Location(items[k])
    BY <1>1, <1>4 DEF Located, CreateQueryAssumption
  <1>7. QueryIsCuckoo
    <2>1. \A k \in 1 .. Len(items) : \E l \in Loc[items[k]] :
            \A m \in Column : table[m] = items[k] <=> m = l
      BY <1>4, <1>6
    <2>2. \A l \in Column : table[l] # Empty => table[l] \in ToSet(items)
      BY <1>1, <1>5 DEF ToSet, Typed
    <2> QED BY <2>1, <2>2 DEF QueryIsCuckoo
  <1>8. MessagesFollow
    <2>1. FilledUpTo(Len(items)) BY <1>1, <1>2 DEF Filled
    <2>2. ASSUME NEW l \in Column
          PROVE  /\ sendMessages[l] = table[l]
                 /\ IF table[l] = Empty THEN itt[l] = 0 ELSE items[itt[l]] = table[l]
      <3>1. CASE table[l] = Empty BY <2>1, <3>1 DEF FilledUpTo
      <3>2. CASE table[l] # Empty
        <4>1. PICK k \in 1 .. Len(items) : items[k] = table[l] BY <1>5, <3>2
        <4>2. l = Location(items[k]) BY <1>6, <4>1
        <4>3. sendMessages[l] = table[l] BY <2>1, <4>1, <4>2 DEF FilledUpTo
        <4> QED BY <2>1, <3>2, <4>3 DEF FilledUpTo
      <3> QED BY <3>1, <3>2
    <2> QED BY <2>2 DEF MessagesFollow
  <1> QED BY <1>7, <1>8

(***************************************************************************)
(* The inductive invariant QInv, and with it that Sender::create_query     *)
(* drops no item while KukuTable hashes them, that a query which is made   *)
(* has each item once, at one of its locations, and that the messages and  *)
(* the index translation are at the places of their items.                 *)
(***************************************************************************)
THEOREM QueryMade ==
  ASSUME CreateQueryAssumption
  PROVE  Spec => []QueryRight
  <1>1. Init => QInv BY InitQInv
  <1>2. QInv /\ [Next]_vars => QInv' BY NextQInv
  <1>3. QInv => QueryRight BY QInvRight
  <1> QED BY <1>1, <1>2, <1>3, PTL DEF Spec

=============================================================================
