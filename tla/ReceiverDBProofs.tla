-------------------------- MODULE ReceiverDBProofs --------------------------
(***************************************************************************)
(* What holds of the receiver's database whatever its items, its table and *)
(* the calls it serves, and whether tasks throw or not.                    *)
(*                                                                         *)
(* A bundle is a set of bins, each a list of field elements, and says      *)
(* nowhere which items it has: an item is there if all its parts are, and  *)
(* the parts of one item could be those of several others.  The invariant  *)
(* therefore has more than the code writes down: in every row of bins the  *)
(* elements can be assigned to items, one of each item's parts in each bin *)
(* (Laid, for a set of tokens that stand for the items), and then no other *)
(* item's parts are all there, as parts do not mix.  Insertion adds a      *)
(* token, removal takes one away, whichever of several equal elements it   *)
(* erases.                                                                 *)
(*                                                                         *)
(* The second half is about time: hashed_items_ changes when a call begins *)
(* and the bundles follow task by task, so that an item of the set is at   *)
(* each location or awaited there (HeldRight), for the phases that are     *)
(* left.  What a task throws over is removed from the set already.         *)
(***************************************************************************)
EXTENDS ReceiverDB, SequenceTheorems, FiniteSetTheorems, WellFoundedInduction, TLAPS

-----------------------------------------------------------------------------
(* Least and greatest numbers.                                             *)

\* The order in which a least number is found.
Less == OpToRel(<, Nat)

\* It is the usual order.
LEMMA LessMeans == \A x, y \in Nat : <<y, x>> \in Less <=> y < x
  BY DEF Less, OpToRel

\* A set of natural numbers has a least one.
LEMMA Least ==
  ASSUME NEW S, S \subseteq Nat, S # {}
  PROVE  \E x \in S : \A y \in S : x <= y
  <1>1. IsWellFoundedOn(Less, Nat) BY NatLessThanWellFounded DEF Less
  <1>2. PICK x \in S : \A y \in S : ~ (<<y, x>> \in Less) BY <1>1, WFMin
  <1>3. ASSUME NEW y \in S PROVE x <= y
    <2>1. x \in Nat /\ y \in Nat OBVIOUS
    <2>2. ~ (<<y, x>> \in Less) BY <1>2
    <2>3. ~ (y < x) BY <2>1, <2>2, LessMeans
    <2> QED BY <2>1, <2>3
  <1> QED BY <1>3

\* A bounded set of natural numbers has a greatest one.
LEMMA Greatest ==
  ASSUME NEW S, NEW m \in Nat, S \subseteq 0..m, S # {}
  PROVE  \E x \in S : \A y \in S : y <= x
  <1> DEFINE T == {m - y : y \in S}
  <1>1. T \subseteq Nat
    <2>1. \A y \in S : m - y \in Nat OBVIOUS
    <2> QED BY <2>1
  <1>2. T # {} OBVIOUS
  <1>3. PICK z \in T : \A y \in T : z <= y BY <1>1, <1>2, Least
  <1>4. PICK x \in S : z = m - x OBVIOUS
  <1>5. \A y \in S : m - x <= m - y BY <1>3, <1>4
  <1> QED BY <1>5

-----------------------------------------------------------------------------
(* Sequences.                                                              *)

\* What is left of a sequence when an element is taken out.
LEMMA RemoveAtProperties ==
  ASSUME NEW S, NEW seq \in Seq(S), NEW p \in 1 .. Len(seq)
  PROVE  /\ RemoveAt(seq, p) \in Seq(S)
         /\ Len(RemoveAt(seq, p)) = Len(seq) - 1
         /\ \A i \in 1 .. Len(seq) - 1 :
              RemoveAt(seq, p)[i] = IF i < p THEN seq[i] ELSE seq[i + 1]
  <1> DEFINE n == Len(seq)
             front == SubSeq(seq, 1, p - 1)
             back == SubSeq(seq, p + 1, n)
  <1>1. n \in Nat /\ p \in 1 .. n /\ \A i \in 1 .. n : seq[i] \in S
    BY LenProperties, ElementOfSeq
  <1> HIDE DEF n
  <1>2. \A i \in 1 .. p - 1 : seq[i] \in S BY <1>1
  <1>3. \A i \in p + 1 .. n : seq[i] \in S BY <1>1
  <1>4. /\ front \in Seq(S)
        /\ Len(front) = p - 1
        /\ \A i \in 1 .. p - 1 : front[i] = seq[i]
    <2>1. 1 \in Int /\ p - 1 \in Int BY <1>1
    <2>2. /\ front \in Seq(S)
          /\ Len(front) = IF 1 <= p - 1 THEN p - 1 - 1 + 1 ELSE 0
          /\ \A i \in 1 .. p - 1 - 1 + 1 : front[i] = seq[1 + i - 1]
      BY <1>2, <2>1, SubSeqProperties
    <2> HIDE DEF front
    <2>3. Len(front) = p - 1 BY <1>1, <2>2
    <2>4. \A i \in 1 .. p - 1 : i \in 1 .. p - 1 - 1 + 1 /\ 1 + i - 1 = i BY <1>1
    <2> QED BY <2>2, <2>3, <2>4
  <1>5. /\ back \in Seq(S)
        /\ Len(back) = n - p
        /\ \A i \in 1 .. n - p : back[i] = seq[p + i]
    <2>1. p + 1 \in Int /\ n \in Int BY <1>1
    <2>2. /\ back \in Seq(S)
          /\ Len(back) = IF p + 1 <= n THEN n - (p + 1) + 1 ELSE 0
          /\ \A i \in 1 .. n - (p + 1) + 1 : back[i] = seq[p + 1 + i - 1]
      BY <1>3, <2>1, SubSeqProperties
    <2> HIDE DEF back
    <2>3. Len(back) = n - p BY <1>1, <2>2
    <2>4. \A i \in 1 .. n - p : i \in 1 .. n - (p + 1) + 1 /\ p + 1 + i - 1 = p + i BY <1>1
    <2> QED BY <2>2, <2>3, <2>4
  <1> HIDE DEF front, back
  <1>6. /\ front \o back \in Seq(S)
        /\ Len(front \o back) = Len(front) + Len(back)
        /\ \A i \in 1 .. Len(front) + Len(back) :
             (front \o back)[i] = IF i <= Len(front) THEN front[i] ELSE back[i - Len(front)]
    BY <1>4, <1>5, ConcatProperties
  <1>7. Len(front) + Len(back) = n - 1 BY <1>1, <1>4, <1>5
  <1>8. ASSUME NEW i \in 1 .. n - 1
        PROVE  (front \o back)[i] = IF i < p THEN seq[i] ELSE seq[i + 1]
    <2>1. CASE i < p
      <3>1. i <= Len(front) /\ i \in 1 .. p - 1 BY <2>1, <1>1, <1>4
      <3>2. (front \o back)[i] = front[i] BY <1>6, <1>7, <3>1
      <3> QED BY <3>1, <3>2, <2>1, <1>4
    <2>2. CASE ~ (i < p)
      <3>1. ~ (i <= Len(front)) /\ i - (p - 1) \in 1 .. n - p /\ p + (i - (p - 1)) = i + 1
        BY <2>2, <1>1, <1>4
      <3>2. (front \o back)[i] = back[i - (p - 1)] BY <1>6, <1>7, <3>1, <1>4
      <3> QED BY <3>1, <3>2, <2>2, <1>5
    <2> QED BY <2>1, <2>2
  <1>9. RemoveAt(seq, p) = front \o back BY DEF RemoveAt, front, back, n
  <1> QED BY <1>6, <1>7, <1>8, <1>9 DEF n

-----------------------------------------------------------------------------
(* A row of bins holds items: the parts of each item are in the bins of    *)
(* the row, each in a place of its own.                                    *)

\* The places of the k-th parts of what a set of tokens stands for.
Laid(bin, k, T, held) ==
  \E at \in [1 .. Len(bin) -> T] :
    /\ \A i, j \in 1 .. Len(bin) : at[i] = at[j] => i = j
    /\ \A t \in T : \E i \in 1 .. Len(bin) : at[i] = t
    /\ \A i \in 1 .. Len(bin) : bin[i] = Felts(held[at[i]])[k]

\* An empty bin is laid out for nothing.
LEMMA LaidEmpty ==
  ASSUME NEW k, NEW held
  PROVE  Laid(<<>>, k, {}, held)
  <1>1. Len(<<>>) = 0 OBVIOUS
  <1>2. 1 .. 0 = {} OBVIOUS
  <1>3. [i \in 1 .. 0 |-> 0] \in [1 .. 0 -> {}] BY <1>2
  <1> QED BY <1>1, <1>2, <1>3 DEF Laid

\* An element more at the end is that of one token more.
LEMMA LaidAppend ==
  ASSUME NEW S, NEW bin \in Seq(S), NEW k, NEW T, NEW held, Laid(bin, k, T, held),
         NEW t, t \notin T, NEW now, \A u \in T : now[u] = held[u],
         Felts(now[t])[k] \in S
  PROVE  Laid(Append(bin, Felts(now[t])[k]), k, T \cup {t}, now)
  <1> DEFINE f == Felts(now[t])[k]
             n == Len(bin)
             more == Append(bin, f)
  <1>1. PICK at \in [1 .. n -> T] :
          /\ \A i, j \in 1 .. n : at[i] = at[j] => i = j
          /\ \A u \in T : \E i \in 1 .. n : at[i] = u
          /\ \A i \in 1 .. n : bin[i] = Felts(held[at[i]])[k]
    BY DEF Laid
  <1>2. n \in Nat BY LenProperties
  <1>3. /\ Len(more) = n + 1
        /\ \A i \in 1 .. n : more[i] = bin[i]
        /\ more[n + 1] = f
    BY AppendProperties
  <1> HIDE DEF n, f, more
  <1> DEFINE then == [i \in 1 .. n + 1 |-> IF i = n + 1 THEN t ELSE at[i]]
  <1>4. \A i \in 1 .. n + 1 : i = n + 1 \/ (i \in 1 .. n /\ i # n + 1) BY <1>2
  <1>5. then \in [1 .. n + 1 -> T \cup {t}] BY <1>4
  <1>6. \A i \in 1 .. n : then[i] = at[i] /\ at[i] \in T BY <1>2
  <1>7. then[n + 1] = t BY <1>2
  <1> HIDE DEF then
  <1>8. ASSUME NEW i \in 1 .. n + 1, NEW j \in 1 .. n + 1, then[i] = then[j]
        PROVE  i = j
    BY <1>1, <1>4, <1>6, <1>7, <1>8
  <1>9. ASSUME NEW u \in T \cup {t}
        PROVE  \E i \in 1 .. n + 1 : then[i] = u
    <2>1. CASE u = t
      <3>1. n + 1 \in 1 .. n + 1 BY <1>2
      <3> QED BY <2>1, <1>7, <3>1
    <2>2. CASE u \in T
      <3>1. PICK i \in 1 .. n : at[i] = u BY <2>2, <1>1
      <3>2. i \in 1 .. n + 1 BY <1>2
      <3> QED BY <1>6, <3>1, <3>2
    <2> QED BY <2>1, <2>2
  <1>10. ASSUME NEW i \in 1 .. n + 1
         PROVE  more[i] = Felts(now[then[i]])[k]
    <2>1. CASE i = n + 1 BY <2>1, <1>3, <1>7 DEF f
    <2>2. CASE i \in 1 .. n
      <3>1. now[at[i]] = held[at[i]] BY <1>6, <2>2
      <3> QED BY <2>2, <1>1, <1>3, <1>6, <3>1
    <2> QED BY <2>1, <2>2, <1>4
  <1> QED BY <1>3, <1>5, <1>8, <1>9, <1>10 DEF Laid, more, f

\* Whichever place the part is taken from, if it is that of an item held.
LEMMA LaidRemove ==
  ASSUME NEW S, NEW bin \in Seq(S), NEW k, NEW T, NEW held, Laid(bin, k, T, held),
         NEW t \in T, NEW p \in 1 .. Len(bin), bin[p] = Felts(held[t])[k]
  PROVE  Laid(RemoveAt(bin, p), k, T \ {t}, held)
  <1> DEFINE n == Len(bin)
             less == RemoveAt(bin, p)
             old(i) == IF i < p THEN i ELSE i + 1
  <1>1. PICK at \in [1 .. n -> T] :
          /\ \A i, j \in 1 .. n : at[i] = at[j] => i = j
          /\ \A u \in T : \E i \in 1 .. n : at[i] = u
          /\ \A i \in 1 .. n : bin[i] = Felts(held[at[i]])[k]
    BY DEF Laid
  <1>2. n \in Nat /\ p \in 1 .. n BY LenProperties
  <1>3. /\ Len(less) = n - 1
        /\ \A i \in 1 .. n - 1 : less[i] = IF i < p THEN bin[i] ELSE bin[i + 1]
    BY RemoveAtProperties
  <1>4. PICK q \in 1 .. n : at[q] = t BY <1>1
  <1> HIDE DEF n, less
  <1>5. \A i \in 1 .. n - 1 : old(i) \in 1 .. n /\ old(i) # p BY <1>2
  <1>6. \A i, j \in 1 .. n - 1 : old(i) = old(j) => i = j BY <1>2
  <1>7. \A i \in 1 .. n : i # p => \E j \in 1 .. n - 1 : old(j) = i
    <2>1. ASSUME NEW i \in 1 .. n, i # p PROVE \E j \in 1 .. n - 1 : old(j) = i
      <3>1. CASE i < p
        <4>1. i \in 1 .. n - 1 /\ old(i) = i BY <1>2, <3>1
        <4> QED BY <4>1
      <3>2. CASE ~ (i < p)
        <4>1. i - 1 \in 1 .. n - 1 /\ old(i - 1) = i BY <1>2, <2>1, <3>2
        <4> QED BY <4>1
      <3> QED BY <3>1, <3>2
    <2> QED BY <2>1
  <1>8. \A i \in 1 .. n - 1 : less[i] = bin[old(i)] BY <1>3
  <1> HIDE DEF old
  <1> DEFINE then == [i \in 1 .. n - 1 |-> IF old(i) = q THEN at[p] ELSE at[old(i)]]
  <1>9. ASSUME NEW i \in 1 .. n - 1
        PROVE  then[i] \in T /\ then[i] # t
    <2>1. old(i) \in 1 .. n /\ old(i) # p BY <1>5
    <2>2. CASE old(i) = q
      <3>1. p # q BY <2>1, <2>2
      <3>2. at[p] # at[q] BY <1>1, <1>2, <3>1
      <3> QED BY <1>1, <1>2, <1>4, <2>2, <3>2
    <2>3. CASE old(i) # q
      <3>1. at[old(i)] # at[q] BY <1>1, <2>1, <2>3
      <3> QED BY <1>1, <1>4, <2>1, <2>3, <3>1
    <2> QED BY <2>2, <2>3
  <1>10. then \in [1 .. n - 1 -> T \ {t}]
    <2>1. \A i \in 1 .. n - 1 : then[i] \in T \ {t} BY <1>9
    <2> QED BY <2>1
  <1>11. ASSUME NEW i \in 1 .. n - 1, NEW j \in 1 .. n - 1, then[i] = then[j]
         PROVE  i = j
    <2>1. /\ old(i) \in 1 .. n /\ old(i) # p
          /\ old(j) \in 1 .. n /\ old(j) # p
      BY <1>5
    <2>2. CASE old(i) = q /\ old(j) = q BY <2>2, <1>6
    <2>3. CASE old(i) = q /\ old(j) # q BY <2>1, <2>3, <1>1, <1>2, <1>11
    <2>4. CASE old(i) # q /\ old(j) = q BY <2>1, <2>4, <1>1, <1>2, <1>11
    <2>5. CASE old(i) # q /\ old(j) # q
      <3>1. at[old(i)] = at[old(j)] BY <2>5, <1>11
      <3>2. old(i) = old(j) BY <2>1, <3>1, <1>1
      <3> QED BY <3>2, <1>6
    <2> QED BY <2>2, <2>3, <2>4, <2>5
  <1>12. ASSUME NEW u \in T \ {t}
         PROVE  \E i \in 1 .. n - 1 : then[i] = u
    <2>1. PICK i \in 1 .. n : at[i] = u BY <1>1
    <2>2. i # q BY <2>1, <1>4
    <2>3. CASE i = p
      <3>1. q # p BY <2>2, <2>3
      <3>2. PICK j \in 1 .. n - 1 : old(j) = q BY <3>1, <1>4, <1>7
      <3>3. then[j] = at[p] BY <3>2
      <3> QED BY <3>3, <2>1, <2>3
    <2>4. CASE i # p
      <3>1. PICK j \in 1 .. n - 1 : old(j) = i BY <2>4, <1>7
      <3>2. then[j] = at[i] BY <3>1, <2>2
      <3> QED BY <3>2, <2>1
    <2> QED BY <2>3, <2>4
  <1>13. ASSUME NEW i \in 1 .. n - 1
         PROVE  less[i] = Felts(held[then[i]])[k]
    <2>1. old(i) \in 1 .. n /\ less[i] = bin[old(i)] BY <1>5, <1>8
    <2>2. CASE old(i) = q
      <3>1. then[i] = at[p] BY <2>2
      <3>2. bin[p] = Felts(held[at[p]])[k] BY <1>1, <1>2
      <3>3. bin[q] = Felts(held[t])[k] BY <1>1, <1>4
      <3>4. bin[p] = bin[q] BY <3>3 DEF n
      <3> QED BY <2>1, <2>2, <3>1, <3>2, <3>4
    <2>3. CASE old(i) # q
      <3>1. then[i] = at[old(i)] BY <2>3
      <3> QED BY <2>1, <3>1, <1>1
    <2> QED BY <2>2, <2>3
  <1> HIDE DEF then
  <1>14. Laid(less, k, T \ {t}, held)
    <2>1. 1 .. Len(less) = 1 .. n - 1 BY <1>3
    <2>2. then \in [1 .. Len(less) -> T \ {t}] BY <2>1, <1>10
    <2>3. \A i, j \in 1 .. Len(less) : then[i] = then[j] => i = j BY <2>1, <1>11
    <2>4. \A u \in T \ {t} : \E i \in 1 .. Len(less) : then[i] = u BY <2>1, <1>12
    <2>5. \A i \in 1 .. Len(less) : less[i] = Felts(held[then[i]])[k] BY <2>1, <1>13
    <2> QED BY <2>2, <2>3, <2>4, <2>5 DEF Laid
  <1> QED BY <1>14 DEF less

-----------------------------------------------------------------------------
(* Items, their hashes and the rows of a bundle.                           *)

\* The hashes of this database, all there may be, and the field elements of
\* the former.
Hashes == {DataHash(x) : x \in Item}
AnyHash == [hash : {"plain", "oprf"}, item : Item]
Felt == {Felts(h)[k] : h \in Hashes, k \in 1 .. FeltsPerItem}

\* The bins where an item may begin.
Starts == {s \in Bins : s % FeltsPerItem = 0}

\* What the constants are.
LEMMA Sizes ==
  /\ FeltsPerItem \in Nat \ {0}
  /\ NumBins \in Nat \ {0}
  /\ NumBins % FeltsPerItem = 0
  /\ BundleIdxCount \in Nat
  /\ MaxBinSize \in Nat \ {0}
  /\ LabelSize \in {0, 1}
  BY ReceiverDBConfigured DEF BinBundleAssumption, ReceiverDBAssumption

\* Hashes tell items apart; the two kinds are the same without labels only.
LEMMA HashesAre ==
  /\ Hashes \subseteq AnyHash
  /\ \A x \in Item : DataHash(x) \in Hashes /\ PlainHash(x) \in AnyHash /\ DataHash(x).item = x
  /\ \A x, y \in Item : DataHash(x) = DataHash(y) => x = y
  /\ LabelSize = 0 => \A x \in Item : DataHash(x) = PlainHash(x)
  /\ LabelSize # 0 => \A x \in Item : PlainHash(x) \notin Hashes
  <1> DEFINE kind == IF LabelSize = 0 THEN "plain" ELSE "oprf"
  <1>1. kind \in {"plain", "oprf"} /\ (LabelSize = 0 <=> kind = "plain") OBVIOUS
  <1>2. \A x \in Item : DataHash(x) = [hash |-> kind, item |-> x] BY DEF DataHash
  <1>3. \A x \in Item : PlainHash(x) = [hash |-> "plain", item |-> x] BY DEF PlainHash
  <1> HIDE DEF kind
  <1>4. Hashes \subseteq AnyHash BY <1>1, <1>2 DEF Hashes, AnyHash
  <1>5. \A x \in Item : DataHash(x) \in Hashes BY DEF Hashes
  <1>6. \A x \in Item : PlainHash(x) \in AnyHash BY <1>3 DEF AnyHash
  <1>7. \A x \in Item : DataHash(x).item = x /\ DataHash(x).hash = kind BY <1>2
  <1>8. \A x \in Item : PlainHash(x).hash = "plain" BY <1>3
  <1>9. \A x, y \in Item : DataHash(x) = DataHash(y) => x = y BY <1>7
  <1>10. LabelSize = 0 => \A x \in Item : DataHash(x) = PlainHash(x) BY <1>1, <1>2, <1>3
  <1>11. ASSUME LabelSize # 0, NEW x \in Item
         PROVE  PlainHash(x) \notin Hashes
    <2>1. \A h \in Hashes : h.hash = kind BY <1>7 DEF Hashes
    <2> QED BY <2>1, <1>1, <1>8, <1>11
  <1> QED BY <1>4, <1>5, <1>6, <1>7, <1>9, <1>10, <1>11

\* Intervals from 1 tell their lengths.
LEMMA SameLength ==
  ASSUME NEW m \in Nat, NEW n \in Nat, 1 .. m = 1 .. n
  PROVE  m = n
  <1>1. CASE m < n
    <2>1. n \in 1 .. n /\ n \notin 1 .. m BY <1>1
    <2> QED BY <2>1
  <1>2. CASE n < m
    <2>1. m \in 1 .. m /\ m \notin 1 .. n BY <1>2
    <2> QED BY <2>1
  <1> QED BY <1>1, <1>2

\* Pairs tell what they are of.
LEMMA SamePair ==
  ASSUME NEW a, NEW b, NEW c, NEW d, <<a, b>> = <<c, d>>
  PROVE  a = c /\ b = d
  OBVIOUS

\* The elements of an item: one for each part, from its hash.
LEMMA FeltsAre ==
  ASSUME NEW h \in AnyHash
  PROVE  /\ DOMAIN Felts(h) = 1 .. FeltsPerItem
         /\ Len(Felts(h)) = FeltsPerItem
         /\ Felts(h) # <<>>
         /\ \A k \in 1 .. FeltsPerItem : Felts(h)[k] = <<h.hash, Parts[h.item][k]>>
         /\ h \in Hashes => \A k \in 1 .. FeltsPerItem : Felts(h)[k] \in Felt
  <1>1. FeltsPerItem \in Nat \ {0} BY Sizes
  <1>2. Felts(h) = [k \in 1 .. FeltsPerItem |-> <<h.hash, Parts[h.item][k]>>] BY DEF Felts
  <1>3. DOMAIN Felts(h) = 1 .. FeltsPerItem BY <1>2
  <1>4. \A k \in 1 .. FeltsPerItem : Felts(h)[k] = <<h.hash, Parts[h.item][k]>> BY <1>2
  <1>5. Len(Felts(h)) = FeltsPerItem
    <2> DEFINE S == {Felts(h)[k] : k \in 1 .. FeltsPerItem}
    <2>a. Felts(h) \in [1 .. FeltsPerItem -> S] BY <1>2
    <2>1. Felts(h) \in Seq(S) BY <1>1, <2>a, SeqDef
    <2> HIDE DEF S
    <2>2. DOMAIN Felts(h) = 1 .. Len(Felts(h)) /\ Len(Felts(h)) \in Nat BY <2>1, LenProperties
    <2>3. 1 .. FeltsPerItem = 1 .. Len(Felts(h)) BY <2>2, <1>3
    <2> QED BY <2>2, <2>3, <1>1, SameLength
  <1>6. Felts(h) # <<>> BY <1>5, <1>1
  <1>7. h \in Hashes => \A k \in 1 .. FeltsPerItem : Felts(h)[k] \in Felt BY DEF Felt
  <1> QED BY <1>3, <1>4, <1>5, <1>6, <1>7

\* An item whose parts are all among those of others is one of them.
LEMMA NotMixed ==
  ASSUME NEW h \in AnyHash, NEW T, NEW held \in [T -> Hashes],
         \A k \in 1 .. FeltsPerItem : \E t \in T : Felts(held[t])[k] = Felts(h)[k]
  PROVE  \E t \in T : held[t] = h
  <1> SUFFICES ASSUME \A t \in T : held[t] # h PROVE FALSE
    OBVIOUS
  <1> DEFINE of(k) == CHOOSE t \in T : Felts(held[t])[k] = Felts(h)[k]
             parts == [k \in 1 .. FeltsPerItem |-> held[of(k)].item]
             x == h.item
  <1>1. x \in Item BY DEF AnyHash
  <1>2. ASSUME NEW k \in 1 .. FeltsPerItem
        PROVE  parts[k] \in Item \ {x} /\ Parts[parts[k]][k] = Parts[x][k]
    <2>1. of(k) \in T /\ Felts(held[of(k)])[k] = Felts(h)[k] OBVIOUS
    <2> HIDE DEF of
    <2>2. PICK g \in AnyHash : g = held[of(k)] BY <2>1, HashesAre
    <2>3. Felts(g)[k] = <<g.hash, Parts[g.item][k]>> /\ Felts(h)[k] = <<h.hash, Parts[h.item][k]>>
      BY FeltsAre
    <2>a. <<g.hash, Parts[g.item][k]>> = <<h.hash, Parts[h.item][k]>> BY <2>1, <2>2, <2>3
    <2>4. g.hash = h.hash /\ Parts[g.item][k] = Parts[h.item][k] BY <2>a, SamePair
    <2>5. g # h BY <2>1, <2>2
    <2>6. g.item \in Item /\ g.item # h.item BY <2>4, <2>5 DEF AnyHash
    <2>7. parts[k] = g.item BY <2>2
    <2> QED BY <2>4, <2>6, <2>7
  <1> HIDE DEF of
  <1>3. parts \in [1 .. FeltsPerItem -> Item \ {x}] BY <1>2
  <1>4. \A k \in 1 .. FeltsPerItem : Parts[parts[k]][k] = Parts[x][k] BY <1>2
  <1> HIDE DEF parts, x
  <1>5. ~\E p \in [1 .. FeltsPerItem -> Item \ {x}] :
            \A k \in 1 .. FeltsPerItem : Parts[p[k]][k] = Parts[x][k]
    BY <1>1, ReceiverDBConfigured DEF ReceiverDBAssumption
  <1> QED BY <1>3, <1>4, <1>5

\* Quotients and remainders: what a multiple and a rest are divided into,
LEMMA Divided ==
  ASSUME NEW q \in Nat, NEW d \in Nat \ {0}, NEW r \in 0..(d - 1)
  PROVE  /\ q * d + r \in Nat
         /\ (q * d + r) \div d = q
         /\ (q * d + r) % d = r
  OBVIOUS

\* what a number is put together of,
LEMMA Division ==
  ASSUME NEW n \in Nat, NEW d \in Nat \ {0}
  PROVE  /\ n \div d \in Nat
         /\ n % d \in 0..(d - 1)
         /\ n = (n \div d) * d + (n % d)
  OBVIOUS

\* and what a number without rest is.
LEMMA Multiple ==
  ASSUME NEW n \in Nat, NEW d \in Nat \ {0}, n % d = 0
  PROVE  \E a \in Nat : n = a * d
  <1>1. PICK a : a = n \div d OBVIOUS
  <1>2. a \in Nat /\ n = a * d + (n % d) BY <1>1, Division
  <1>3. a * d \in Nat BY <1>2
  <1>4. n = a * d BY <1>2, <1>3
  <1> QED BY <1>2, <1>4

\* A row is inside the bundle.
LEMMA RowFits ==
  ASSUME NEW s \in Starts
  PROVE  /\ s \in Nat
         /\ s + FeltsPerItem <= NumBins
         /\ \A k \in 1 .. FeltsPerItem : BinOf(s, k) \in Bins
  <1> DEFINE F == FeltsPerItem
             N == NumBins
  <1>1. F \in Nat \ {0} /\ N \in Nat \ {0} /\ N % F = 0 /\ s \in 0 .. N - 1 /\ s % F = 0
    BY Sizes DEF Starts, Bins
  <1> HIDE DEF F, N
  <1>2. PICK a \in Nat : N = a * F BY <1>1, Multiple
  <1>3. PICK c \in Nat : s = c * F BY <1>1, Multiple
  <1>4. c < a
    <2>1. CASE a <= c
      <3>1. PICK d \in Nat : c = a + d
        <4>1. c - a \in Nat /\ c = a + (c - a) BY <2>1
        <4> QED BY <4>1
      <3>2. s = N + d * F BY <3>1, <1>1, <1>2, <1>3
      <3>3. d * F \in Nat BY <1>1
      <3> QED BY <3>2, <3>3, <1>1
    <2> QED BY <2>1
  <1>5. s + F <= N
    <2>1. PICK d \in Nat : a = c + 1 + d
      <3>1. a - c - 1 \in Nat /\ a = c + 1 + (a - c - 1) BY <1>4
      <3> QED BY <3>1
    <2>2. N = s + F + d * F BY <2>1, <1>1, <1>2, <1>3
    <2>3. d * F \in Nat BY <1>1
    <2> QED BY <2>2, <2>3, <1>1
  <1>6. \A k \in 1 .. F : s + k - 1 \in 0 .. N - 1 BY <1>1, <1>5
  <1> QED BY <1>1, <1>5, <1>6 DEF F, N, BinOf, Bins

\* Rows have no bins in common, and a row has its bins in order.
LEMMA RowsApart ==
  ASSUME NEW s \in Starts, NEW r \in Starts,
         NEW k \in 1 .. FeltsPerItem, NEW j \in 1 .. FeltsPerItem, BinOf(s, k) = BinOf(r, j)
  PROVE  s = r /\ k = j
  <1> DEFINE F == FeltsPerItem
  <1>1. /\ F \in Nat \ {0} /\ s \in Nat /\ s % F = 0 /\ r \in Nat /\ r % F = 0
        /\ k \in 1 .. F /\ j \in 1 .. F /\ s + k - 1 = r + j - 1
    BY Sizes DEF Starts, Bins, BinOf
  <1> HIDE DEF F
  <1>2. PICK c \in Nat : s = c * F BY <1>1, Multiple
  <1>3. PICK d \in Nat : r = d * F BY <1>1, Multiple
  <1>4. k - 1 \in 0 .. F - 1 /\ j - 1 \in 0 .. F - 1 BY <1>1
  <1>5. (c * F + (k - 1)) \div F = c /\ (d * F + (j - 1)) \div F = d BY <1>1, <1>4, Divided
  <1>6. c * F + (k - 1) = d * F + (j - 1) BY <1>1, <1>2, <1>3
  <1>7. c = d BY <1>5, <1>6
  <1> QED BY <1>1, <1>2, <1>3, <1>7

\* Where the first part of an item goes.
LEMMA AtAStart ==
  ASSUME NEW x \in Item, NEW l \in Locations[x]
  PROVE  /\ l \in Nat
         /\ UnpackBin(CuckooIdx(l)) \in Starts
         /\ UnpackBundle(CuckooIdx(l)) \in BundleIdxs
  <1> DEFINE F == FeltsPerItem
             N == NumBins
             B == BundleIdxCount
             c == l * F
  <1>1. F \in Nat \ {0} /\ N \in Nat \ {0} /\ N % F = 0 /\ B \in Nat BY Sizes
  <1>2. l \in 0 .. ((B * N) \div F) - 1
    BY ReceiverDBConfigured DEF ReceiverDBAssumption, TableSize
  <1> HIDE DEF F, N, B
  <1>3. PICK a \in Nat : N = a * F BY <1>1, Multiple
  <1>4. B * N \in Nat BY <1>1
  <1>5. PICK m \in Nat, z \in 0 .. F - 1 : B * N = m * F + z /\ m = (B * N) \div F
    BY <1>1, <1>4, Division
  <1>6. l \in Nat /\ l < m BY <1>2, <1>5
  <1>7. c \in Nat /\ c + F <= B * N
    <2>1. PICK d \in Nat : m = l + 1 + d
      <3>1. m - l - 1 \in Nat /\ m = l + 1 + (m - l - 1) BY <1>6
      <3> QED BY <3>1
    <2>2. m * F = c + F + d * F BY <2>1, <1>1, <1>6
    <2>3. d * F \in Nat /\ c \in Nat BY <1>1, <1>6
    <2> QED BY <2>2, <2>3, <1>1, <1>5
  <1>8. PICK q \in Nat, s \in 0 .. N - 1 : c = q * N + s /\ q = c \div N /\ s = c % N
    BY <1>1, <1>7, Division
  <1>9. s % F = 0
    <2>a. s \in Nat BY <1>1, <1>8
    <2>b. s \div F \in Nat /\ s % F \in 0 .. F - 1 /\ s = (s \div F) * F + (s % F)
      BY <2>a, <1>1, Division
    <2>1. PICK e \in Nat, y \in 0 .. F - 1 : s = e * F + y /\ y = s % F BY <2>b
    <2>2. l * F = q * (a * F) + (e * F + y) BY <2>1, <1>3, <1>8
    <2>3. q * (a * F) = (q * a) * F /\ q * a \in Nat BY <1>1
    <2>4. PICK v \in Nat : v = q * a + e BY <2>3
    <2>5. v * F = (q * a) * F + e * F BY <2>3, <2>4, <1>1
    <2>6. l * F + 0 = v * F + y BY <2>2, <2>3, <2>5, <1>1, <1>6
    <2>7. (l * F + 0) % F = 0 /\ (v * F + y) % F = y
      <3>1. 0 \in 0 .. F - 1 BY <1>1
      <3>2. (l * F + 0) % F = 0 BY <3>1, <1>1, <1>6, Divided
      <3>3. (v * F + y) % F = y BY <1>1, Divided
      <3> QED BY <3>2, <3>3
    <2> QED BY <2>1, <2>6, <2>7
  <1>10. q < B
    <2>1. CASE B <= q
      <3>1. PICK d \in Nat : q = B + d
        <4>1. q - B \in Nat /\ q = B + (q - B) BY <2>1, <1>1
        <4> QED BY <4>1
      <3>2. q * N = B * N + d * N BY <3>1, <1>1
      <3>3. d * N \in Nat BY <1>1
      <3>4. PICK u \in Nat, w \in Nat : u = B * N /\ w = d * N BY <3>3, <1>4
      <3>5. c = u + w + s BY <3>2, <3>4, <1>8
      <3>6. c + F <= u BY <3>4, <1>7
      <3>7. s \in Nat /\ c \in Nat BY <1>1, <1>7, <1>8
      <3> HIDE DEF c
      <3> QED BY <3>5, <3>6, <3>7, <1>1
    <2> QED BY <2>1, <1>1
  <1>11. UnpackBin(c) = s BY <1>8 DEF UnpackBin, N
  <1>12. UnpackBundle(c) = q
    <2>1. UnpackBundle(c) = (c - s) \div N BY <1>11 DEF UnpackBundle, N
    <2>2. c - s = q * N + 0 BY <1>1, <1>7, <1>8
    <2>3. (q * N + 0) \div N = q BY <1>1, Divided
    <2> QED BY <2>1, <2>2, <2>3
  <1>13. s \in Starts BY <1>8, <1>9 DEF Starts, Bins, F, N
  <1>14. q \in BundleIdxs BY <1>10, <1>1 DEF BundleIdxs, B
  <1>15. CuckooIdx(l) = c BY DEF CuckooIdx, F
  <1> QED BY <1>6, <1>11, <1>12, <1>13, <1>14, <1>15

-----------------------------------------------------------------------------
(* Bundles.                                                                *)

\* The fields of a bundle.
Fields == {"stripped", "item_bins", "label_bins", "felt_polyns", "batched_polyns", "cache_invalid"}

\* A bundle that is not stripped has a bin for each place, of field elements.
Shaped(bb) ==
  /\ DOMAIN bb = Fields
  /\ bb.stripped = FALSE
  /\ bb.item_bins \in [Bins -> Seq(Felt)]

\* The bins of a row are laid out for the same tokens.
RowOf(bb, s, T, held) ==
  \A k \in 1 .. FeltsPerItem : Laid(bb.item_bins[BinOf(s, k)], k, T, held)

\* Each row holds items, each of them once if that is asked for.
RowRight(bb, s, once) ==
  \E T : \E held \in [T -> Hashes] :
    /\ RowOf(bb, s, T, held)
    /\ once => \A t, u \in T : held[t] = held[u] => t = u

\* So does a bundle, in all its rows.
BundleRight(bb, once) == Shaped(bb) /\ \A s \in Starts : RowRight(bb, s, once)

\* All parts of an item are in their bins.
Has(bb, h, s) ==
  \A k \in 1 .. FeltsPerItem : Contains(bb.item_bins[BinOf(s, k)], Felts(h)[k])

\* Which is so for the items of the row and no other.
LEMMA HasIsHeld ==
  ASSUME NEW bb, Shaped(bb), NEW s \in Starts, NEW T, NEW held \in [T -> Hashes],
         RowOf(bb, s, T, held), NEW h \in AnyHash
  PROVE  Has(bb, h, s) <=> \E t \in T : held[t] = h
  <1> DEFINE bin(k) == bb.item_bins[BinOf(s, k)]
  <1>1. \A k \in 1 .. FeltsPerItem : bin(k) \in Seq(Felt) BY RowFits DEF Shaped
  <1>2. \A k \in 1 .. FeltsPerItem : Laid(bin(k), k, T, held) BY DEF RowOf
  <1>3. Has(bb, h, s) <=> \A k \in 1 .. FeltsPerItem : \E i \in 1 .. Len(bin(k)) : bin(k)[i] = Felts(h)[k]
    BY DEF Has, Contains
  <1> HIDE DEF bin
  <1>4. ASSUME Has(bb, h, s)
        PROVE  \E t \in T : held[t] = h
    <2>1. ASSUME NEW k \in 1 .. FeltsPerItem
          PROVE  \E t \in T : Felts(held[t])[k] = Felts(h)[k]
      <3>1. PICK i \in 1 .. Len(bin(k)) : bin(k)[i] = Felts(h)[k] BY <1>3, <1>4
      <3>2. PICK at \in [1 .. Len(bin(k)) -> T] :
              \A j \in 1 .. Len(bin(k)) : bin(k)[j] = Felts(held[at[j]])[k]
        BY <1>2 DEF Laid
      <3>3. at[i] \in T /\ Felts(held[at[i]])[k] = Felts(h)[k] BY <3>1, <3>2
      <3> QED BY <3>3
    <2> QED BY <2>1, NotMixed
  <1>5. ASSUME NEW t \in T, held[t] = h
        PROVE  Has(bb, h, s)
    <2>1. ASSUME NEW k \in 1 .. FeltsPerItem
          PROVE  \E i \in 1 .. Len(bin(k)) : bin(k)[i] = Felts(h)[k]
      <3>1. PICK at \in [1 .. Len(bin(k)) -> T] :
              /\ \A u \in T : \E j \in 1 .. Len(bin(k)) : at[j] = u
              /\ \A j \in 1 .. Len(bin(k)) : bin(k)[j] = Felts(held[at[j]])[k]
        BY <1>2 DEF Laid
      <3>2. PICK i \in 1 .. Len(bin(k)) : at[i] = t BY <3>1
      <3> QED BY <3>1, <3>2, <1>5
    <2> QED BY <2>1, <1>3
  <1> QED BY <1>4, <1>5

\* UpdateBins changes the bins of one row.
LEMMA UpdateOfRow ==
  ASSUME NEW s \in Starts, NEW h \in AnyHash, NEW i \in Bins
  PROVE  i - s + 1 \in DOMAIN Felts(h) <=> \E k \in 1 .. FeltsPerItem : i = BinOf(s, k)
  <1>1. s \in Nat /\ i \in Int /\ FeltsPerItem \in Nat \ {0} BY Sizes, RowFits DEF Bins
  <1>2. \A k \in 1 .. FeltsPerItem : i = BinOf(s, k) <=> k = i - s + 1 BY <1>1 DEF BinOf
  <1> QED BY <1>2, FeltsAre

\* The part an item has in a bin of its row.
LEMMA PartOfBin ==
  ASSUME NEW s \in Starts, NEW k \in 1 .. FeltsPerItem
  PROVE  BinOf(s, k) - s + 1 = k
  <1>1. s \in Nat /\ k \in Int BY Sizes, RowFits
  <1> QED BY <1>1 DEF BinOf

\* A new bundle is empty.
LEMMA ClearRight ==
  ASSUME NEW once \in BOOLEAN
  PROVE  /\ BundleRight(Clear(FALSE), once)
         /\ \A s \in Starts, h \in AnyHash : ~Has(Clear(FALSE), h, s)
         /\ \A i \in Bins : Clear(FALSE).item_bins[i] = <<>>
  <1> DEFINE bb == Clear(FALSE)
  <1>1. /\ DOMAIN bb = Fields
        /\ bb.stripped = FALSE
        /\ bb.item_bins = [i \in Bins |-> <<>>]
    BY DEF Clear, ClearCache, Fields
  <1> HIDE DEF bb
  <1>2. Shaped(bb) BY <1>1, EmptySeq DEF Shaped
  <1>3. ASSUME NEW s \in Starts
        PROVE  RowOf(bb, s, {}, <<>>)
    <2>1. \A k \in 1 .. FeltsPerItem : bb.item_bins[BinOf(s, k)] = <<>> BY <1>1, RowFits
    <2> QED BY <2>1, LaidEmpty DEF RowOf
  <1>4. <<>> \in [{} -> Hashes] OBVIOUS
  <1>5. \A s \in Starts : RowRight(bb, s, once) BY <1>3, <1>4 DEF RowRight
  <1>6. ASSUME NEW s \in Starts, NEW h \in AnyHash
        PROVE  ~Has(bb, h, s)
    BY <1>2, <1>3, <1>4, HasIsHeld
  <1> QED BY <1>1, <1>2, <1>5, <1>6 DEF BundleRight, bb

\* An item is inserted.
LEMMA InsertRight ==
  ASSUME NEW once \in BOOLEAN, NEW bb, BundleRight(bb, once), NEW s \in Starts, NEW h \in Hashes,
         NEW label, once => ~Has(bb, h, s), NEW then, then = InsertForReal(bb, Felts(h), label, s)
  PROVE  /\ BundleRight(then, once)
         /\ \A r \in Starts, g \in AnyHash : Has(then, g, r) <=> Has(bb, g, r) \/ (g = h /\ r = s)
         /\ \A k \in 1 .. FeltsPerItem :
              Len(then.item_bins[BinOf(s, k)]) = Len(bb.item_bins[BinOf(s, k)]) + 1
         /\ \A i \in Bins :
              (\A k \in 1 .. FeltsPerItem : i # BinOf(s, k)) => then.item_bins[i] = bb.item_bins[i]
  <1>0. h \in AnyHash /\ Shaped(bb) BY HashesAre DEF BundleRight
  <1>1. /\ DOMAIN then = Fields
        /\ then.stripped = FALSE
        /\ then.item_bins = [i \in Bins |-> IF i - s + 1 \in DOMAIN Felts(h)
                                            THEN Append(bb.item_bins[i], Felts(h)[i - s + 1])
                                            ELSE bb.item_bins[i]]
    BY <1>0 DEF InsertForReal, UpdateBins, Shaped, Fields
  <1>2. ASSUME NEW k \in 1 .. FeltsPerItem
        PROVE  /\ BinOf(s, k) \in Bins
               /\ then.item_bins[BinOf(s, k)] = Append(bb.item_bins[BinOf(s, k)], Felts(h)[k])
    <2>1. BinOf(s, k) \in Bins BY RowFits
    <2>2. BinOf(s, k) - s + 1 = k BY PartOfBin
    <2>3. k \in DOMAIN Felts(h) BY <1>0, FeltsAre
    <2> QED BY <1>1, <2>1, <2>2, <2>3
  <1>3. ASSUME NEW i \in Bins, ~\E k \in 1 .. FeltsPerItem : i = BinOf(s, k)
        PROVE  then.item_bins[i] = bb.item_bins[i]
    <2>1. i - s + 1 \notin DOMAIN Felts(h) BY <1>0, <1>3, UpdateOfRow
    <2> QED BY <2>1, <1>1
  <1>4. \A k \in 1 .. FeltsPerItem : Felts(h)[k] \in Felt BY <1>0, FeltsAre
  <1>5. ASSUME NEW k \in 1 .. FeltsPerItem
        PROVE  /\ then.item_bins[BinOf(s, k)] \in Seq(Felt)
               /\ Len(then.item_bins[BinOf(s, k)]) = Len(bb.item_bins[BinOf(s, k)]) + 1
    <2>1. bb.item_bins[BinOf(s, k)] \in Seq(Felt) BY <1>0, <1>2 DEF Shaped
    <2>2. Felts(h)[k] \in Felt BY <1>4
    <2>3. PICK bin \in Seq(Felt) : bin = bb.item_bins[BinOf(s, k)] BY <2>1
    <2>4. Append(bin, Felts(h)[k]) \in Seq(Felt) /\ Len(Append(bin, Felts(h)[k])) = Len(bin) + 1
      BY <2>2, AppendProperties
    <2> QED BY <2>3, <2>4, <1>2
  <1>a. ASSUME NEW i \in Bins
        PROVE  then.item_bins[i] \in Seq(Felt)
    <2>1. CASE \E k \in 1 .. FeltsPerItem : i = BinOf(s, k) BY <2>1, <1>5
    <2>2. CASE ~\E k \in 1 .. FeltsPerItem : i = BinOf(s, k) BY <2>2, <1>0, <1>3 DEF Shaped
    <2> QED BY <2>1, <2>2
  <1>6. Shaped(then) BY <1>1, <1>a DEF Shaped
  <1>7. ASSUME NEW r \in Starts, r # s, NEW k \in 1 .. FeltsPerItem
        PROVE  then.item_bins[BinOf(r, k)] = bb.item_bins[BinOf(r, k)]
    <2>1. BinOf(r, k) \in Bins BY RowFits
    <2>2. ~\E j \in 1 .. FeltsPerItem : BinOf(r, k) = BinOf(s, j) BY <1>7, RowsApart
    <2> QED BY <2>1, <2>2, <1>3
  <1>8. \E T : \E held \in [T -> Hashes] :
          /\ RowOf(bb, s, T, held)
          /\ once => \A t, u \in T : held[t] = held[u] => t = u
    BY DEF BundleRight, RowRight
  <1>9. PICK T : \E held \in [T -> Hashes] :
          /\ RowOf(bb, s, T, held)
          /\ once => \A t, u \in T : held[t] = held[u] => t = u
    BY <1>8
  <1>10. PICK held \in [T -> Hashes] :
          /\ RowOf(bb, s, T, held)
          /\ once => \A t, u \in T : held[t] = held[u] => t = u
    BY <1>9
  <1>11. PICK t : t \notin T
    <2>1. {x \in T : x \notin x} \notin T OBVIOUS
    <2> QED BY <2>1
  <1> DEFINE U == T \cup {t}
             now == [u \in U |-> IF u = t THEN h ELSE held[u]]
  <1>12. /\ now \in [U -> Hashes] /\ now[t] = h /\ \A u \in T : now[u] = held[u] BY <1>11
  <1> HIDE DEF now
  <1>13. RowOf(then, s, U, now)
    <2>1. ASSUME NEW k \in 1 .. FeltsPerItem
          PROVE  Laid(then.item_bins[BinOf(s, k)], k, U, now)
      <3>1. bb.item_bins[BinOf(s, k)] \in Seq(Felt) BY <1>0, <1>2 DEF Shaped
      <3>2. Laid(bb.item_bins[BinOf(s, k)], k, T, held) BY <1>10 DEF RowOf
      <3>3. Felts(now[t])[k] \in Felt BY <1>4, <1>12
      <3>4. PICK bin \in Seq(Felt) : bin = bb.item_bins[BinOf(s, k)] BY <3>1
      <3>5. Laid(bin, k, T, held) BY <3>2, <3>4
      <3>6. \A u \in T : now[u] = held[u] BY <1>12
      <3>7. Laid(Append(bin, Felts(now[t])[k]), k, T \cup {t}, now)
        BY <3>3, <3>5, <3>6, <1>11, LaidAppend
      <3> QED BY <3>4, <3>7, <1>2, <1>12
    <2> QED BY <2>1 DEF RowOf
  <1>14. ASSUME NEW g \in AnyHash
         PROVE  Has(then, g, s) <=> Has(bb, g, s) \/ g = h
    <2>1. Has(bb, g, s) <=> \E u \in T : held[u] = g BY <1>0, <1>10, HasIsHeld
    <2>2. Has(then, g, s) <=> \E u \in U : now[u] = g BY <1>6, <1>12, <1>13, HasIsHeld
    <2>3. (\E u \in U : now[u] = g) <=> (\E u \in T : held[u] = g) \/ g = h BY <1>12
    <2> QED BY <2>1, <2>2, <2>3
  <1>15. ASSUME NEW r \in Starts, r # s, NEW g
         PROVE  Has(then, g, r) <=> Has(bb, g, r)
    BY <1>7, <1>15 DEF Has
  <1>16. RowRight(then, s, once)
    <2>1. ASSUME once, NEW u \in U, NEW v \in U, now[u] = now[v]
          PROVE  u = v
      <3>1. \A w \in T : held[w] # h
        <4>1. ~Has(bb, h, s) BY <2>1
        <4>2. Has(bb, h, s) <=> \E w \in T : held[w] = h BY <1>0, <1>10, HasIsHeld
        <4> QED BY <4>1, <4>2
      <3> QED BY <3>1, <2>1, <1>10, <1>12
    <2> QED BY <2>1, <1>12, <1>13 DEF RowRight
  <1>17. ASSUME NEW r \in Starts, r # s
         PROVE  RowRight(then, r, once)
    <2>1. \A V, q : RowOf(then, r, V, q) <=> RowOf(bb, r, V, q) BY <1>7, <1>17 DEF RowOf
    <2>2. RowRight(bb, r, once) BY DEF BundleRight
    <2> QED BY <2>1, <2>2 DEF RowRight
  <1>18. \A r \in Starts : RowRight(then, r, once) BY <1>16, <1>17
  <1>19. BundleRight(then, once) BY <1>6, <1>18 DEF BundleRight
  <1>20. \A r \in Starts, g \in AnyHash : Has(then, g, r) <=> Has(bb, g, r) \/ (g = h /\ r = s)
    BY <1>14, <1>15
  <1> QED BY <1>3, <1>5, <1>19, <1>20

\* What the positions of the parts of an item are.
LEMMA PositionsAre ==
  ASSUME NEW bb, Shaped(bb), NEW s \in Starts, NEW h \in AnyHash, Has(bb, h, s),
         NEW k \in 1 .. FeltsPerItem
  PROVE  LET bin == bb.item_bins[BinOf(s, k)]
             p == Positions(bb, Felts(h), s)[k]
         IN  p \in 1 .. Len(bin) /\ bin[p] = Felts(h)[k]
  <1> DEFINE bin == bb.item_bins[BinOf(s, k)]
             places == {j \in DOMAIN bin : bin[j] = Felts(h)[k]}
  <1>1. Positions(bb, Felts(h), s)[k] = Min(places) BY FeltsAre DEF Positions
  <1>2. bin \in Seq(Felt) BY RowFits DEF Shaped
  <1>3. Len(bin) \in Nat /\ DOMAIN bin = 1 .. Len(bin) BY <1>2, LenProperties
  <1>4. \E j \in 1 .. Len(bin) : bin[j] = Felts(h)[k] BY DEF Has, Contains
  <1>5. places \subseteq Nat /\ places # {} BY <1>3, <1>4
  <1>6. \E j \in places : \A i \in places : j <= i BY <1>5, Least
  <1>7. Min(places) \in places BY <1>6 DEF Min
  <1> QED BY <1>1, <1>3, <1>7

\* An item that a bundle has is removed.
LEMMA RemoveRight ==
  ASSUME NEW once \in BOOLEAN, NEW bb, BundleRight(bb, once), NEW s \in Starts, NEW h \in AnyHash,
         Has(bb, h, s), NEW then, then = RemoveItem(bb, Felts(h), s)
  PROVE  /\ BundleRight(then, once)
         /\ \A r \in Starts, g \in AnyHash : g # h \/ r # s => (Has(then, g, r) <=> Has(bb, g, r))
         /\ once => ~Has(then, h, s)
         /\ \A i \in Bins : Len(then.item_bins[i]) <= Len(bb.item_bins[i])
  <1> DEFINE at == Positions(bb, Felts(h), s)
  <1>0. Shaped(bb) BY DEF BundleRight
  <1>1. /\ DOMAIN then = Fields
        /\ then.stripped = FALSE
        /\ then.item_bins = [i \in Bins |-> IF i - s + 1 \in DOMAIN Felts(h)
                                            THEN RemoveAt(bb.item_bins[i], at[i - s + 1])
                                            ELSE bb.item_bins[i]]
    BY <1>0 DEF RemoveItem, UpdateBins, Shaped, Fields
  <1>2. ASSUME NEW k \in 1 .. FeltsPerItem
        PROVE  /\ BinOf(s, k) \in Bins
               /\ then.item_bins[BinOf(s, k)] = RemoveAt(bb.item_bins[BinOf(s, k)], at[k])
               /\ at[k] \in 1 .. Len(bb.item_bins[BinOf(s, k)])
               /\ bb.item_bins[BinOf(s, k)][at[k]] = Felts(h)[k]
    <2>1. BinOf(s, k) \in Bins BY RowFits
    <2>2. BinOf(s, k) - s + 1 = k BY PartOfBin
    <2>3. k \in DOMAIN Felts(h) BY FeltsAre
    <2>4. /\ at[k] \in 1 .. Len(bb.item_bins[BinOf(s, k)])
          /\ bb.item_bins[BinOf(s, k)][at[k]] = Felts(h)[k]
      BY <1>0, PositionsAre
    <2> HIDE DEF at
    <2> QED BY <1>1, <2>1, <2>2, <2>3, <2>4
  <1> HIDE DEF at
  <1>3. ASSUME NEW i \in Bins, ~\E k \in 1 .. FeltsPerItem : i = BinOf(s, k)
        PROVE  then.item_bins[i] = bb.item_bins[i]
    <2>1. i - s + 1 \notin DOMAIN Felts(h) BY <1>3, UpdateOfRow
    <2> QED BY <2>1, <1>1
  <1>5. ASSUME NEW i \in Bins
        PROVE  /\ then.item_bins[i] \in Seq(Felt)
               /\ Len(then.item_bins[i]) <= Len(bb.item_bins[i])
    <2>1. bb.item_bins[i] \in Seq(Felt) BY <1>0 DEF Shaped
    <2>2. Len(bb.item_bins[i]) \in Nat BY <2>1, LenProperties
    <2>3. CASE \E k \in 1 .. FeltsPerItem : i = BinOf(s, k)
      <3>1. PICK k \in 1 .. FeltsPerItem : i = BinOf(s, k) BY <2>3
      <3>2. PICK p : p = at[k] OBVIOUS
      <3>3. /\ then.item_bins[i] = RemoveAt(bb.item_bins[i], p)
            /\ p \in 1 .. Len(bb.item_bins[i])
        BY <3>1, <3>2, <1>2
      <3>4. /\ then.item_bins[i] \in Seq(Felt)
            /\ Len(then.item_bins[i]) = Len(bb.item_bins[i]) - 1
        BY <2>1, <3>3, RemoveAtProperties
      <3> QED BY <3>4, <2>2
    <2>4. CASE ~\E k \in 1 .. FeltsPerItem : i = BinOf(s, k)
      <3>1. then.item_bins[i] = bb.item_bins[i] BY <2>4, <1>3
      <3> QED BY <3>1, <2>1, <2>2
    <2> QED BY <2>3, <2>4
  <1>6. Shaped(then) BY <1>1, <1>5 DEF Shaped
  <1>7. ASSUME NEW r \in Starts, r # s, NEW k \in 1 .. FeltsPerItem
        PROVE  then.item_bins[BinOf(r, k)] = bb.item_bins[BinOf(r, k)]
    <2>1. BinOf(r, k) \in Bins BY RowFits
    <2>2. ~\E j \in 1 .. FeltsPerItem : BinOf(r, k) = BinOf(s, j) BY <1>7, RowsApart
    <2> QED BY <2>1, <2>2, <1>3
  <1>8. \E T : \E held \in [T -> Hashes] :
          /\ RowOf(bb, s, T, held)
          /\ once => \A t, u \in T : held[t] = held[u] => t = u
    BY DEF BundleRight, RowRight
  <1>9. PICK T : \E held \in [T -> Hashes] :
          /\ RowOf(bb, s, T, held)
          /\ once => \A t, u \in T : held[t] = held[u] => t = u
    BY <1>8
  <1>10. PICK held \in [T -> Hashes] :
          /\ RowOf(bb, s, T, held)
          /\ once => \A t, u \in T : held[t] = held[u] => t = u
    BY <1>9
  <1>11. PICK t \in T : held[t] = h
    <2>1. Has(bb, h, s) <=> \E u \in T : held[u] = h BY <1>0, <1>10, HasIsHeld
    <2> QED BY <2>1
  <1> DEFINE U == T \ {t}
             now == [u \in U |-> held[u]]
  <1>12. now \in [U -> Hashes] /\ \A u \in U : now[u] = held[u] OBVIOUS
  <1> HIDE DEF now
  <1>13. RowOf(then, s, U, now)
    <2>1. ASSUME NEW k \in 1 .. FeltsPerItem
          PROVE  Laid(then.item_bins[BinOf(s, k)], k, U, now)
      <3>1. bb.item_bins[BinOf(s, k)] \in Seq(Felt) BY <1>0, <1>2 DEF Shaped
      <3>2. Laid(bb.item_bins[BinOf(s, k)], k, T, held) BY <1>10 DEF RowOf
      <3>3. PICK bin \in Seq(Felt) : bin = bb.item_bins[BinOf(s, k)] BY <3>1
      <3>4. PICK p \in 1 .. Len(bin) : p = at[k] BY <1>2, <3>3
      <3>5. bin[p] = Felts(held[t])[k] BY <1>2, <1>11, <3>3, <3>4
      <3>6. Laid(bin, k, T, held) BY <3>2, <3>3
      <3>7. Laid(RemoveAt(bin, p), k, T \ {t}, held) BY <3>5, <3>6, LaidRemove
      <3>8. Laid(RemoveAt(bin, p), k, U, now)
        <4>1. PICK n : n = Len(RemoveAt(bin, p)) OBVIOUS
        <4>2. PICK place \in [1 .. n -> U] :
                /\ \A i, j \in 1 .. n : place[i] = place[j] => i = j
                /\ \A u \in U : \E i \in 1 .. n : place[i] = u
                /\ \A i \in 1 .. n : RemoveAt(bin, p)[i] = Felts(held[place[i]])[k]
          BY <3>7, <4>1 DEF Laid
        <4>3. \A i \in 1 .. n : RemoveAt(bin, p)[i] = Felts(now[place[i]])[k] BY <4>2, <1>12
        <4> HIDE DEF U
        <4> QED BY <4>1, <4>2, <4>3 DEF Laid
      <3> QED BY <3>3, <3>4, <3>8, <1>2
    <2> QED BY <2>1 DEF RowOf
  <1>14. ASSUME NEW g \in AnyHash, g # h
         PROVE  Has(then, g, s) <=> Has(bb, g, s)
    <2>1. Has(bb, g, s) <=> \E u \in T : held[u] = g BY <1>0, <1>10, HasIsHeld
    <2>2. Has(then, g, s) <=> \E u \in U : now[u] = g BY <1>6, <1>12, <1>13, HasIsHeld
    <2>3. (\E u \in U : now[u] = g) <=> (\E u \in T : held[u] = g) BY <1>11, <1>12, <1>14
    <2> QED BY <2>1, <2>2, <2>3
  <1>15. ASSUME NEW r \in Starts, r # s, NEW g
         PROVE  Has(then, g, r) <=> Has(bb, g, r)
    BY <1>7, <1>15 DEF Has
  <1>16. RowRight(then, s, once)
    <2>1. once => \A u, v \in U : now[u] = now[v] => u = v BY <1>10, <1>12
    <2> QED BY <2>1, <1>12, <1>13 DEF RowRight
  <1>17. ASSUME NEW r \in Starts, r # s
         PROVE  RowRight(then, r, once)
    <2>1. \A V, q : RowOf(then, r, V, q) <=> RowOf(bb, r, V, q) BY <1>7, <1>17 DEF RowOf
    <2>2. RowRight(bb, r, once) BY DEF BundleRight
    <2> QED BY <2>1, <2>2 DEF RowRight
  <1>18. \A r \in Starts : RowRight(then, r, once) BY <1>16, <1>17
  <1>19. BundleRight(then, once) BY <1>6, <1>18 DEF BundleRight
  <1>20. \A r \in Starts, g \in AnyHash : g # h \/ r # s => (Has(then, g, r) <=> Has(bb, g, r))
    BY <1>14, <1>15
  <1>21. once => ~Has(then, h, s)
    <2>1. Has(then, h, s) <=> \E u \in U : now[u] = h BY <1>6, <1>12, <1>13, HasIsHeld
    <2>2. once => \A u \in U : now[u] # h BY <1>10, <1>11, <1>12
    <2> QED BY <2>1, <2>2
  <1> QED BY <1>5, <1>19, <1>20, <1>21

-----------------------------------------------------------------------------
(* The bundles of an index.                                                *)

\* No bundle is empty, and its bins stay below their limit (unless that
\* leaves no room for an item at all).
Sized(bb) ==
  /\ ~Empty(bb)
  /\ MaxBinSize > 1 => \A i \in Bins : Len(bb.item_bins[i]) < MaxBinSize

\* A cache that counts as valid is that of the bins.
Cached(bb) ==
  /\ bb.cache_invalid \in BOOLEAN
  /\ ~bb.cache_invalid => bb.batched_polyns = [items |-> bb.item_bins, labels |-> bb.label_bins]

\* What each bundle of a database has to be.
OneRight(bb, once) == BundleRight(bb, once) /\ Sized(bb) /\ Cached(bb)

\* A sequence, of whatever it is.
IsSeq(s) == s \in Seq(Range(s))

\* An item may be asked to be in one bundle of a row only.
SetRight(bundles, once) ==
  /\ IsSeq(bundles)
  /\ \A i \in DOMAIN bundles : OneRight(bundles[i], once)
  /\ once => \A s \in Starts, h \in AnyHash : \A i, j \in DOMAIN bundles :
       Has(bundles[i], h, s) /\ Has(bundles[j], h, s) => i = j

\* Some bundle has the item in the row.
HeldAt(bundles, h, s) == \E i \in DOMAIN bundles : Has(bundles[i], h, s)

\* What is known of a sequence of bundles.
LEMMA SeqFacts ==
  ASSUME NEW bundles, IsSeq(bundles)
  PROVE  /\ Len(bundles) \in Nat
         /\ DOMAIN bundles = 1 .. Len(bundles)
         /\ \A i \in DOMAIN bundles : bundles[i] \in Range(bundles)
  <1>1. Len(bundles) \in Nat /\ DOMAIN bundles = 1 .. Len(bundles)
    BY LenProperties DEF IsSeq
  <1> QED BY <1>1 DEF Range

\* A sequence of anything is a sequence.
LEMMA SeqIsSeq ==
  ASSUME NEW S, NEW s \in Seq(S)
  PROVE  IsSeq(s)
  BY SeqOfRange DEF IsSeq

\* A bundle that has an item is not empty.
LEMMA HasNotEmpty ==
  ASSUME NEW bb, Shaped(bb), NEW s \in Starts, NEW h, Has(bb, h, s)
  PROVE  ~Empty(bb)
  <1>1. 1 \in 1 .. FeltsPerItem BY Sizes
  <1>2. BinOf(s, 1) \in Bins /\ BinOf(s, 1) \in DOMAIN bb.item_bins BY <1>1, RowFits DEF Shaped
  <1>3. \E i \in 1 .. Len(bb.item_bins[BinOf(s, 1)]) : TRUE BY <1>1 DEF Has, Contains
  <1>4. bb.item_bins[BinOf(s, 1)] # <<>>
    <2>1. ASSUME bb.item_bins[BinOf(s, 1)] = <<>> PROVE FALSE
      <3>1. Len(bb.item_bins[BinOf(s, 1)]) = 0 BY <2>1
      <3> QED BY <3>1, <1>3
    <2> QED BY <2>1
  <1> QED BY <1>2, <1>4 DEF Empty

\* When one of the bundles is replaced.
LEMMA ReplaceRight ==
  ASSUME NEW once \in BOOLEAN, NEW bundles, SetRight(bundles, once), NEW i \in DOMAIN bundles,
         NEW bb, OneRight(bb, once),
         once => \A s \in Starts, h \in AnyHash :
           Has(bb, h, s) => Has(bundles[i], h, s) \/ ~HeldAt(bundles, h, s)
  PROVE  LET then == [bundles EXCEPT ![i] = bb]
         IN  /\ SetRight(then, once)
             /\ \A s \in Starts, h \in AnyHash :
                  HeldAt(then, h, s) <=> \/ Has(bb, h, s)
                                         \/ \E j \in DOMAIN bundles : j # i /\ Has(bundles[j], h, s)
  <1> DEFINE then == [bundles EXCEPT ![i] = bb]
             S == Range(bundles) \cup {bb}
  <1>1. IsSeq(bundles) BY DEF SetRight
  <1>2. DOMAIN then = DOMAIN bundles BY <1>1
  <1>3. then[i] = bb /\ \A j \in DOMAIN bundles : j # i => then[j] = bundles[j] BY <1>1
  <1>4. then \in Seq(S)
    <2>1. bundles \in Seq(S) BY <1>1, SeqMonotonic DEF IsSeq
    <2>2. i \in 1 .. Len(bundles) BY <1>1, SeqFacts
    <2> QED BY <2>1, <2>2, ExceptSeq
  <1> HIDE DEF then
  <1>5. IsSeq(then) BY <1>4, SeqIsSeq
  <1>6. \A j \in DOMAIN then : OneRight(then[j], once) BY <1>2, <1>3 DEF SetRight
  <1>7. ASSUME once, NEW s \in Starts, NEW h \in AnyHash, NEW j \in DOMAIN then, NEW k \in DOMAIN then,
               Has(then[j], h, s), Has(then[k], h, s)
        PROVE  j = k
    <2>1. \A m, n \in DOMAIN bundles : Has(bundles[m], h, s) /\ Has(bundles[n], h, s) => m = n
      BY <1>7 DEF SetRight
    <2>2. Has(bb, h, s) => Has(bundles[i], h, s) \/ ~HeldAt(bundles, h, s) BY <1>7
    <2> QED BY <2>1, <2>2, <1>2, <1>3, <1>7 DEF HeldAt
  <1>8. SetRight(then, once) BY <1>5, <1>6, <1>7 DEF SetRight
  <1>9. \A s \in Starts, h \in AnyHash :
          HeldAt(then, h, s) <=> \/ Has(bb, h, s)
                                 \/ \E j \in DOMAIN bundles : j # i /\ Has(bundles[j], h, s)
    BY <1>2, <1>3 DEF HeldAt
  <1> QED BY <1>8, <1>9 DEF then

\* When one is added behind them.
LEMMA AppendRight ==
  ASSUME NEW once \in BOOLEAN, NEW bundles, SetRight(bundles, once),
         NEW bb, OneRight(bb, once),
         once => \A s \in Starts, h \in AnyHash : Has(bb, h, s) => ~HeldAt(bundles, h, s)
  PROVE  LET then == Append(bundles, bb)
         IN  /\ SetRight(then, once)
             /\ \A s \in Starts, h \in AnyHash :
                  HeldAt(then, h, s) <=> HeldAt(bundles, h, s) \/ Has(bb, h, s)
  <1> DEFINE then == Append(bundles, bb)
             S == Range(bundles) \cup {bb}
             n == Len(bundles)
  <1>1. IsSeq(bundles) BY DEF SetRight
  <1>2. n \in Nat /\ DOMAIN bundles = 1 .. n BY <1>1, SeqFacts
  <1>3. bundles \in Seq(S) BY <1>1, SeqMonotonic DEF IsSeq
  <1>4. /\ then \in Seq(S) /\ Len(then) = n + 1
        /\ \A i \in 1 .. n : then[i] = bundles[i]
        /\ then[n + 1] = bb
    BY <1>3, AppendProperties
  <1> HIDE DEF then, n
  <1>5. IsSeq(then) BY <1>4, SeqIsSeq
  <1>6. DOMAIN then = 1 .. n + 1 BY <1>4, <1>5, SeqFacts
  <1>7. \A i \in 1 .. n + 1 : i \in 1 .. n \/ i = n + 1 BY <1>2
  <1>8. n + 1 \in 1 .. n + 1 /\ \A i \in 1 .. n : i \in 1 .. n + 1 BY <1>2
  <1>9. \A j \in DOMAIN then : OneRight(then[j], once) BY <1>2, <1>4, <1>6, <1>7 DEF SetRight
  <1>10. ASSUME once, NEW s \in Starts, NEW h \in AnyHash, NEW j \in DOMAIN then, NEW k \in DOMAIN then,
                Has(then[j], h, s), Has(then[k], h, s)
         PROVE  j = k
    <2>1. \A m, o \in DOMAIN bundles : Has(bundles[m], h, s) /\ Has(bundles[o], h, s) => m = o
      BY <1>10 DEF SetRight
    <2>2. Has(bb, h, s) => ~HeldAt(bundles, h, s) BY <1>10
    <2> QED BY <2>1, <2>2, <1>2, <1>4, <1>6, <1>7, <1>10 DEF HeldAt
  <1>11. SetRight(then, once) BY <1>5, <1>9, <1>10 DEF SetRight
  <1>12. \A s \in Starts, h \in AnyHash : HeldAt(then, h, s) <=> HeldAt(bundles, h, s) \/ Has(bb, h, s)
    BY <1>2, <1>4, <1>6, <1>7, <1>8 DEF HeldAt
  <1> QED BY <1>11, <1>12 DEF then

\* When one is taken out that has no items.
LEMMA DropRight ==
  ASSUME NEW once \in BOOLEAN, NEW bundles, SetRight(bundles, once), NEW i \in DOMAIN bundles
  PROVE  LET then == RemoveAt(bundles, i)
         IN  /\ SetRight(then, once)
             /\ \A s \in Starts, h \in AnyHash :
                  HeldAt(then, h, s) <=> \E j \in DOMAIN bundles : j # i /\ Has(bundles[j], h, s)
  <1> DEFINE then == RemoveAt(bundles, i)
             n == Len(bundles)
             old(j) == IF j < i THEN j ELSE j + 1
  <1>1. IsSeq(bundles) BY DEF SetRight
  <1>2. n \in Nat /\ DOMAIN bundles = 1 .. n /\ i \in 1 .. n BY <1>1, SeqFacts
  <1>3. bundles \in Seq(Range(bundles)) BY <1>1 DEF IsSeq
  <1>4. /\ then \in Seq(Range(bundles)) /\ Len(then) = n - 1
        /\ \A j \in 1 .. n - 1 : then[j] = IF j < i THEN bundles[j] ELSE bundles[j + 1]
    BY <1>2, <1>3, RemoveAtProperties
  <1> HIDE DEF then, n
  <1>5. IsSeq(then) BY <1>4, SeqIsSeq
  <1>6. DOMAIN then = 1 .. n - 1 BY <1>4, <1>5, SeqFacts
  <1>7. \A j \in 1 .. n - 1 : old(j) \in 1 .. n /\ old(j) # i BY <1>2
  <1>8. \A j, k \in 1 .. n - 1 : old(j) = old(k) => j = k BY <1>2
  <1>9. \A m \in 1 .. n : m # i => \E j \in 1 .. n - 1 : old(j) = m
    <2>1. ASSUME NEW m \in 1 .. n, m # i PROVE \E j \in 1 .. n - 1 : old(j) = m
      <3>1. CASE m < i
        <4>1. m \in 1 .. n - 1 /\ old(m) = m BY <1>2, <3>1
        <4> QED BY <4>1
      <3>2. CASE ~ (m < i)
        <4>1. m - 1 \in 1 .. n - 1 /\ old(m - 1) = m BY <1>2, <2>1, <3>2
        <4> QED BY <4>1
      <3> QED BY <3>1, <3>2
    <2> QED BY <2>1
  <1>10. \A j \in 1 .. n - 1 : then[j] = bundles[old(j)] BY <1>4
  <1> HIDE DEF old
  <1>11. \A j \in DOMAIN then : OneRight(then[j], once) BY <1>2, <1>6, <1>7, <1>10 DEF SetRight
  <1>12. ASSUME once, NEW s \in Starts, NEW h \in AnyHash, NEW j \in DOMAIN then, NEW k \in DOMAIN then,
                Has(then[j], h, s), Has(then[k], h, s)
         PROVE  j = k
    <2>1. \A m, o \in DOMAIN bundles : Has(bundles[m], h, s) /\ Has(bundles[o], h, s) => m = o
      BY <1>12 DEF SetRight
    <2>2. old(j) = old(k) BY <2>1, <1>2, <1>6, <1>7, <1>10, <1>12
    <2> QED BY <2>2, <1>6, <1>8
  <1>13. SetRight(then, once) BY <1>5, <1>11, <1>12 DEF SetRight
  <1>14. \A s \in Starts, h \in AnyHash :
           HeldAt(then, h, s) <=> \E j \in DOMAIN bundles : j # i /\ Has(bundles[j], h, s)
    BY <1>2, <1>6, <1>7, <1>9, <1>10 DEF HeldAt
  <1> QED BY <1>13, <1>14 DEF then

-----------------------------------------------------------------------------
(* What a worker does with an entry.                                       *)

\* What preprocessing makes of a hash and a label for a location.
AnEntry(h, label, c) == [felts |-> Felts(h), label |-> label, at |-> c]

\* A bundle holds an entry if it has the item in the row of the entry.
LEMMA EntryHeld ==
  ASSUME NEW h \in AnyHash, NEW label, NEW c, UnpackBin(c) \in Starts, NEW bb
  PROVE  Holds(bb, AnEntry(h, label, c)) <=> Has(bb, h, UnpackBin(c))
  <1> DEFINE s == UnpackBin(c)
  <1>1. HasRoom(Felts(h), s) BY FeltsAre, RowFits DEF HasRoom
  <1>2. IsPresent(bb, Felts(h), s) <=> Has(bb, h, s) BY FeltsAre DEF IsPresent, Has
  <1> QED BY <1>1, <1>2 DEF Holds, AnEntry

\* An item that fits into a bundle leaves its bins below the limit.
LEMMA FittingRight ==
  ASSUME NEW once \in BOOLEAN, NEW bb, OneRight(bb, once), NEW h \in Hashes, NEW label, NEW c,
         UnpackBin(c) \in Starts, Fits(bb, AnEntry(h, label, c)), once => ~Has(bb, h, UnpackBin(c))
  PROVE  LET then == InsertForReal(bb, Felts(h), label, UnpackBin(c))
         IN  /\ OneRight(then, once)
             /\ \A r \in Starts, g \in AnyHash :
                  Has(then, g, r) <=> Has(bb, g, r) \/ (g = h /\ r = UnpackBin(c))
  <1>a. PICK s \in Starts : s = UnpackBin(c) OBVIOUS
  <1>b. PICK then : then = InsertForReal(bb, Felts(h), label, s) OBVIOUS
  <1> DEFINE sizes == {Len(bb.item_bins[BinOf(s, k)]) + 1 : k \in 1 .. FeltsPerItem}
  <1>0. h \in AnyHash /\ Shaped(bb) BY HashesAre DEF OneRight, BundleRight
  <1>1. /\ BundleRight(then, once)
        /\ \A r \in Starts, g \in AnyHash : Has(then, g, r) <=> Has(bb, g, r) \/ (g = h /\ r = s)
        /\ \A k \in 1 .. FeltsPerItem :
             Len(then.item_bins[BinOf(s, k)]) = Len(bb.item_bins[BinOf(s, k)]) + 1
        /\ \A i \in Bins :
             (\A k \in 1 .. FeltsPerItem : i # BinOf(s, k)) => then.item_bins[i] = bb.item_bins[i]
    <2>1. BundleRight(bb, once) /\ (once => ~Has(bb, h, s)) BY <1>a DEF OneRight
    <2> QED BY <2>1, <1>b, InsertRight
  <1>2. DryRun(bb, Felts(h), s) \in 1 .. MaxBinSize - 1 BY <1>a DEF Fits, AnEntry
  <1>3. MaxBinSize \in Nat /\ MaxBinSize > 1 BY <1>2, Sizes
  <1>4. DryRun(bb, Felts(h), s) = Max(sizes)
    <2>1. -1 \notin 1 .. MaxBinSize - 1 BY <1>3
    <2>2. DOMAIN Felts(h) = 1 .. FeltsPerItem BY <1>0, FeltsAre
    <2> QED BY <1>2, <2>1, <2>2 DEF DryRun
  <1>5. \A i \in Bins : Len(bb.item_bins[i]) \in Nat /\ Len(bb.item_bins[i]) < MaxBinSize
    <2>1. \A i \in Bins : Len(bb.item_bins[i]) \in Nat BY <1>0, LenProperties DEF Shaped
    <2> QED BY <2>1, <1>3 DEF OneRight, Sized
  <1>6. \A k \in 1 .. FeltsPerItem : Len(bb.item_bins[BinOf(s, k)]) + 1 < MaxBinSize
    <2>1. \A k \in 1 .. FeltsPerItem : Len(bb.item_bins[BinOf(s, k)]) + 1 \in 0 .. MaxBinSize
      BY <1>3, <1>5, RowFits
    <2>2. sizes \subseteq 0 .. MaxBinSize BY <2>1
    <2>3. sizes # {}
      <3>1. 1 \in 1 .. FeltsPerItem BY Sizes
      <3> QED BY <3>1
    <2>4. \E x \in sizes : \A y \in sizes : y <= x BY <1>3, <2>2, <2>3, Greatest
    <2>5. \A x \in sizes : x \in Int BY <2>2
    <2>6. \E x \in sizes : \A y \in sizes : x >= y
      <3>1. PICK x \in sizes : \A y \in sizes : y <= x BY <2>4
      <3>2. \A y \in sizes : x >= y BY <3>1, <2>5
      <3> QED BY <3>2
    <2>7. Max(sizes) \in sizes /\ \A y \in sizes : Max(sizes) >= y BY <2>6 DEF Max
    <2>8. Max(sizes) < MaxBinSize BY <1>2, <1>3, <1>4
    <2>9. ASSUME NEW k \in 1 .. FeltsPerItem
          PROVE  Len(bb.item_bins[BinOf(s, k)]) + 1 < MaxBinSize
      <3>1. PICK y \in sizes : y = Len(bb.item_bins[BinOf(s, k)]) + 1 OBVIOUS
      <3>2. PICK x \in sizes : x = Max(sizes) BY <2>7
      <3>3. x >= y /\ x < MaxBinSize /\ x \in Int /\ y \in Int BY <3>1, <3>2, <2>5, <2>7, <2>8
      <3> QED BY <3>1, <3>3, <1>3
    <2> QED BY <2>9
  <1> HIDE DEF sizes
  <1>7. \A i \in Bins : Len(then.item_bins[i]) < MaxBinSize
    <2>1. ASSUME NEW i \in Bins PROVE Len(then.item_bins[i]) < MaxBinSize
      <3>1. CASE \E k \in 1 .. FeltsPerItem : i = BinOf(s, k)
        <4>1. PICK k \in 1 .. FeltsPerItem : i = BinOf(s, k) BY <3>1
        <4>2. Len(bb.item_bins[i]) + 1 < MaxBinSize BY <4>1, <1>6
        <4>3. Len(then.item_bins[i]) = Len(bb.item_bins[i]) + 1 BY <3>1, <1>1
        <4> QED BY <4>2, <4>3
      <3>2. CASE ~\E k \in 1 .. FeltsPerItem : i = BinOf(s, k)
        <4>1. then.item_bins[i] = bb.item_bins[i] BY <3>2, <1>1
        <4> QED BY <4>1, <1>5
      <3> QED BY <3>1, <3>2
    <2> QED BY <2>1
  <1>8. Shaped(then) BY <1>1 DEF BundleRight
  <1>9. Has(then, h, s) BY <1>0, <1>1
  <1>10. ~Empty(then) BY <1>8, <1>9, HasNotEmpty
  <1>11. Cached(then)
    <2>1. then.cache_invalid = TRUE BY <1>0, <1>b DEF InsertForReal, Shaped, Fields
    <2> QED BY <2>1 DEF Cached
  <1>12. OneRight(then, once) BY <1>1, <1>7, <1>10, <1>11 DEF OneRight, Sized
  <1> QED BY <1>a, <1>b, <1>1, <1>12

\* The bundle that is made for an item.
LEMMA NewRight ==
  ASSUME NEW once \in BOOLEAN, NEW h \in Hashes, NEW label, NEW c, UnpackBin(c) \in Starts
  PROVE  LET then == NewBundle(AnEntry(h, label, c))
         IN  /\ OneRight(then, once)
             /\ \A r \in Starts, g \in AnyHash : Has(then, g, r) <=> g = h /\ r = UnpackBin(c)
  <1>a. PICK s \in Starts : s = UnpackBin(c) OBVIOUS
  <1> DEFINE bb == Clear(FALSE)
  <1>b. PICK then : then = InsertForReal(bb, Felts(h), label, s) OBVIOUS
  <1>0. h \in AnyHash BY HashesAre
  <1>1. /\ BundleRight(bb, once)
        /\ \A r \in Starts, g \in AnyHash : ~Has(bb, g, r)
        /\ \A i \in Bins : bb.item_bins[i] = <<>>
    BY ClearRight
  <1>2. NewBundle(AnEntry(h, label, c)) = then BY <1>a, <1>b DEF NewBundle, AnEntry
  <1> HIDE DEF bb
  <1>3. once => ~Has(bb, h, s) BY <1>0, <1>1
  <1>4. /\ BundleRight(then, once)
        /\ \A r \in Starts, g \in AnyHash : Has(then, g, r) <=> Has(bb, g, r) \/ (g = h /\ r = s)
        /\ \A k \in 1 .. FeltsPerItem :
             Len(then.item_bins[BinOf(s, k)]) = Len(bb.item_bins[BinOf(s, k)]) + 1
        /\ \A i \in Bins :
             (\A k \in 1 .. FeltsPerItem : i # BinOf(s, k)) => then.item_bins[i] = bb.item_bins[i]
    BY <1>b, <1>1, <1>3, InsertRight
  <1>5. Cached(then)
    <2>1. Shaped(bb) BY <1>1 DEF BundleRight
    <2>2. then.cache_invalid = TRUE BY <2>1, <1>b DEF InsertForReal, Shaped, Fields
    <2> QED BY <2>2 DEF Cached
  <1>6. \A r \in Starts, g \in AnyHash : Has(then, g, r) <=> g = h /\ r = s BY <1>1, <1>4
  <1>7. ~Empty(then)
    <2>1. Shaped(then) BY <1>4 DEF BundleRight
    <2>2. Has(then, h, s) BY <1>0, <1>6
    <2> QED BY <2>1, <2>2, HasNotEmpty
  <1>8. \A i \in Bins : Len(then.item_bins[i]) <= 1
    <2>1. ASSUME NEW i \in Bins PROVE Len(then.item_bins[i]) <= 1
      <3>1. Len(bb.item_bins[i]) = 0 BY <1>1
      <3>2. PICK d \in {0, 1} : Len(then.item_bins[i]) = Len(bb.item_bins[i]) + d
        <4>1. CASE \E k \in 1 .. FeltsPerItem : i = BinOf(s, k) BY <4>1, <1>4
        <4>2. CASE ~\E k \in 1 .. FeltsPerItem : i = BinOf(s, k)
          <5>1. then.item_bins[i] = bb.item_bins[i] BY <4>2, <1>4
          <5>2. Len(then.item_bins[i]) = 0 + 0 BY <5>1, <3>1
          <5> QED BY <5>2, <3>1
        <4> QED BY <4>1, <4>2
      <3> QED BY <3>1, <3>2
    <2> QED BY <2>1
  <1>9. \A i \in Bins : Len(then.item_bins[i]) \in Nat BY <1>4, LenProperties DEF BundleRight, Shaped
  <1>10. OneRight(then, once) BY <1>4, <1>5, <1>7, <1>8, <1>9, Sizes DEF OneRight, Sized
  <1> QED BY <1>a, <1>2, <1>6, <1>10

\* An entry is added to what an index holds.
Inserted(then, bundles, h, s) ==
  \A r \in Starts, g \in AnyHash : HeldAt(then, g, r) <=> HeldAt(bundles, g, r) \/ (g = h /\ r = s)

\* Where items are once, an entry to be inserted is not there yet.
NotYet(once, bundles, h, s) == once => ~HeldAt(bundles, h, s)

\* An entry that is written is held afterwards, and everything else that was
\* held is; nothing but a label that was moved from prevents it.
LEMMA WriteRight ==
  ASSUME NEW once \in BOOLEAN, NEW bundles, SetRight(bundles, once), NEW h \in Hashes, NEW label,
         label # MovedFrom, NEW c, UnpackBin(c) \in Starts,
         NotYet(once, bundles, h, UnpackBin(c))
  PROVE  /\ Write(bundles, AnEntry(h, label, c), FALSE) # {}
         /\ \A then \in Write(bundles, AnEntry(h, label, c), FALSE) :
              SetRight(then, once) /\ Inserted(then, bundles, h, UnpackBin(c))
  <1> DEFINE e == AnEntry(h, label, c)
             usable == {i \in DOMAIN bundles : Fits(bundles[i], e)}
  <1>1. PICK s \in Starts : s = UnpackBin(c) OBVIOUS
  <1>2. /\ e.label = label /\ e.felts = Felts(h) /\ e.at = c
    BY DEF AnEntry
  <1>a. once => ~HeldAt(bundles, h, s) BY <1>1 DEF NotYet
  <1>3. Write(bundles, e, FALSE) =
          IF usable = {} THEN {Append(bundles, NewBundle(e))}
          ELSE {[bundles EXCEPT ![Max(usable)] =
                   InsertForReal(bundles[Max(usable)], Felts(h), label, s)]}
    BY <1>1, <1>2 DEF Write
  <1>4. IsSeq(bundles) BY DEF SetRight
  <1>5. Len(bundles) \in Nat /\ DOMAIN bundles = 1 .. Len(bundles) BY <1>4, SeqFacts
  <1>6. CASE usable = {}
    <2>1. PICK bb : bb = NewBundle(e) OBVIOUS
    <2>2. /\ OneRight(bb, once)
          /\ \A r \in Starts, g \in AnyHash : Has(bb, g, r) <=> g = h /\ r = s
      BY <1>1, <2>1, NewRight
    <2>3. once => \A r \in Starts, g \in AnyHash : Has(bb, g, r) => ~HeldAt(bundles, g, r)
      BY <1>1, <1>a, <2>2
    <2>4. /\ SetRight(Append(bundles, bb), once)
          /\ \A r \in Starts, g \in AnyHash :
               HeldAt(Append(bundles, bb), g, r) <=> HeldAt(bundles, g, r) \/ Has(bb, g, r)
      BY <2>2, <2>3, AppendRight
    <2>5. Write(bundles, e, FALSE) = {Append(bundles, bb)} BY <1>3, <1>6, <2>1
    <2> HIDE DEF e
    <2>6. \A r \in Starts, g \in AnyHash :
            HeldAt(Append(bundles, bb), g, r) <=> HeldAt(bundles, g, r) \/ (g = h /\ r = s)
      BY <2>2, <2>4
    <2> QED BY <2>4, <2>5, <2>6, <1>1 DEF e, Inserted
  <1>7. CASE usable # {}
    <2>1. PICK i : i = Max(usable) OBVIOUS
    <2>2. i \in usable
      <3>1. usable \subseteq 0 .. Len(bundles) BY <1>5
      <3>2. \E x \in usable : \A y \in usable : y <= x BY <3>1, <1>5, <1>7, Greatest
      <3>3. \A x \in usable : x \in Int BY <3>1
      <3>4. \E x \in usable : \A y \in usable : x >= y
        <4>1. PICK x \in usable : \A y \in usable : y <= x BY <3>2
        <4>2. \A y \in usable : x >= y BY <4>1, <3>3
        <4> QED BY <4>2
      <3> HIDE DEF usable
      <3> QED BY <3>4, <2>1 DEF Max
    <2>3. i \in DOMAIN bundles /\ Fits(bundles[i], e) BY <2>2
    <2>4. OneRight(bundles[i], once) BY <2>3 DEF SetRight
    <2>5. PICK bb : bb = InsertForReal(bundles[i], Felts(h), label, s) OBVIOUS
    <2>6. once => ~Has(bundles[i], h, s) BY <1>1, <1>a, <2>3 DEF HeldAt
    <2>7. /\ OneRight(bb, once)
          /\ \A r \in Starts, g \in AnyHash :
               Has(bb, g, r) <=> Has(bundles[i], g, r) \/ (g = h /\ r = s)
      BY <1>1, <2>3, <2>4, <2>5, <2>6, FittingRight
    <2>8. PICK then : then = [bundles EXCEPT ![i] = bb] OBVIOUS
    <2>9. once => \A r \in Starts, g \in AnyHash :
            Has(bb, g, r) => Has(bundles[i], g, r) \/ ~HeldAt(bundles, g, r)
      BY <1>1, <1>a, <2>7
    <2>10. /\ SetRight(then, once)
           /\ \A r \in Starts, g \in AnyHash :
                HeldAt(then, g, r) <=> \/ Has(bb, g, r)
                                       \/ \E j \in DOMAIN bundles : j # i /\ Has(bundles[j], g, r)
      BY <2>3, <2>7, <2>8, <2>9, ReplaceRight
    <2>11. Write(bundles, e, FALSE) = {then} BY <1>3, <1>7, <2>1, <2>5, <2>8
    <2> HIDE DEF e
    <2>12. \A r \in Starts, g \in AnyHash :
             HeldAt(then, g, r) <=> HeldAt(bundles, g, r) \/ (g = h /\ r = s)
      BY <2>3, <2>7, <2>10 DEF HeldAt
    <2> QED BY <2>10, <2>11, <2>12, <1>1 DEF e, Inserted
  <1> QED BY <1>6, <1>7

\* The label of an item held is overwritten: everything held still is.
LEMMA OverwriteRight ==
  ASSUME NEW bundles, SetRight(bundles, FALSE), NEW h \in Hashes, NEW label,
         label # MovedFrom, NEW c, UnpackBin(c) \in Starts
  PROVE  LET results == Write(bundles, AnEntry(h, label, c), TRUE)
         IN  /\ HeldAt(bundles, h, UnpackBin(c)) => results # {}
             /\ \A then \in results :
                  /\ SetRight(then, FALSE)
                  /\ \A r \in Starts, g \in AnyHash : HeldAt(bundles, g, r) => HeldAt(then, g, r)
  <1> DEFINE e == AnEntry(h, label, c)
             usable == {i \in DOMAIN bundles : Holds(bundles[i], e) \/ Fits(bundles[i], e)}
             written(bb) == IF Holds(bb, e) THEN OverwriteLabels(bb, Felts(h), label, UnpackBin(c))
                            ELSE InsertForReal(bb, Felts(h), label, UnpackBin(c))
  <1>1. PICK s \in Starts : s = UnpackBin(c) OBVIOUS
  <1>2. /\ e.label = label /\ e.felts = Felts(h) /\ e.at = c /\ h \in AnyHash
    BY HashesAre DEF AnEntry
  <1>3. Write(bundles, e, TRUE) =
          IF usable = {} THEN {} ELSE {[bundles EXCEPT ![Max(usable)] = written(bundles[Max(usable)])]}
    BY <1>1, <1>2 DEF Write
  <1>4. IsSeq(bundles) BY DEF SetRight
  <1>5. Len(bundles) \in Nat /\ DOMAIN bundles = 1 .. Len(bundles) BY <1>4, SeqFacts
  <1>6. CASE usable = {}
    <2>1. ~HeldAt(bundles, h, s)
      <3>1. \A i \in DOMAIN bundles : ~Holds(bundles[i], e) BY <1>6
      <3> QED BY <3>1, <1>1, <1>2, EntryHeld DEF HeldAt
    <2> QED BY <2>1, <1>1, <1>3, <1>6
  <1>7. CASE usable # {}
    <2>1. PICK i : i = Max(usable) OBVIOUS
    <2>2. i \in usable
      <3>1. usable \subseteq 0 .. Len(bundles) BY <1>5
      <3>2. \E x \in usable : \A y \in usable : y <= x BY <3>1, <1>5, <1>7, Greatest
      <3>3. \A x \in usable : x \in Int BY <3>1
      <3>4. \E x \in usable : \A y \in usable : x >= y
        <4>1. PICK x \in usable : \A y \in usable : y <= x BY <3>2
        <4>2. \A y \in usable : x >= y BY <4>1, <3>3
        <4> QED BY <4>2
      <3> HIDE DEF usable
      <3> QED BY <3>4, <2>1 DEF Max
    <2>3. i \in DOMAIN bundles BY <2>2
    <2>4. OneRight(bundles[i], FALSE) BY <2>3 DEF SetRight
    <2>5. PICK bb : bb = written(bundles[i]) OBVIOUS
    <2>6. /\ OneRight(bb, FALSE)
          /\ \A r \in Starts, g \in AnyHash : Has(bundles[i], g, r) => Has(bb, g, r)
      <3>1. CASE Holds(bundles[i], e)
        <4>1. bb = OverwriteLabels(bundles[i], Felts(h), label, s) BY <3>1, <2>5, <1>1
        <4>2. Shaped(bundles[i]) BY <2>4 DEF OneRight, BundleRight
        <4>3. /\ DOMAIN bb = Fields /\ bb.stripped = FALSE
              /\ bb.item_bins = bundles[i].item_bins /\ bb.cache_invalid = TRUE
          BY <4>1, <4>2 DEF OverwriteLabels, Shaped, Fields
        <4>4. Shaped(bb) BY <4>2, <4>3 DEF Shaped
        <4>5. \A r \in Starts : RowRight(bb, r, FALSE)
          <5>1. \A r \in Starts : \A T, q : RowOf(bb, r, T, q) <=> RowOf(bundles[i], r, T, q)
            BY <4>3 DEF RowOf
          <5>2. \A r \in Starts : RowRight(bundles[i], r, FALSE) BY <2>4 DEF OneRight, BundleRight
          <5> QED BY <5>1, <5>2 DEF RowRight
        <4>6. Sized(bb) BY <2>4, <4>3 DEF OneRight, Sized, Empty
        <4>7. Cached(bb) BY <4>3 DEF Cached
        <4>8. \A r \in Starts, g \in AnyHash : Has(bundles[i], g, r) => Has(bb, g, r) BY <4>3 DEF Has
        <4> QED BY <4>4, <4>5, <4>6, <4>7, <4>8 DEF OneRight, BundleRight
      <3>2. CASE ~Holds(bundles[i], e)
        <4>1. bb = InsertForReal(bundles[i], Felts(h), label, s) BY <3>2, <2>5, <1>1
        <4>2. Fits(bundles[i], e) BY <2>2, <3>2
        <4> QED BY <4>1, <4>2, <1>1, <2>4, FittingRight
      <3> QED BY <3>1, <3>2
    <2>7. PICK then : then = [bundles EXCEPT ![i] = bb] OBVIOUS
    <2>8. /\ SetRight(then, FALSE)
          /\ \A r \in Starts, g \in AnyHash :
               HeldAt(then, g, r) <=> \/ Has(bb, g, r)
                                      \/ \E j \in DOMAIN bundles : j # i /\ Has(bundles[j], g, r)
      BY <2>3, <2>6, <2>7, ReplaceRight
    <2>9. Write(bundles, e, TRUE) = {then} BY <1>3, <1>7, <2>1, <2>5, <2>7
    <2> HIDE DEF e
    <2>10. \A r \in Starts, g \in AnyHash : HeldAt(bundles, g, r) => HeldAt(then, g, r)
      BY <2>3, <2>6, <2>8 DEF HeldAt
    <2> QED BY <2>8, <2>9, <2>10, <1>1 DEF e
  <1> QED BY <1>6, <1>7

\* An entry that is removed was held; nothing else is lost, and it is gone if
\* it was held once.
LEMMA RemoveEntryRight ==
  ASSUME NEW once \in BOOLEAN, NEW bundles, SetRight(bundles, once), NEW h \in AnyHash, NEW label,
         NEW c, UnpackBin(c) \in Starts
  PROVE  LET results == RemoveEntry(bundles, AnEntry(h, label, c))
         IN  /\ results # {} <=> HeldAt(bundles, h, UnpackBin(c))
             /\ \A then \in results :
                  /\ SetRight(then, once)
                  /\ \A r \in Starts, g \in AnyHash :
                       g # h \/ r # UnpackBin(c) => (HeldAt(then, g, r) <=> HeldAt(bundles, g, r))
                  /\ once => ~HeldAt(then, h, UnpackBin(c))
  <1> DEFINE e == AnEntry(h, label, c)
             first == {j \in DOMAIN bundles :
                         Holds(bundles[j], e) /\ \A k \in 1 .. j - 1 : ~Holds(bundles[k], e)}
  <1>1. PICK s \in Starts : s = UnpackBin(c) OBVIOUS
  <1>2. /\ e.label = label /\ e.felts = Felts(h) /\ e.at = c
    BY DEF AnEntry
  <1>3. \A i \in DOMAIN bundles : Holds(bundles[i], e) <=> Has(bundles[i], h, s)
    BY <1>1, EntryHeld
  <1>4. RemoveEntry(bundles, e) =
          {Without(bundles, i, RemoveItem(bundles[i], Felts(h), s)) : i \in first}
    BY <1>1, <1>2 DEF RemoveEntry
  <1>5. IsSeq(bundles) BY DEF SetRight
  <1>6. Len(bundles) \in Nat /\ DOMAIN bundles = 1 .. Len(bundles) BY <1>5, SeqFacts
  <1> HIDE DEF e
  <1>7. first # {} <=> HeldAt(bundles, h, s)
    <2>1. first # {} => HeldAt(bundles, h, s) BY <1>3 DEF HeldAt
    <2>2. ASSUME HeldAt(bundles, h, s) PROVE first # {}
      <3> DEFINE holding == {j \in DOMAIN bundles : Holds(bundles[j], e)}
      <3>1. holding \subseteq Nat /\ holding # {} BY <2>2, <1>3, <1>6 DEF HeldAt
      <3>2. PICK j \in holding : \A k \in holding : j <= k BY <3>1, Least
      <3>3. \A k \in 1 .. j - 1 : k \in DOMAIN bundles /\ ~ (j <= k) BY <1>6
      <3>4. \A k \in 1 .. j - 1 : ~Holds(bundles[k], e) BY <3>2, <3>3
      <3> QED BY <3>2, <3>4
    <2> QED BY <2>1, <2>2
  <1>8. ASSUME NEW i \in first, NEW then, then = Without(bundles, i, RemoveItem(bundles[i], Felts(h), s))
        PROVE  /\ SetRight(then, once)
               /\ \A r \in Starts, g \in AnyHash :
                    g # h \/ r # s => (HeldAt(then, g, r) <=> HeldAt(bundles, g, r))
               /\ once => ~HeldAt(then, h, s)
    <2>1. i \in DOMAIN bundles /\ Has(bundles[i], h, s) BY <1>3
    <2>2. OneRight(bundles[i], once) BY <2>1 DEF SetRight
    <2>3. PICK bb : bb = RemoveItem(bundles[i], Felts(h), s) OBVIOUS
    <2>4. BundleRight(bundles[i], once) BY <2>2 DEF OneRight
    <2>5. /\ BundleRight(bb, once)
          /\ \A r \in Starts, g \in AnyHash : g # h \/ r # s => (Has(bb, g, r) <=> Has(bundles[i], g, r))
          /\ once => ~Has(bb, h, s)
          /\ \A k \in Bins : Len(bb.item_bins[k]) <= Len(bundles[i].item_bins[k])
      BY <2>1, <2>3, <2>4, RemoveRight
    <2>6. Shaped(bb) /\ Shaped(bundles[i]) BY <2>4, <2>5 DEF BundleRight
    <2>7. once => \A j \in DOMAIN bundles : Has(bundles[j], h, s) => i = j
      <3>1. h \in AnyHash OBVIOUS
      <3> QED BY <2>1, <1>1 DEF SetRight
    <2>8. CASE Empty(bb)
      <3>1. then = RemoveAt(bundles, i) BY <2>3, <2>8, <1>8 DEF Without
      <3>2. /\ SetRight(then, once)
            /\ \A r \in Starts, g \in AnyHash :
                 HeldAt(then, g, r) <=> \E j \in DOMAIN bundles : j # i /\ Has(bundles[j], g, r)
        BY <2>1, <3>1, DropRight
      <3>3. \A r \in Starts, g \in AnyHash : ~Has(bb, g, r) BY <2>6, <2>8, HasNotEmpty
      <3>4. \A r \in Starts, g \in AnyHash :
              g # h \/ r # s => (HeldAt(then, g, r) <=> HeldAt(bundles, g, r))
        BY <2>1, <2>5, <3>2, <3>3 DEF HeldAt
      <3>5. once => ~HeldAt(then, h, s) BY <2>7, <3>2
      <3> QED BY <3>2, <3>4, <3>5
    <2>9. CASE ~Empty(bb)
      <3>1. then = [bundles EXCEPT ![i] = bb] BY <2>3, <2>9, <1>8 DEF Without
      <3>2. Sized(bb)
        <4>1. \A k \in Bins : Len(bb.item_bins[k]) \in Nat /\ Len(bundles[i].item_bins[k]) \in Nat
          BY <2>6, LenProperties DEF Shaped
        <4>2. MaxBinSize > 1 => \A k \in Bins : Len(bundles[i].item_bins[k]) < MaxBinSize
          BY <2>2 DEF OneRight, Sized
        <4>3. MaxBinSize > 1 => \A k \in Bins : Len(bb.item_bins[k]) < MaxBinSize
          BY <2>5, <4>1, <4>2, Sizes
        <4> QED BY <4>3, <2>9 DEF Sized
      <3>3. Cached(bb)
        <4>1. bb.cache_invalid = TRUE BY <2>3, <2>6 DEF RemoveItem, Shaped, Fields
        <4> QED BY <4>1 DEF Cached
      <3>4. OneRight(bb, once) BY <2>5, <3>2, <3>3 DEF OneRight
      <3>5. once => \A r \in Starts, g \in AnyHash :
              Has(bb, g, r) => Has(bundles[i], g, r) \/ ~HeldAt(bundles, g, r)
        BY <2>1, <2>5
      <3>6. /\ SetRight(then, once)
            /\ \A r \in Starts, g \in AnyHash :
                 HeldAt(then, g, r) <=> \/ Has(bb, g, r)
                                        \/ \E j \in DOMAIN bundles : j # i /\ Has(bundles[j], g, r)
        BY <2>1, <3>1, <3>4, <3>5, ReplaceRight
      <3>7. \A r \in Starts, g \in AnyHash :
              g # h \/ r # s => (HeldAt(then, g, r) <=> HeldAt(bundles, g, r))
        BY <2>1, <2>5, <3>6 DEF HeldAt
      <3>8. once => ~HeldAt(then, h, s) BY <2>5, <2>7, <3>6
      <3> QED BY <3>6, <3>7, <3>8
    <2> QED BY <2>8, <2>9
  <1> QED BY <1>1, <1>4, <1>7, <1>8 DEF e

-----------------------------------------------------------------------------
(* The bundles of an index with other caches, or in another order.         *)

\* They are right as before, and hold what they held.
LEMMA RearrangedRight ==
  ASSUME NEW once \in BOOLEAN, NEW bundles, SetRight(bundles, once),
         NEW then, then = [i \in DOMAIN bundles |-> then[i]],
         NEW from \in [DOMAIN bundles -> DOMAIN bundles],
         \A i \in DOMAIN bundles : \E j \in DOMAIN bundles : from[j] = i,
         once => \A i, j \in DOMAIN bundles : from[i] = from[j] => i = j,
         \A i \in DOMAIN bundles :
           /\ OneRight(then[i], once)
           /\ then[i].item_bins = bundles[from[i]].item_bins
  PROVE  /\ SetRight(then, once)
         /\ \A s \in Starts, h \in AnyHash : HeldAt(then, h, s) <=> HeldAt(bundles, h, s)
  <1>1. IsSeq(bundles) BY DEF SetRight
  <1>2. Len(bundles) \in Nat /\ DOMAIN bundles = 1 .. Len(bundles) BY <1>1, SeqFacts
  <1>3. DOMAIN then = DOMAIN bundles OBVIOUS
  <1>4. then \in [1 .. Len(bundles) -> Range(then)] BY <1>2, <1>3 DEF Range
  <1>5. then \in Seq(Range(then)) BY <1>2, <1>4, SeqDef
  <1>6. IsSeq(then) BY <1>5 DEF IsSeq
  <1>7. \A i \in DOMAIN bundles : \A s, h : Has(then[i], h, s) <=> Has(bundles[from[i]], h, s)
    BY DEF Has
  <1>8. ASSUME once, NEW s \in Starts, NEW h \in AnyHash, NEW i \in DOMAIN then, NEW j \in DOMAIN then,
               Has(then[i], h, s), Has(then[j], h, s)
        PROVE  i = j
    <2>1. Has(bundles[from[i]], h, s) /\ Has(bundles[from[j]], h, s) BY <1>3, <1>7, <1>8
    <2>2. from[i] = from[j] BY <1>3, <1>8, <2>1 DEF SetRight
    <2> QED BY <1>3, <1>8, <2>2
  <1>9. SetRight(then, once) BY <1>3, <1>6, <1>8 DEF SetRight
  <1>10. \A s \in Starts, h \in AnyHash : HeldAt(then, h, s) <=> HeldAt(bundles, h, s)
    BY <1>3, <1>7 DEF HeldAt
  <1> QED BY <1>9, <1>10

\* A cache that is generated is that of the bins.
LEMMA RegenRight ==
  ASSUME NEW once \in BOOLEAN, NEW bb, OneRight(bb, once), NEW then, then = RegenCache(bb)
  PROVE  /\ OneRight(then, once)
         /\ then.item_bins = bb.item_bins
         /\ then.cache_invalid = FALSE
  <1>1. CASE bb.cache_invalid
    <2>1. DOMAIN bb = Fields BY DEF OneRight, BundleRight, Shaped
    <2>2. /\ DOMAIN then = Fields /\ then.stripped = bb.stripped
          /\ then.item_bins = bb.item_bins /\ then.cache_invalid = FALSE
          /\ then.batched_polyns = [items |-> then.item_bins, labels |-> then.label_bins]
      BY <1>1, <2>1 DEF RegenCache, RegenPlaintexts, RegenPolyns, ClearCache, Fields
    <2>3. Shaped(then) BY <2>2 DEF OneRight, BundleRight, Shaped
    <2>4. \A s \in Starts : RowRight(then, s, once)
      <3>1. \A s \in Starts : \A T, held : RowOf(then, s, T, held) <=> RowOf(bb, s, T, held)
        BY <2>2 DEF RowOf
      <3>2. \A s \in Starts : RowRight(bb, s, once) BY DEF OneRight, BundleRight
      <3> QED BY <3>1, <3>2 DEF RowRight
    <2>5. Sized(then) BY <2>2 DEF OneRight, Sized, Empty
    <2>6. Cached(then) BY <2>2 DEF Cached
    <2> QED BY <2>2, <2>3, <2>4, <2>5, <2>6 DEF OneRight, BundleRight
  <1>2. CASE ~bb.cache_invalid
    <2>1. then = bb BY <1>2 DEF RegenCache
    <2>2. bb.cache_invalid \in BOOLEAN BY DEF OneRight, Cached
    <2> QED BY <1>2, <2>1, <2>2
  <1> QED BY <1>1, <1>2

\* A bundle is read as it was written.
LEMMA LoadRight ==
  ASSUME NEW once \in BOOLEAN, NEW bb, OneRight(bb, once), NEW then, then = Load(Save(bb))
  PROVE  OneRight(then, once) /\ then.item_bins = bb.item_bins
  <1>1. /\ DOMAIN then = Fields /\ then.stripped = bb.stripped
        /\ then.item_bins = bb.item_bins /\ then.label_bins = bb.label_bins
        /\ then.cache_invalid = ~~bb.cache_invalid
        /\ then.batched_polyns = IF bb.cache_invalid THEN NoPolyns ELSE bb.batched_polyns
    BY DEF Load, Save, Fields
  <1>2. Shaped(then) BY <1>1 DEF OneRight, BundleRight, Shaped
  <1>3. \A s \in Starts : RowRight(then, s, once)
    <2>1. \A s \in Starts : \A T, held : RowOf(then, s, T, held) <=> RowOf(bb, s, T, held)
      BY <1>1 DEF RowOf
    <2>2. \A s \in Starts : RowRight(bb, s, once) BY DEF OneRight, BundleRight
    <2> QED BY <2>1, <2>2 DEF RowRight
  <1>4. Sized(then) BY <1>1 DEF OneRight, Sized, Empty
  <1>5. Cached(then)
    <2>1. Cached(bb) BY DEF OneRight
    <2> QED BY <1>1, <2>1 DEF Cached
  <1> QED BY <1>1, <1>2, <1>3, <1>4, <1>5 DEF OneRight, BundleRight

\* At the end of a call every bundle has its cache.
LEMMA CachesRight ==
  ASSUME NEW once \in BOOLEAN, NEW bundles, SetRight(bundles, once),
         NEW then, then = [i \in DOMAIN bundles |-> RegenCache(bundles[i])]
  PROVE  /\ SetRight(then, once)
         /\ \A s \in Starts, h \in AnyHash : HeldAt(then, h, s) <=> HeldAt(bundles, h, s)
         /\ \A i \in DOMAIN then : then[i].cache_invalid = FALSE
  <1>1. \A i \in DOMAIN bundles : then[i] = RegenCache(bundles[i]) OBVIOUS
  <1>2. \A i \in DOMAIN bundles : OneRight(bundles[i], once) BY DEF SetRight
  <1>3. DOMAIN then = DOMAIN bundles OBVIOUS
  <1>4. \A i \in DOMAIN bundles : /\ OneRight(then[i], once)
                                  /\ then[i].item_bins = bundles[i].item_bins
                                  /\ then[i].cache_invalid = FALSE
    BY <1>1, <1>2, RegenRight
  <1> DEFINE from == [i \in DOMAIN bundles |-> i]
  <1>5. from \in [DOMAIN bundles -> DOMAIN bundles] /\ \A i \in DOMAIN bundles : from[i] = i OBVIOUS
  <1>6. then = [i \in DOMAIN bundles |-> then[i]] OBVIOUS
  <1> HIDE DEF from
  <1>7. /\ SetRight(then, once)
        /\ \A s \in Starts, h \in AnyHash : HeldAt(then, h, s) <=> HeldAt(bundles, h, s)
    <2>1. \A i \in DOMAIN bundles : \E j \in DOMAIN bundles : from[j] = i BY <1>5
    <2>2. \A i, j \in DOMAIN bundles : from[i] = from[j] => i = j BY <1>5
    <2>3. \A i \in DOMAIN bundles : OneRight(then[i], once) /\ then[i].item_bins = bundles[from[i]].item_bins
      BY <1>4, <1>5
    <2> QED BY <1>5, <1>6, <2>1, <2>2, <2>3, RearrangedRight
  <1> QED BY <1>3, <1>4, <1>7

\* The bundles of a database that is loaded, in the order in which the tasks
\* have added them.
LEMMA LoadedRight ==
  ASSUME NEW once \in BOOLEAN, NEW bundles, SetRight(bundles, once),
         NEW order \in Orders(bundles),
         NEW then, then = [i \in DOMAIN bundles |-> RegenCache(bundles[order[i]])]
  PROVE  /\ SetRight(then, once)
         /\ \A s \in Starts, h \in AnyHash : HeldAt(then, h, s) <=> HeldAt(bundles, h, s)
         /\ \A i \in DOMAIN then : then[i].cache_invalid = FALSE
  <1>1. /\ order \in [DOMAIN bundles -> DOMAIN bundles]
        /\ \A i \in DOMAIN bundles : \E j \in DOMAIN bundles : order[j] = i
    BY DEF Orders, Bijection, Surjection
  <1>2. \A i \in DOMAIN bundles : then[i] = RegenCache(bundles[order[i]]) OBVIOUS
  <1>3. \A i \in DOMAIN bundles : OneRight(bundles[i], once) BY DEF SetRight
  <1>4. DOMAIN then = DOMAIN bundles OBVIOUS
  <1>5. \A i \in DOMAIN bundles : /\ OneRight(then[i], once)
                                  /\ then[i].item_bins = bundles[order[i]].item_bins
                                  /\ then[i].cache_invalid = FALSE
    <2>1. ASSUME NEW i \in DOMAIN bundles
          PROVE  /\ OneRight(then[i], once)
                 /\ then[i].item_bins = bundles[order[i]].item_bins
                 /\ then[i].cache_invalid = FALSE
      <3>1. order[i] \in DOMAIN bundles BY <1>1
      <3>2. OneRight(bundles[order[i]], once) BY <1>3, <3>1
      <3>3. then[i] = RegenCache(bundles[order[i]]) BY <1>2
      <3> QED BY <3>2, <3>3, RegenRight
    <2> QED BY <2>1
  <1>6. then = [i \in DOMAIN bundles |-> then[i]] OBVIOUS
  <1>7. \A i, j \in DOMAIN bundles : order[i] = order[j] => i = j
    BY DEF Orders, Bijection, Injection, IsInjective
  <1>8. /\ SetRight(then, once)
        /\ \A s \in Starts, h \in AnyHash : HeldAt(then, h, s) <=> HeldAt(bundles, h, s)
    <2>1. \A i \in DOMAIN bundles : OneRight(then[i], once) /\ then[i].item_bins = bundles[order[i]].item_bins
      BY <1>5
    <2>2. order \in [DOMAIN bundles -> DOMAIN bundles] BY <1>1
    <2>3. \A i \in DOMAIN bundles : \E j \in DOMAIN bundles : order[j] = i BY <1>1
    <2>4. PICK f \in [DOMAIN bundles -> DOMAIN bundles] : f = order BY <2>2
    <2>5. \A i \in DOMAIN bundles : \E j \in DOMAIN bundles : f[j] = i BY <2>3, <2>4
    <2>6. \A i, j \in DOMAIN bundles : f[i] = f[j] => i = j BY <1>7, <2>4
    <2>7. \A i \in DOMAIN bundles :
            OneRight(then[i], once) /\ then[i].item_bins = bundles[f[i]].item_bins BY <2>1, <2>4
    <2>8. PICK t : t = then OBVIOUS
    <2>9. t = [i \in DOMAIN bundles |-> t[i]] BY <1>6, <2>8
    <2>10. \A i \in DOMAIN bundles :
             OneRight(t[i], once) /\ t[i].item_bins = bundles[f[i]].item_bins BY <2>7, <2>8
    <2>11. /\ SetRight(t, once)
           /\ \A s \in Starts, h \in AnyHash : HeldAt(t, h, s) <=> HeldAt(bundles, h, s)
      BY ONLY SetRight(bundles, once), once \in BOOLEAN, <2>5, <2>6, <2>9, <2>10, RearrangedRight
    <2> QED BY <2>8, <2>11
  <1> QED BY <1>4, <1>5, <1>8

-----------------------------------------------------------------------------
(* The state of the database.                                              *)

\* Databases that are used as they should be: items are removed that are
\* there, and no batch mixes new items with others if there are labels.
Once == LabelSize = 0 /\ ~RemoveAbsent
Ordered == LabelSize = 0 \/ ~MixedBatches

\* The bundle index and the first bin of a location.
Index(l) == UnpackBundle(CuckooIdx(l))
Start(l) == UnpackBin(CuckooIdx(l))

\* An item is at a location.
HeldIn(bundles, h, l) == HeldAt(bundles[Index(l)], h, Start(l))

\* The locations of an item are rows of some bundle index.
LEMMA Places ==
  ASSUME NEW h \in AnyHash, NEW l \in Locations[h.item]
  PROVE  l \in Nat /\ Start(l) \in Starts /\ Index(l) \in BundleIdxs
  <1>1. h.item \in Item BY DEF AnyHash
  <1> QED BY <1>1, AtAStart DEF Start, Index

\* A location is told by the bundle index and the bin.
LEMMA PlacesApart ==
  ASSUME NEW l \in Nat, NEW m \in Nat, Index(l) = Index(m), Start(l) = Start(m)
  PROVE  l = m
  <1> DEFINE F == FeltsPerItem
             N == NumBins
             c == l * F
             d == m * F
  <1>1. F \in Nat \ {0} /\ N \in Nat \ {0} BY Sizes
  <1> HIDE DEF F, N
  <1>2. c \in Nat /\ d \in Nat BY <1>1
  <1>3. /\ Start(l) = c % N /\ Start(m) = d % N
        /\ Index(l) = (c - (c % N)) \div N /\ Index(m) = (d - (d % N)) \div N
    BY DEF Start, Index, UnpackBin, UnpackBundle, CuckooIdx, F, N
  <1> HIDE DEF c, d
  <1>4. \A n \in Nat : (n - (n % N)) \div N = n \div N
    <2> SUFFICES ASSUME NEW n \in Nat PROVE (n - (n % N)) \div N = n \div N OBVIOUS
    <2>1. /\ n \div N \in Nat /\ n % N \in 0 .. N - 1 /\ n = (n \div N) * N + (n % N)
      BY <1>1, Division
    <2>2. PICK q \in Nat : q = n \div N BY <2>1
    <2>3. n - (n % N) = q * N + 0 BY <1>1, <2>1, <2>2
    <2>4. 0 \in 0 .. N - 1 BY <1>1
    <2>5. (q * N + 0) \div N = q BY <1>1, <2>4, Divided
    <2> QED BY <2>2, <2>3, <2>5
  <1>5. c \div N = d \div N /\ c % N = d % N BY <1>2, <1>3, <1>4
  <1>6. c = (c \div N) * N + (c % N) /\ d = (d \div N) * N + (d % N) BY <1>1, <1>2, Division
  <1>7. c = d BY <1>5, <1>6
  <1>8. 0 \in 0 .. F - 1 BY <1>1
  <1>9. (l * F + 0) \div F = l /\ (m * F + 0) \div F = m BY <1>1, <1>8, Divided
  <1>10. l * F + 0 = m * F + 0 BY <1>7 DEF c, d
  <1> QED BY <1>9, <1>10

\* The three kinds of phases.
Works == {"insert", "overwrite", "remove"}

\* What a phase works on: items that were taken out of the set, or items of
\* the set, which are there to be overwritten.
PhaseRight(p, items, bundles) ==
  /\ p.phase \in Works
  /\ DOMAIN p.data \subseteq Nat
  /\ p.phase = "remove" => \A i \in DOMAIN p.data : p.data[i].hash \in AnyHash \ items
  /\ p.phase # "remove" => \A i \in DOMAIN p.data : p.data[i].hash \in items
  /\ p.phase = "insert" => \A i \in DOMAIN p.data : p.data[i].label # MovedFrom
  /\ p.phase = "overwrite" =>
       /\ LabelSize # 0
       /\ Ordered => \A i \in DOMAIN p.data :
            /\ p.data[i].label # MovedFrom
            /\ \A l \in Locations[p.data[i].hash.item] : HeldIn(bundles, p.data[i].hash, l)
  /\ Once => \A i, j \in DOMAIN p.data : p.data[i].hash = p.data[j].hash => i = j

\* A call has at most two phases, and then the second one inserts.
PhasesRight(phases, items, bundles) ==
  \/ phases = <<>>
  \/ \E p : phases = <<p>> /\ PhaseRight(p, items, bundles)
  \/ \E p, q : /\ phases = <<p, q>> /\ p.phase = "overwrite" /\ q.phase = "insert"
               /\ PhaseRight(p, items, bundles) /\ PhaseRight(q, items, bundles)

\* The phase that is being run.
Now(phases, work) == phases # <<>> /\ phases[1].phase = work

\* What the tasks have still to do.
Todo(t, data, h, l) ==
  \E i \in DOMAIN data : data[i].hash = h /\ <<i, l>> \in t[Index(l)].todo

\* An item is still to be inserted at a location,
Awaited(phases, t, h, l) ==
  \/ Now(phases, "insert") /\ Todo(t, phases[1].data, h, l)
  \/ \E p, q : phases = <<p, q>> /\ \E i \in DOMAIN q.data : q.data[i].hash = h

\* or still to be removed from it.
Doomed(phases, t, h, l) == Now(phases, "remove") /\ Todo(t, phases[1].data, h, l)

\* A task has what it still has to do, and a state.
Task == [todo : SUBSET (Nat \X Nat), state : {"none", "queued", "running", "done", "failed"}]

\* Tasks work on entries of the phase, each on those of its bundle index.  They
\* fail only where batches may be wrong: with labels, or if absent items are removed.
TasksRight(t, phases, stage) ==
  /\ t \in [BundleIdxs -> Task]
  /\ \A b \in BundleIdxs : \A i, l : <<i, l>> \in t[b].todo =>
       /\ phases # <<>> /\ i \in DOMAIN phases[1].data
       /\ l \in Locations[phases[1].data[i].hash.item] /\ Index(l) = b
  /\ \A b \in BundleIdxs : t[b].state \in {"queued", "running"} => t[b].todo # {}
  /\ stage = "running" => \A b \in BundleIdxs : t[b].state \in {"none", "done"} => t[b].todo = {}
  /\ \A b \in BundleIdxs : t[b].state = "failed" => ~Once /\ (Ordered => Now(phases, "remove"))

\* A call has phases while it is served, and is unwound for the same reasons.
CallRight(c) ==
  /\ DOMAIN c = {"op", "stage", "request", "phases"}
  /\ c.stage \in {"idle", "running", "unwinding"}
  /\ c.stage = "idle" => c.phases = <<>>
  /\ c.stage = "unwinding" => ~Once /\ (Ordered => Now(c.phases, "remove"))

\* An item of the set is at each of its locations, or will be; no other is
\* anywhere, or it is to go.
HeldRight(items, bundles, phases, t) ==
  /\ Ordered => \A h \in items : \A l \in Locations[h.item] :
       HeldIn(bundles, h, l) \/ Awaited(phases, t, h, l)
  /\ Once => \A h \in AnyHash : \A l \in Locations[h.item] :
       /\ HeldIn(bundles, h, l) =>
            (h \in items /\ ~Awaited(phases, t, h, l)) \/ Doomed(phases, t, h, l)
       /\ Doomed(phases, t, h, l) => HeldIn(bundles, h, l)

\* A database between calls.
ItemsRight(items, bundles) ==
  /\ items \subseteq Hashes
  /\ Ordered => \A h \in items : \A l \in Locations[h.item] : HeldIn(bundles, h, l)
  /\ Once => \A h \in AnyHash : \A l \in Locations[h.item] : HeldIn(bundles, h, l) => h \in items

\* The bundles of a database.
AllRight(bundles) == \A b \in BundleIdxs : SetRight(bundles[b], Once)

\* What strip leaves of a bundle says nothing of its bins.
Perished(bb) == DOMAIN bb = Fields /\ bb.stripped = TRUE /\ bb.cache_invalid = FALSE
AllPerished(bundles) == \A b \in BundleIdxs : \A i \in DOMAIN bundles[b] : Perished(bundles[b][i])

\* The bundles that a file is loaded as.
Loaded(bundles) == [b \in BundleIdxs |-> [i \in DOMAIN bundles[b] |-> Load(bundles[b][i])]]

\* A saved database is right when it is loaded.
FileRight(db) ==
  /\ db.stripped \in BOOLEAN
  /\ IF db.stripped THEN AllPerished(Loaded(db.bundles))
     ELSE AllRight(Loaded(db.bundles)) /\ ItemsRight(db.hashed_items, Loaded(db.bundles))

\* The invariant.
Inv ==
  /\ stripped \in BOOLEAN
  /\ bin_bundles = [b \in BundleIdxs |-> bin_bundles[b]]
  /\ CallRight(call)
  /\ hashed_items \subseteq Hashes
  /\ IF stripped THEN call.stage = "idle" /\ hashed_items = {} /\ AllPerished(bin_bundles)
     ELSE AllRight(bin_bundles) /\ PhasesRight(call.phases, hashed_items, bin_bundles)
  /\ TasksRight(tasks, call.phases, call.stage)
  /\ ~stripped => HeldRight(hashed_items, bin_bundles, call.phases, tasks)
  /\ \A db \in file : FileRight(db)

\* When no call is served, a database that is right answers for itself.
LEMMA AtIdle ==
  ASSUME NEW items, NEW bundles, NEW t
  PROVE  items \subseteq Hashes =>
           (HeldRight(items, bundles, <<>>, t) <=> ItemsRight(items, bundles))
  <1>1. \A h, l : ~Awaited(<<>>, t, h, l)
    <2>1. \A p, q : <<>> # <<p, q>> OBVIOUS
    <2> QED BY <2>1 DEF Awaited, Now
  <1>2. \A h, l : ~Doomed(<<>>, t, h, l) BY DEF Doomed, Now
  <1> QED BY <1>1, <1>2 DEF HeldRight, ItemsRight

\* The phases of a call.
LEMMA OnePhase ==
  ASSUME NEW p
  PROVE  /\ <<p>> # <<>> /\ <<p>>[1] = p /\ Len(<<p>>) = 1
         /\ \A work : Now(<<p>>, work) <=> p.phase = work
         /\ \A t, h, l : Awaited(<<p>>, t, h, l) <=> p.phase = "insert" /\ Todo(t, p.data, h, l)
         /\ \A t, h, l : Doomed(<<p>>, t, h, l) <=> p.phase = "remove" /\ Todo(t, p.data, h, l)
  <1>1. <<p>> # <<>> /\ <<p>>[1] = p /\ Len(<<p>>) = 1 OBVIOUS
  <1>2. \A q, r : <<p>> # <<q, r>>
    <2>1. \A q, r : Len(<<q, r>>) = 2 OBVIOUS
    <2> QED BY <1>1, <2>1
  <1>3. \A work : Now(<<p>>, work) <=> p.phase = work BY <1>1 DEF Now
  <1> QED BY <1>1, <1>2, <1>3 DEF Awaited, Doomed

\* What is awaited while the first of two phases is run.
LEMMA AwaitedOfTwo ==
  ASSUME NEW p, NEW q, NEW t, NEW h, NEW l
  PROVE  /\ Awaited(<<p, q>>, t, h, l) <=>
              \/ p.phase = "insert" /\ Todo(t, p.data, h, l)
              \/ \E i \in DOMAIN q.data : q.data[i].hash = h
         /\ Doomed(<<p, q>>, t, h, l) <=> p.phase = "remove" /\ Todo(t, p.data, h, l)
  <1>1. <<p, q>> # <<>> /\ <<p, q>>[1] = p OBVIOUS
  <1>2. \A work : Now(<<p, q>>, work) <=> p.phase = work BY <1>1 DEF Now
  <1>3. \A r, s : <<p, q>> = <<r, s>> <=> p = r /\ q = s OBVIOUS
  <1>4. (\E r, s : <<p, q>> = <<r, s>> /\ \E i \in DOMAIN s.data : s.data[i].hash = h)
          <=> \E i \in DOMAIN q.data : q.data[i].hash = h BY <1>3
  <1> QED BY <1>1, <1>2, <1>4 DEF Awaited, Doomed

\* The parts of a sequence of two.
LEMMA TwoPhases ==
  ASSUME NEW p, NEW q
  PROVE  /\ <<p, q>> # <<>> /\ <<p, q>>[1] = p /\ <<p, q>>[2] = q /\ Len(<<p, q>>) = 2
         /\ Tail(<<p, q>>) = <<q>>
         /\ \A work : Now(<<p, q>>, work) <=> p.phase = work
  <1>1. <<p, q>> # <<>> /\ <<p, q>>[1] = p /\ <<p, q>>[2] = q /\ Len(<<p, q>>) = 2 OBVIOUS
  <1>2. Tail(<<p, q>>) = <<q>> OBVIOUS
  <1>3. \A work : Now(<<p, q>>, work) <=> p.phase = work BY <1>1 DEF Now
  <1> QED BY <1>1, <1>2, <1>3

\* The tasks of a phase have to do with each of its items what it is about.
LEMMA TasksForRight ==
  ASSUME NEW data, DOMAIN data \subseteq Nat, \A i \in DOMAIN data : data[i].hash \in AnyHash,
         NEW t, t = TasksFor(data)
  PROVE  /\ t \in [BundleIdxs -> Task]
         /\ \A b \in BundleIdxs : \A i, l : <<i, l>> \in t[b].todo <=>
              i \in DOMAIN data /\ l \in Locations[data[i].hash.item] /\ Index(l) = b
         /\ \A b \in BundleIdxs : /\ t[b].state \in {"none", "queued"}
                                  /\ t[b].state = "none" <=> t[b].todo = {}
  <1> DEFINE todo(b) == {key \in Entries(data) : UnpackBundle(CuckooIdx(key[2])) = b}
  <1>1. \A b \in BundleIdxs : t[b] = IF todo(b) = {} THEN NoTask ELSE [todo |-> todo(b), state |-> "queued"]
    BY DEF TasksFor
  <1>2. \A i, l : <<i, l>> \in Entries(data) <=> i \in DOMAIN data /\ l \in Locations[data[i].hash.item]
    <2>1. ASSUME NEW i, NEW l, <<i, l>> \in Entries(data)
          PROVE  i \in DOMAIN data /\ l \in Locations[data[i].hash.item]
      <3>1. PICK j \in DOMAIN data : \E m \in Locations[data[j].hash.item] : <<i, l>> = <<j, m>>
        BY <2>1 DEF Entries
      <3>2. PICK m \in Locations[data[j].hash.item] : <<i, l>> = <<j, m>> BY <3>1
      <3>3. i = j /\ l = m BY <3>2, SamePair
      <3> QED BY <3>3
    <2>2. ASSUME NEW i, NEW l, i \in DOMAIN data, l \in Locations[data[i].hash.item]
          PROVE  <<i, l>> \in Entries(data)
      BY <2>2 DEF Entries
    <2> QED BY <2>1, <2>2
  <1>3. \A b : todo(b) \subseteq Nat \X Nat
    <2>1. ASSUME NEW key \in Entries(data) PROVE key \in Nat \X Nat
      <3>1. PICK j \in DOMAIN data : \E m \in Locations[data[j].hash.item] : key = <<j, m>> BY DEF Entries
      <3>2. PICK m \in Locations[data[j].hash.item] : key = <<j, m>> BY <3>1
      <3>3. m \in Nat BY Places
      <3> QED BY <3>2, <3>3
    <2> QED BY <2>1
  <1>4. \A b, i, l : <<i, l>> \in todo(b) <=>
              i \in DOMAIN data /\ l \in Locations[data[i].hash.item] /\ Index(l) = b
    BY <1>2 DEF Index
  <1> HIDE DEF todo
  <1>5. \A b \in BundleIdxs : /\ t[b] \in Task /\ t[b].todo = todo(b)
                              /\ t[b].state \in {"none", "queued"}
                              /\ t[b].state = "none" <=> t[b].todo = {}
    <2> SUFFICES ASSUME NEW b \in BundleIdxs
                 PROVE  /\ t[b] \in Task /\ t[b].todo = todo(b)
                        /\ t[b].state \in {"none", "queued"}
                        /\ t[b].state = "none" <=> t[b].todo = {}
      OBVIOUS
    <2>1. CASE todo(b) = {}
      <3>1. t[b] = NoTask BY <1>1, <2>1
      <3>2. t[b].todo = {} /\ t[b].state = "none" BY <3>1 DEF NoTask
      <3>3. NoTask \in Task BY DEF NoTask, Task
      <3> QED BY <2>1, <3>1, <3>2, <3>3
    <2>2. CASE todo(b) # {}
      <3>1. t[b] = [todo |-> todo(b), state |-> "queued"] BY <1>1, <2>2
      <3>2. t[b].todo = todo(b) /\ t[b].state = "queued" BY <3>1
      <3>3. todo(b) \in SUBSET (Nat \X Nat) BY <1>3
      <3>4. t[b] \in Task BY <3>1, <3>3 DEF Task
      <3> QED BY <2>2, <3>2, <3>4
    <2> QED BY <2>1, <2>2
  <1>6. t \in [BundleIdxs -> Task] BY <1>5 DEF TasksFor
  <1> QED BY <1>4, <1>5, <1>6

-----------------------------------------------------------------------------
(* What a call makes of its batch.                                         *)

\* What is made of a batch has its length.
LEMMA BatchFacts ==
  ASSUME NEW batch \in InsertBatches \cup RemoveBatches, NEW data, DOMAIN data = DOMAIN batch
  PROVE  /\ Len(batch) \in Nat /\ DOMAIN batch = 1 .. Len(batch)
         /\ Len(data) = Len(batch)
  <1>1. batch \in Seq(Range(batch)) BY ReceiverDBConfigured DEF ReceiverDBAssumption
  <1>2. Len(batch) \in Nat /\ DOMAIN batch = 1 .. Len(batch) BY <1>1, LenProperties
  <1>3. PICK n \in Nat : n = Len(batch) BY <1>2
  <1>4. PICK seq : seq = [i \in 1 .. n |-> data[i]] OBVIOUS
  <1>5. seq \in [1 .. n -> Range(seq)] BY <1>4 DEF Range
  <1>6. seq \in Seq(Range(seq)) BY <1>5, SeqDef
  <1>7. Len(seq) \in Nat /\ DOMAIN seq = 1 .. Len(seq) BY <1>6, LenProperties
  <1>8. DOMAIN seq = 1 .. n BY <1>4
  <1>9. Len(seq) = n BY <1>7, <1>8, SameLength
  <1>10. Len(seq) = Len(data) BY <1>2, <1>3, <1>4, <1>9, <1>8
  <1> QED BY <1>2, <1>3, <1>9, <1>10

\* What remove_if leaves behind the entries it keeps.
LEMMA LeftoverIs ==
  ASSUME NEW n \in Nat, NEW data, DOMAIN data = 1 .. n, Len(data) = n,
         \A i \in 1 .. n : DOMAIN data[i] = {"hash", "label"},
         NEW isKept \in [1 .. n -> BOOLEAN],
         NEW rest, rest = Leftover(data, isKept)
  PROVE  /\ DOMAIN rest \subseteq Nat
         /\ \A i \in DOMAIN rest : \E j \in 1 .. n : rest[i].hash = data[j].hash
         /\ (\A i, j \in 1 .. n : i < j /\ ~isKept[i] => ~isKept[j]) =>
              \A i \in DOMAIN rest : \E j \in 1 .. n : ~isKept[j] /\ rest[i] = data[j]
         /\ (\A j \in 1 .. n : isKept[j]) => DOMAIN rest = {}
  <1> DEFINE K == {j \in 1 .. n : isKept[j]}
             left(e, kept) == IF kept /\ LabelSize # 0 THEN [e EXCEPT !.label = MovedFrom] ELSE e
  <1>1. DOMAIN Kept(data, isKept) = K BY DEF Kept
  <1>2. PICK m : m = Cardinality(K) OBVIOUS
  <1>3. rest = [i \in n + m + 1 .. n + n |-> left(data[i - n], isKept[i - n])]
    BY <1>1, <1>2 DEF Leftover
  <1>4. IsFiniteSet(1 .. n) /\ Cardinality(1 .. n) = n
    <2>1. Cardinality(1 .. n) = (IF 1 > n THEN 0 ELSE n - 1 + 1) /\ IsFiniteSet(1 .. n) BY FS_Interval
    <2> QED BY <2>1
  <1>5. K \subseteq 1 .. n OBVIOUS
  <1>6. m \in Nat
    <2>1. IsFiniteSet(K) BY <1>4, <1>5, FS_Subset
    <2> QED BY <1>2, <2>1, FS_CardinalityType
  <1>7. \A i \in n + m + 1 .. n + n : i \in Nat /\ i - n \in m + 1 .. n /\ i - n \in 1 .. n BY <1>6
  <1>8. DOMAIN rest = n + m + 1 .. n + n BY <1>3
  <1>9. DOMAIN rest \subseteq Nat BY <1>7, <1>8
  <1>10. \A i \in DOMAIN rest : rest[i] = left(data[i - n], isKept[i - n]) BY <1>3, <1>8
  <1>11. ASSUME NEW i \in DOMAIN rest PROVE \E j \in 1 .. n : rest[i].hash = data[j].hash
    <2>1. i - n \in 1 .. n BY <1>7, <1>8
    <2>2. "hash" \in DOMAIN data[i - n] BY <2>1
    <2>3. left(data[i - n], isKept[i - n]).hash = data[i - n].hash BY <2>2
    <2> QED BY <1>10, <2>1, <2>3
  <1>12. ASSUME \A i, j \in 1 .. n : i < j /\ ~isKept[i] => ~isKept[j], NEW i \in DOMAIN rest
         PROVE  \E j \in 1 .. n : ~isKept[j] /\ rest[i] = data[j]
    <2>1. i - n \in m + 1 .. n /\ i - n \in 1 .. n BY <1>7, <1>8
    <2>2. ~isKept[i - n]
      <3>1. CASE K = {} BY <2>1, <3>1
      <3>2. CASE K # {}
        <4>1. K \subseteq 0 .. n OBVIOUS
        <4>2. PICK k \in K : \A j \in K : j <= k BY <4>1, <3>2, Greatest
        <4>3. \A j \in 1 .. k : isKept[j]
          <5>1. \A j \in 1 .. k : j \in 1 .. n /\ (j < k \/ j = k) BY <4>2
          <5>2. isKept[k] BY <4>2
          <5> QED BY <1>12, <5>1, <5>2
        <4>4. \A j \in K : j \in 1 .. k BY <4>2
        <4>5. K = 1 .. k BY <4>2, <4>3, <4>4
        <4>6. k \in Nat /\ k >= 1 BY <4>2
        <4>7. Cardinality(1 .. k) = k
          <5>1. Cardinality(1 .. k) = IF 1 > k THEN 0 ELSE k - 1 + 1 BY <4>6, FS_Interval
          <5> QED BY <4>6, <5>1
        <4>8. m = k BY <1>2, <4>5, <4>7
        <4>9. i - n \notin 1 .. k BY <2>1, <4>6, <4>8
        <4> QED BY <2>1, <4>5, <4>9
      <3> QED BY <3>1, <3>2
    <2>3. rest[i] = data[i - n] BY <1>10, <2>2
    <2> QED BY <2>1, <2>2, <2>3
  <1>13. ASSUME \A j \in 1 .. n : isKept[j] PROVE DOMAIN rest = {}
    <2>1. K = 1 .. n BY <1>13
    <2>2. m = n BY <1>2, <1>4, <2>1
    <2> QED BY <1>8, <2>2
  <1> QED BY <1>9, <1>11, <1>12, <1>13

\* One phase after another, if there is something to do in it.
Joined(phases, p, q) ==
  /\ DOMAIN p.data = {} /\ DOMAIN q.data = {} => phases = <<>>
  /\ DOMAIN p.data # {} /\ DOMAIN q.data = {} => phases = <<p>>
  /\ DOMAIN p.data = {} /\ DOMAIN q.data # {} => phases = <<q>>
  /\ DOMAIN p.data # {} /\ DOMAIN q.data # {} => phases = <<p, q>>

\* The phases of a call put together.
LEMMA PhasesConcat ==
  ASSUME NEW p, NEW q
  PROVE  /\ <<>> \o <<>> = <<>> /\ <<p>> \o <<>> = <<p>> /\ <<>> \o <<q>> = <<q>>
         /\ <<p>> \o <<q>> = <<p, q>>
  <1>1. <<>> \in Seq({p, q}) /\ <<p>> \in Seq({p, q}) /\ <<q>> \in Seq({p, q}) OBVIOUS
  <1>2. /\ <<>> \o <<>> = <<>> /\ <<p>> \o <<>> = <<p>> /\ <<>> \o <<q>> = <<q>>
    BY <1>1, ConcatEmptySeq
  <1>3. <<p>> \o <<q>> = <<p, q>>
    <2> DEFINE joined == <<p>> \o <<q>>
    <2>1. Len(<<p>>) = 1 /\ Len(<<q>>) = 1 /\ <<p>>[1] = p /\ <<q>>[1] = q OBVIOUS
    <2>2. /\ joined \in Seq({p, q}) /\ Len(joined) = 1 + 1
          /\ \A i \in 1 .. 1 + 1 : joined[i] = IF i <= 1 THEN <<p>>[i] ELSE <<q>>[i - 1]
      BY <1>1, <2>1, ConcatProperties
    <2> HIDE DEF joined
    <2>3. Len(joined) = 2 /\ joined[1] = p /\ joined[2] = q BY <2>1, <2>2
    <2>4. <<p, q>> \in Seq({p, q}) /\ Len(<<p, q>>) = 2 /\ <<p, q>>[1] = p /\ <<p, q>>[2] = q OBVIOUS
    <2>5. \A i \in 1 .. 2 : joined[i] = <<p, q>>[i] BY <2>3, <2>4
    <2> QED BY <2>2, <2>3, <2>4, <2>5, SeqEqual DEF joined
  <1> QED BY <1>2, <1>3

\* The tasks that a call starts with, or that a phase does.
Dispatched(t, phases) == phases # <<>> => t = TasksFor(phases[1].data)

\* The tasks a phase begins with.
LEMMA TasksBegin ==
  ASSUME NEW items, items \subseteq Hashes, NEW bundles, NEW phases,
         PhasesRight(phases, items, bundles), phases # <<>>, NEW t, Dispatched(t, phases)
  PROVE  TasksRight(t, phases, "running")
  <1>1. PICK p : p = phases[1] /\ PhaseRight(p, items, bundles)
    BY OnePhase, TwoPhases DEF PhasesRight
  <1>2. DOMAIN p.data \subseteq Nat BY <1>1 DEF PhaseRight
  <1>3. \A i \in DOMAIN p.data : p.data[i].hash \in AnyHash BY <1>1, HashesAre DEF PhaseRight
  <1>4. /\ t \in [BundleIdxs -> Task]
        /\ \A b \in BundleIdxs : \A i, l : <<i, l>> \in t[b].todo <=>
             i \in DOMAIN p.data /\ l \in Locations[p.data[i].hash.item] /\ Index(l) = b
        /\ \A b \in BundleIdxs : /\ t[b].state \in {"none", "queued"}
                                 /\ t[b].state = "none" <=> t[b].todo = {}
    BY <1>1, <1>2, <1>3, TasksForRight DEF Dispatched
  <1>5. TasksRight(t, phases, "running") BY <1>1, <1>4 DEF TasksRight
  <1> QED BY <1>5

\* Its tasks have to do with each item that the phase works on, at each of its
\* locations.
LEMMA TodoAll ==
  ASSUME NEW data, DOMAIN data \subseteq Nat, \A i \in DOMAIN data : data[i].hash \in AnyHash,
         NEW t, t = TasksFor(data)
  PROVE  \A h \in AnyHash : \A l \in Locations[h.item] :
           Todo(t, data, h, l) <=> \E i \in DOMAIN data : data[i].hash = h
  <1>1. /\ t \in [BundleIdxs -> Task]
        /\ \A b \in BundleIdxs : \A i, l : <<i, l>> \in t[b].todo <=>
             i \in DOMAIN data /\ l \in Locations[data[i].hash.item] /\ Index(l) = b
        /\ \A b \in BundleIdxs : /\ t[b].state \in {"none", "queued"}
                                 /\ t[b].state = "none" <=> t[b].todo = {}
    BY TasksForRight
  <1>2. ASSUME NEW h \in AnyHash, NEW l \in Locations[h.item]
        PROVE  Todo(t, data, h, l) <=> \E i \in DOMAIN data : data[i].hash = h
    <2>1. Index(l) \in BundleIdxs BY Places
    <2> QED BY <1>1, <2>1 DEF Todo
  <1> QED BY <1>2

\* A phase works on hashes.
LEMMA TodoOfPhase ==
  ASSUME NEW items, items \subseteq Hashes, NEW bundles, NEW p, PhaseRight(p, items, bundles),
         NEW data, data = p.data
  PROVE  DOMAIN data \subseteq Nat /\ \A i \in DOMAIN data : data[i].hash \in AnyHash
  BY HashesAre DEF PhaseRight

\* Which positions of a batch are new.
NewAre(isNew, n, hash, items) ==
  \A i \in 1 .. n : isNew[i] <=> hash[i] \notin items /\ ~\E j \in 1 .. i - 1 : hash[j] = hash[i]

\* The items of a batch that are new, the first time that they are named.
LEMMA NewItems ==
  ASSUME NEW n \in Nat, NEW hash, NEW items, NEW isNew, NewAre(isNew, n, hash, items)
  PROVE  /\ \A i \in 1 .. n : hash[i] \in items \/ \E j \in 1 .. n : isNew[j] /\ hash[j] = hash[i]
         /\ \A i, j \in 1 .. n : isNew[i] /\ isNew[j] /\ hash[i] = hash[j] => i = j
  <1>1. ASSUME NEW k \in 1 .. n, hash[k] \notin items
        PROVE  \E j \in 1 .. n : isNew[j] /\ hash[j] = hash[k]
    <2> DEFINE at == {i \in 1 .. n : hash[i] = hash[k]}
    <2>1. at \subseteq Nat /\ k \in at OBVIOUS
    <2>2. \E i \in at : \A j \in at : i <= j BY <2>1, Least
    <2>3. PICK i \in at : \A j \in at : i <= j BY <2>2
    <2>4. i \in 1 .. n /\ hash[i] = hash[k] OBVIOUS
    <2>5. \A j \in 1 .. i - 1 : j \in 1 .. n /\ ~(i <= j) BY <2>4
    <2>6. \A j \in 1 .. i - 1 : hash[j] # hash[k] BY <2>3, <2>5
    <2>7. isNew[i] BY <1>1, <2>4, <2>6 DEF NewAre
    <2> QED BY <2>4, <2>7
  <1>2. ASSUME NEW i \in 1 .. n, NEW j \in 1 .. n, isNew[i], isNew[j], hash[i] = hash[j]
        PROVE  i = j
    <2>1. i \in 1 .. j - 1 \/ j \in 1 .. i - 1 \/ i = j OBVIOUS
    <2> QED BY <1>2, <2>1 DEF NewAre
  <1> QED BY <1>1, <1>2

\* What it overwrites.
LEMMA ExistingRight ==
  ASSUME NEW n \in Nat, NEW data, DOMAIN data = 1 .. n, Len(data) = n,
         NEW items, NEW then, NEW bundles, ItemsRight(items, bundles),
         NEW isNew \in [1 .. n -> BOOLEAN],
         \A i \in 1 .. n : DOMAIN data[i] = {"hash", "label"},
         \A i \in 1 .. n : data[i].hash \in then /\ data[i].label # MovedFrom,
         \A i \in 1 .. n : isNew[i] <=> /\ data[i].hash \notin items
                                        /\ ~\E j \in 1 .. i - 1 : data[j].hash = data[i].hash,
         Ordered => /\ \A i, j \in 1 .. n : data[i].hash = data[j].hash => i = j
                    /\ \A i, j \in 1 .. n : i < j /\ ~isNew[i] => ~isNew[j],
         LabelSize # 0,
         NEW existing, existing = Leftover(data, isNew),
         NEW p, p.phase = "overwrite", p.data = existing
  PROVE  PhaseRight(p, then, bundles)
  <1>1. /\ DOMAIN existing \subseteq Nat
        /\ \A i \in DOMAIN existing : \E j \in 1 .. n : existing[i].hash = data[j].hash
        /\ (\A i, j \in 1 .. n : i < j /\ ~isNew[i] => ~isNew[j]) =>
             \A i \in DOMAIN existing : \E j \in 1 .. n : ~isNew[j] /\ existing[i] = data[j]
    <2>1. n \in Nat /\ DOMAIN data = 1 .. n /\ Len(data) = n /\ isNew \in [1 .. n -> BOOLEAN] OBVIOUS
    <2>2. \A i \in 1 .. n : DOMAIN data[i] = {"hash", "label"} OBVIOUS
    <2>3. existing = Leftover(data, isNew) OBVIOUS
    <2> QED BY ONLY <2>1, <2>2, <2>3, LeftoverIs
  <1>2. \A i \in DOMAIN existing : existing[i].hash \in then BY <1>1
  <1>3. ASSUME Ordered, NEW i \in DOMAIN existing
        PROVE  /\ existing[i].label # MovedFrom
               /\ \A l \in Locations[existing[i].hash.item] : HeldIn(bundles, existing[i].hash, l)
    <2>1. PICK j \in 1 .. n : ~isNew[j] /\ existing[i] = data[j] BY <1>1, <1>3
    <2>2. \A k \in 1 .. j - 1 : k \in 1 .. n /\ k # j OBVIOUS
    <2>3. data[j].hash \in items BY <1>3, <2>1, <2>2
    <2>4. \A l \in Locations[data[j].hash.item] : HeldIn(bundles, data[j].hash, l)
      BY <1>3, <2>3 DEF ItemsRight
    <2> QED BY <2>1, <2>4
  <1> QED BY <1>1, <1>2, <1>3 DEF PhaseRight, Works, Once

\* The phases of insert_or_assign: what is new is awaited.
LEMMA InsertPhases ==
  ASSUME NEW then, then \subseteq Hashes, NEW bundles,
         NEW p, p.phase = "overwrite", DOMAIN p.data # {} => PhaseRight(p, then, bundles),
         NEW q, q.phase = "insert", PhaseRight(q, then, bundles),
         NEW phases, Joined(phases, p, q), NEW t, Dispatched(t, phases)
  PROVE  /\ PhasesRight(phases, then, bundles)
         /\ \A h \in AnyHash : \A l \in Locations[h.item] :
              /\ Awaited(phases, t, h, l) <=> \E i \in DOMAIN q.data : q.data[i].hash = h
              /\ ~Doomed(phases, t, h, l)
  <1>0. \/ DOMAIN q.data = {} /\ phases = <<>>
        \/ DOMAIN p.data # {} /\ DOMAIN q.data = {} /\ phases = <<p>>
        \/ phases = <<q>>
        \/ DOMAIN p.data # {} /\ phases = <<p, q>>
    BY DEF Joined
  <1>1. PhasesRight(phases, then, bundles)
    <2>1. CASE phases = <<>> BY <2>1 DEF PhasesRight
    <2>2. CASE DOMAIN p.data # {} /\ phases = <<p>> BY <2>2 DEF PhasesRight
    <2>3. CASE phases = <<q>> BY <2>3 DEF PhasesRight
    <2>4. CASE DOMAIN p.data # {} /\ phases = <<p, q>> BY <2>4 DEF PhasesRight
    <2> QED BY <1>0, <2>1, <2>2, <2>3, <2>4
  <1>2. ASSUME NEW h \in AnyHash, NEW l \in Locations[h.item]
        PROVE  /\ Awaited(phases, t, h, l) <=> \E i \in DOMAIN q.data : q.data[i].hash = h
               /\ ~Doomed(phases, t, h, l)
    <2>1. CASE DOMAIN q.data = {} /\ phases = <<>>
      <3>1. \A a, b : <<>> # <<a, b>> OBVIOUS
      <3>2. ~\E a, b : phases = <<a, b>> BY ONLY <2>1, <3>1
      <3>3. ~Awaited(phases, t, h, l) /\ ~Doomed(phases, t, h, l) BY ONLY <2>1, <3>2 DEF Awaited, Doomed, Now
      <3> QED BY ONLY <2>1, <3>3
    <2>2. CASE DOMAIN q.data = {} /\ phases = <<p>>
      <3>1. ~Awaited(<<p>>, t, h, l) /\ ~Doomed(<<p>>, t, h, l) BY OnePhase
      <3> QED BY ONLY <2>2, <3>1
    <2>3. CASE phases = <<q>>
      <3>1. phases # <<>> /\ phases[1] = q BY ONLY <2>3, OnePhase
      <3>3. t = TasksFor(q.data) BY ONLY <3>1, Dispatched(t, phases) DEF Dispatched
      <3>4. Todo(t, q.data, h, l) <=> \E i \in DOMAIN q.data : q.data[i].hash = h
        <4>1. PICK d : d = q.data OBVIOUS
        <4>2. DOMAIN d \subseteq Nat /\ \A i \in DOMAIN d : d[i].hash \in AnyHash
          BY ONLY then \subseteq Hashes, PhaseRight(q, then, bundles), <4>1, TodoOfPhase
        <4>3. t = TasksFor(d) BY ONLY <3>3, <4>1
        <4>4. \A g \in AnyHash : \A m \in Locations[g.item] :
                Todo(t, d, g, m) <=> \E i \in DOMAIN d : d[i].hash = g
          BY ONLY <4>2, <4>3, TodoAll
        <4> QED BY ONLY <1>2, <4>1, <4>4
      <3>5. /\ Awaited(<<q>>, t, h, l) <=> q.phase = "insert" /\ Todo(t, q.data, h, l)
            /\ Doomed(<<q>>, t, h, l) <=> q.phase = "remove" /\ Todo(t, q.data, h, l)
        BY ONLY OnePhase
      <3> QED BY ONLY q.phase = "insert", <2>3, <3>4, <3>5
    <2>4. CASE phases = <<p, q>>
      <3>1. /\ Awaited(<<p, q>>, t, h, l) <=> \/ p.phase = "insert" /\ Todo(t, p.data, h, l)
                                              \/ \E i \in DOMAIN q.data : q.data[i].hash = h
            /\ Doomed(<<p, q>>, t, h, l) <=> p.phase = "remove" /\ Todo(t, p.data, h, l)
        BY ONLY AwaitedOfTwo
      <3> QED BY ONLY p.phase = "overwrite", <2>4, <3>1
    <2> QED BY <1>0, <2>1, <2>2, <2>3, <2>4
  <1> QED BY <1>1, <1>2

\* A batch as insert_or_assign looks at it.
BatchRight(items, n, data, isNew) ==
  /\ n \in Nat /\ DOMAIN data = 1 .. n /\ Len(data) = n
  /\ \A i \in 1 .. n : DOMAIN data[i] = {"hash", "label"}
  /\ \A i \in 1 .. n : data[i].hash \in Hashes /\ data[i].label # MovedFrom
  /\ isNew \in [1 .. n -> BOOLEAN]
  /\ \A i \in 1 .. n : isNew[i] <=> /\ data[i].hash \notin items
                                     /\ ~\E j \in 1 .. i - 1 : data[j].hash = data[i].hash
  /\ LabelSize # 0 /\ Ordered => /\ \A i, j \in 1 .. n : data[i].hash = data[j].hash => i = j
                                 /\ \A i, j \in 1 .. n : i < j /\ ~isNew[i] => ~isNew[j]

\* What it makes of it.
InsertMade(items, n, data, isNew, existing, new, then, phases) ==
  /\ existing = IF LabelSize = 0 THEN <<>> ELSE Leftover(data, isNew)
  /\ DOMAIN new = {i \in 1 .. n : isNew[i]} /\ \A i \in DOMAIN new : new[i] = data[i]
  /\ then = items \cup {data[i].hash : i \in 1 .. n}
  /\ phases = Phase("overwrite", existing) \o Phase("insert", new)

\* insert_or_assign takes a database that is right to one that will be.
LEMMA ToBeInserted ==
  ASSUME NEW items, NEW bundles, ItemsRight(items, bundles),
         NEW n, NEW data, NEW isNew, BatchRight(items, n, data, isNew),
         NEW existing, NEW new, NEW then, NEW phases,
         InsertMade(items, n, data, isNew, existing, new, then, phases), NEW t, Dispatched(t, phases)
  PROVE  then \subseteq Hashes /\ PhasesRight(phases, then, bundles) /\ HeldRight(then, bundles, phases, t)
  <1>b. /\ n \in Nat /\ DOMAIN data = 1 .. n /\ Len(data) = n
        /\ \A i \in 1 .. n : DOMAIN data[i] = {"hash", "label"}
        /\ \A i \in 1 .. n : data[i].hash \in Hashes /\ data[i].label # MovedFrom
        /\ isNew \in [1 .. n -> BOOLEAN]
        /\ \A i \in 1 .. n : isNew[i] <=> /\ data[i].hash \notin items
                                           /\ ~\E j \in 1 .. i - 1 : data[j].hash = data[i].hash
        /\ LabelSize # 0 /\ Ordered => /\ \A i, j \in 1 .. n : data[i].hash = data[j].hash => i = j
                                       /\ \A i, j \in 1 .. n : i < j /\ ~isNew[i] => ~isNew[j]
    BY DEF BatchRight
  <1>c. /\ existing = (IF LabelSize = 0 THEN <<>> ELSE Leftover(data, isNew))
        /\ DOMAIN new = {i \in 1 .. n : isNew[i]} /\ \A i \in DOMAIN new : new[i] = data[i]
        /\ then = items \cup {data[i].hash : i \in 1 .. n}
        /\ phases = Phase("overwrite", existing) \o Phase("insert", new)
    BY DEF InsertMade
  <1>1. items \subseteq Hashes /\ then \subseteq Hashes
    <2>1. items \subseteq Hashes BY ONLY ItemsRight(items, bundles) DEF ItemsRight
    <2>2. \A i \in 1 .. n : data[i].hash \in Hashes BY <1>b
    <2>3. then = items \cup {data[i].hash : i \in 1 .. n} BY <1>c
    <2> QED BY ONLY <2>1, <2>2, <2>3
  <1>2. \A i \in 1 .. n : data[i].hash \in then /\ data[i].label # MovedFrom BY <1>b, <1>c
  <1>3. PICK p : p = [phase |-> "overwrite", data |-> existing] OBVIOUS
  <1>4. PICK q : q = [phase |-> "insert", data |-> new] OBVIOUS
  <1>5. p.phase = "overwrite" /\ p.data = existing /\ q.phase = "insert" /\ q.data = new BY <1>3, <1>4
  <1>6. PICK hash : hash = [i \in 1 .. n |-> data[i].hash] OBVIOUS
  <1>7. \A i \in 1 .. n : hash[i] = data[i].hash BY <1>6
  <1>8. /\ \A i \in 1 .. n : hash[i] \in items \/ \E j \in 1 .. n : isNew[j] /\ hash[j] = hash[i]
        /\ \A i, j \in 1 .. n : isNew[i] /\ isNew[j] /\ hash[i] = hash[j] => i = j
    <2>2. ASSUME NEW i \in 1 .. n
          PROVE  isNew[i] <=> hash[i] \notin items /\ ~\E j \in 1 .. i - 1 : hash[j] = hash[i]
      <3>1. \A j \in 1 .. i - 1 : hash[j] = data[j].hash BY <1>b, <1>7
      <3>2. hash[i] = data[i].hash BY <1>7
      <3>3. isNew[i] <=> /\ data[i].hash \notin items
                         /\ ~\E j \in 1 .. i - 1 : data[j].hash = data[i].hash BY <1>b
      <3> QED BY ONLY <3>1, <3>2, <3>3
    <2>1. n \in Nat BY <1>b
    <2>3. NewAre(isNew, n, hash, items) BY ONLY <2>2 DEF NewAre
    <2> QED BY ONLY <2>1, <2>3, NewItems
  <1>9. \A h \in then : h \in items \/ \E i \in DOMAIN new : new[i].hash = h
    <2>1. ASSUME NEW i \in 1 .. n, data[i].hash \notin items
          PROVE  \E j \in DOMAIN new : new[j].hash = data[i].hash
      <3>1. PICK j \in 1 .. n : isNew[j] /\ hash[j] = hash[i] BY <1>7, <1>8, <2>1
      <3>2. j \in DOMAIN new /\ new[j].hash = data[j].hash BY <1>c, <3>1
      <3> QED BY <1>7, <3>1, <3>2
    <2> QED BY <1>c, <2>1
  <1>10. \A i \in DOMAIN new : new[i].hash \notin items BY <1>b, <1>c
  <1>11. PhaseRight(q, then, bundles)
    <2>1. \A i, j \in 1 .. n : isNew[i] /\ isNew[j] /\ data[i].hash = data[j].hash => i = j BY <1>7, <1>8
    <2>2. DOMAIN new \subseteq Nat BY <1>b, <1>c
    <2>3. \A i \in DOMAIN new : i \in 1 .. n /\ isNew[i] /\ new[i] = data[i] BY <1>c
    <2>4. \A i \in DOMAIN new : new[i].hash \in then /\ new[i].label # MovedFrom BY ONLY <1>2, <2>3
    <2>5. \A i, j \in DOMAIN new : new[i].hash = new[j].hash => i = j BY ONLY <2>1, <2>3
    <2> QED BY ONLY <1>5, <2>2, <2>4, <2>5 DEF PhaseRight, Works
  <1>12. DOMAIN existing # {} => PhaseRight(p, then, bundles)
    <2> SUFFICES ASSUME DOMAIN existing # {} PROVE PhaseRight(p, then, bundles) OBVIOUS
    <2>1. LabelSize # 0
      <3>1. DOMAIN <<>> = {} OBVIOUS
      <3> QED BY <1>c, <3>1
    <2>2. existing = Leftover(data, isNew) BY <1>c, <2>1
    <2>3. n \in Nat /\ DOMAIN data = 1 .. n /\ Len(data) = n /\ isNew \in [1 .. n -> BOOLEAN] BY <1>b
    <2>4. \A i \in 1 .. n : DOMAIN data[i] = {"hash", "label"} BY <1>b
    <2>5. \A i \in 1 .. n : isNew[i] <=> /\ data[i].hash \notin items
                                         /\ ~\E j \in 1 .. i - 1 : data[j].hash = data[i].hash
      BY <1>b
    <2>6. Ordered => /\ \A i, j \in 1 .. n : data[i].hash = data[j].hash => i = j
                     /\ \A i, j \in 1 .. n : i < j /\ ~isNew[i] => ~isNew[j]
      BY <1>b, <2>1
    <2> QED BY ONLY ItemsRight(items, bundles), <1>2, <1>5, <2>1, <2>2, <2>3, <2>4, <2>5, <2>6, ExistingRight
  <1>13. Joined(phases, p, q)
    <2>1. Phase("overwrite", existing) = IF DOMAIN existing = {} THEN <<>> ELSE <<p>> BY <1>3 DEF Phase
    <2>2. Phase("insert", new) = IF DOMAIN new = {} THEN <<>> ELSE <<q>> BY <1>4 DEF Phase
    <2>3. phases = Phase("overwrite", existing) \o Phase("insert", new) BY <1>c
    <2> QED BY ONLY <1>5, <2>1, <2>2, <2>3, PhasesConcat DEF Joined
  <1>a. DOMAIN p.data # {} => PhaseRight(p, then, bundles) BY ONLY <1>5, <1>12
  <1>14. /\ PhasesRight(phases, then, bundles)
         /\ \A h \in AnyHash : \A l \in Locations[h.item] :
              /\ Awaited(phases, t, h, l) <=> \E i \in DOMAIN q.data : q.data[i].hash = h
              /\ ~Doomed(phases, t, h, l)
    BY ONLY Dispatched(t, phases), <1>1, <1>5, <1>11, <1>a, <1>13, InsertPhases
  <1>15. HeldRight(then, bundles, phases, t)
    <2>1. \A h \in Hashes : h \in AnyHash BY HashesAre
    <2>2. \A h \in AnyHash : \A l \in Locations[h.item] :
            /\ Awaited(phases, t, h, l) <=> \E i \in DOMAIN new : new[i].hash = h
            /\ ~Doomed(phases, t, h, l)
      BY ONLY <1>5, <1>14
    <2>3. ASSUME Ordered, NEW h \in then, NEW l \in Locations[h.item]
          PROVE  HeldIn(bundles, h, l) \/ Awaited(phases, t, h, l)
      <3>1. CASE h \in items BY <2>3, <3>1 DEF ItemsRight
      <3>2. CASE h \notin items BY ONLY <1>1, <1>9, <2>1, <2>2, <2>3, <3>2
      <3> QED BY <3>1, <3>2
    <2>4. ASSUME Once, NEW h \in AnyHash, NEW l \in Locations[h.item], HeldIn(bundles, h, l)
          PROVE  h \in then /\ ~Awaited(phases, t, h, l)
      <3>1. h \in items BY <2>4 DEF ItemsRight
      <3>2. h \in then BY <1>c, <3>1
      <3> QED BY ONLY <1>10, <2>2, <2>4, <3>1, <3>2
    <2> QED BY ONLY <2>2, <2>3, <2>4 DEF HeldRight
  <1> QED BY <1>1, <1>14, <1>15

\* A batch as remove looks at it, and what it has its tasks remove.
AllToGo(items, n, data, all) ==
  /\ n \in Nat /\ DOMAIN data = 1 .. n
  /\ \A i \in 1 .. n : data[i].hash \in AnyHash
  /\ DOMAIN all \subseteq Nat
  /\ \A i \in DOMAIN all : \E j \in 1 .. n : all[i].hash = data[j].hash
  /\ Once => /\ DOMAIN all = 1 .. n /\ \A i \in 1 .. n : all[i] = data[i] /\ data[i].hash \in items
             /\ \A i, j \in 1 .. n : data[i].hash = data[j].hash => i = j

\* What remove makes of a batch.
RemoveMade(items, n, data, all, then, phases) ==
  /\ then = items \ {data[i].hash : i \in 1 .. n}
  /\ phases = Phase("remove", all)

\* remove takes the items out of the set and then out of the bundles.
LEMMA ToBeRemoved ==
  ASSUME NEW items, NEW bundles, ItemsRight(items, bundles),
         NEW n, NEW data, NEW all, AllToGo(items, n, data, all),
         NEW then, NEW phases, RemoveMade(items, n, data, all, then, phases), NEW t, Dispatched(t, phases)
  PROVE  then \subseteq Hashes /\ PhasesRight(phases, then, bundles) /\ HeldRight(then, bundles, phases, t)
  <1>b. /\ n \in Nat /\ DOMAIN data = 1 .. n
        /\ \A i \in 1 .. n : data[i].hash \in AnyHash
        /\ DOMAIN all \subseteq Nat
        /\ \A i \in DOMAIN all : \E j \in 1 .. n : all[i].hash = data[j].hash
        /\ Once => /\ DOMAIN all = 1 .. n /\ \A i \in 1 .. n : all[i] = data[i] /\ data[i].hash \in items
                   /\ \A i, j \in 1 .. n : data[i].hash = data[j].hash => i = j
    BY DEF AllToGo
  <1>c. then = items \ {data[i].hash : i \in 1 .. n} /\ phases = Phase("remove", all) BY DEF RemoveMade
  <1>1. items \subseteq Hashes /\ then \subseteq Hashes BY <1>c DEF ItemsRight
  <1>2. PICK p : p = [phase |-> "remove", data |-> all] OBVIOUS
  <1>3. p.phase = "remove" /\ p.data = all BY <1>2
  <1>4. PhaseRight(p, then, bundles)
    <2>1. \A i \in DOMAIN all : all[i].hash \in AnyHash \ then BY <1>b, <1>c
    <2>2. Once => \A i, j \in DOMAIN all : all[i].hash = all[j].hash => i = j BY <1>b
    <2> QED BY <1>b, <1>3, <2>1, <2>2 DEF PhaseRight, Works
  <1>5. /\ DOMAIN all = {} => phases = <<>>
        /\ DOMAIN all # {} => phases = <<p>>
    BY ONLY <1>c, <1>2 DEF Phase
  <1>6. PhasesRight(phases, then, bundles) BY ONLY <1>4, <1>5 DEF PhasesRight
  <1>7. ASSUME NEW h \in AnyHash, NEW l \in Locations[h.item]
        PROVE  /\ ~Awaited(phases, t, h, l)
               /\ Doomed(phases, t, h, l) <=> \E i \in DOMAIN all : all[i].hash = h
    <2>1. CASE DOMAIN all = {}
      <3>1. \A a, b : <<>> # <<a, b>> OBVIOUS
      <3>2. phases = <<>> /\ ~\E a, b : phases = <<a, b>> BY ONLY <1>5, <2>1, <3>1
      <3>3. ~Awaited(phases, t, h, l) /\ ~Doomed(phases, t, h, l) BY ONLY <3>2 DEF Awaited, Doomed, Now
      <3> QED BY ONLY <2>1, <3>3
    <2>2. CASE DOMAIN all # {}
      <3>1. phases = <<p>> BY ONLY <1>5, <2>2
      <3>2. phases # <<>> /\ phases[1] = p BY ONLY <3>1, OnePhase
      <3>4. t = TasksFor(p.data) BY ONLY <3>2, Dispatched(t, phases) DEF Dispatched
      <3>a. Todo(t, p.data, h, l) <=> \E i \in DOMAIN p.data : p.data[i].hash = h
        <4>1. PICK d : d = p.data OBVIOUS
        <4>2. DOMAIN d \subseteq Nat /\ \A i \in DOMAIN d : d[i].hash \in AnyHash
          BY ONLY <1>1, <1>4, <4>1, TodoOfPhase
        <4>3. t = TasksFor(d) BY ONLY <3>4, <4>1
        <4>4. \A g \in AnyHash : \A m \in Locations[g.item] :
                Todo(t, d, g, m) <=> \E i \in DOMAIN d : d[i].hash = g
          BY ONLY <4>2, <4>3, TodoAll
        <4> QED BY ONLY <1>7, <4>1, <4>4
      <3>5. Todo(t, all, h, l) <=> \E i \in DOMAIN all : all[i].hash = h BY ONLY <1>3, <3>a
      <3>6. /\ Awaited(<<p>>, t, h, l) <=> p.phase = "insert" /\ Todo(t, p.data, h, l)
            /\ Doomed(<<p>>, t, h, l) <=> p.phase = "remove" /\ Todo(t, p.data, h, l)
        BY ONLY OnePhase
      <3> QED BY ONLY <1>3, <3>1, <3>5, <3>6
    <2> QED BY <2>1, <2>2
  <1>8. HeldRight(then, bundles, phases, t)
    <2>1. \A h \in Hashes : h \in AnyHash BY HashesAre
    <2>2. Ordered => \A h \in then : \A l \in Locations[h.item] : HeldIn(bundles, h, l)
      BY <1>c DEF ItemsRight
    <2>3. ASSUME Once, NEW h \in AnyHash, NEW l \in Locations[h.item]
          PROVE  /\ HeldIn(bundles, h, l) => h \in then \/ Doomed(phases, t, h, l)
                 /\ Doomed(phases, t, h, l) => HeldIn(bundles, h, l)
      <3>1. Ordered BY <2>3 DEF Once, Ordered
      <3>2. HeldIn(bundles, h, l) <=> h \in items BY <1>1, <2>3, <3>1 DEF ItemsRight
      <3>3. h \in items => h \in then \/ \E i \in 1 .. n : data[i].hash = h BY <1>c
      <3>4. Doomed(phases, t, h, l) <=> \E i \in DOMAIN all : all[i].hash = h BY ONLY <1>7, <2>3
      <3>5. (\E i \in DOMAIN all : all[i].hash = h) <=> \E i \in 1 .. n : data[i].hash = h BY <1>b, <2>3
      <3>6. (\E i \in 1 .. n : data[i].hash = h) => h \in items BY <1>b, <2>3
      <3> QED BY ONLY <3>2, <3>3, <3>4, <3>5, <3>6
    <2>4. \A h \in AnyHash : \A l \in Locations[h.item] : ~Awaited(phases, t, h, l) BY ONLY <1>7
    <2> QED BY ONLY <2>2, <2>3, <2>4 DEF HeldRight
  <1> QED BY <1>1, <1>6, <1>8

-----------------------------------------------------------------------------
(* The steps of the tasks.                                                 *)

\* The next entry of a task is one of those that are left.
LEMMA NextIs ==
  ASSUME NEW b, tasks[b].todo # {}, tasks[b].todo \subseteq Nat \X Nat
  PROVE  NextKey(b) \in tasks[b].todo
  <1> DEFINE S == tasks[b].todo
             firsts == {key[1] : key \in S}
  <1>1. firsts \subseteq Nat /\ firsts # {} OBVIOUS
  <1>2. \E i \in firsts : \A j \in firsts : i <= j BY <1>1, Least
  <1>3. PICK i \in firsts : \A j \in firsts : i <= j BY <1>2
  <1> DEFINE seconds == {key[2] : key \in {k \in S : k[1] = i}}
  <1>4. seconds \subseteq Nat /\ seconds # {} BY <1>3
  <1>5. \E l \in seconds : \A m \in seconds : l <= m BY <1>4, Least
  <1>6. PICK l \in seconds : \A m \in seconds : l <= m BY <1>5
  <1>7. PICK key \in S : key[1] = i /\ key[2] = l BY <1>6
  <1>8. ASSUME NEW other \in S PROVE Precedes(key, other)
    <2>1. other[1] \in Nat /\ i \in Nat /\ i <= other[1] BY <1>1, <1>3
    <2>2. CASE other[1] = i
      <3>1. l <= other[2] BY <1>6, <2>2
      <3> QED BY <1>7, <2>2, <3>1 DEF Precedes
    <2>3. CASE other[1] # i
      <3>1. i < other[1] BY <2>1, <2>3
      <3> QED BY <1>7, <3>1 DEF Precedes
    <2> QED BY <2>2, <2>3
  <1>9. \E k \in S : \A other \in S : Precedes(k, other) BY <1>7, <1>8
  <1> QED BY <1>9 DEF NextKey

\* What becomes of the places where items are.
Outcome(work, then, bundles, h, s) ==
  \A r \in Starts, g \in AnyHash :
    /\ work = "insert" => (HeldAt(then, g, r) <=> HeldAt(bundles, g, r) \/ (g = h /\ r = s))
    /\ work = "overwrite" => (HeldAt(bundles, g, r) => HeldAt(then, g, r))
    /\ work = "remove" =>
         /\ g # h \/ r # s => (HeldAt(then, g, r) <=> HeldAt(bundles, g, r))
         /\ Once /\ g = h /\ r = s => ~HeldAt(then, g, r)

\* An entry is worked on, or that throws.
LEMMA AfterRight ==
  ASSUME NEW bundles, SetRight(bundles, Once), NEW work \in Works, work = "overwrite" => ~Once,
         NEW h \in AnyHash, work # "remove" => h \in Hashes, NEW label, NEW c, UnpackBin(c) \in Starts,
         work = "insert" => label # MovedFrom /\ (Once => ~HeldAt(bundles, h, UnpackBin(c))),
         NEW results, results = After(bundles, AnEntry(h, label, c), work)
  PROVE  /\ \A then \in results : SetRight(then, Once) /\ Outcome(work, then, bundles, h, UnpackBin(c))
         /\ work = "insert" => results # {}
         /\ work = "overwrite" /\ label # MovedFrom /\ HeldAt(bundles, h, UnpackBin(c)) => results # {}
         /\ work = "remove" /\ HeldAt(bundles, h, UnpackBin(c)) => results # {}
  <1>0. Once \in BOOLEAN BY DEF Once
  <1>1. PICK s \in Starts : s = UnpackBin(c) OBVIOUS
  <1>2. PICK e : e = AnEntry(h, label, c) OBVIOUS
  <1>3. CASE work = "insert"
    <2>1. results = Write(bundles, e, FALSE) BY <1>2, <1>3 DEF After
    <2>2. /\ results # {}
          /\ \A then \in results :
               /\ SetRight(then, Once)
               /\ \A r \in Starts, g \in AnyHash :
                    HeldAt(then, g, r) <=> HeldAt(bundles, g, r) \/ (g = h /\ r = UnpackBin(c))
      <3>1. h \in Hashes /\ label # MovedFrom BY <1>3
      <3>2. NotYet(Once, bundles, h, UnpackBin(c)) BY <1>3 DEF NotYet
      <3>3. /\ Write(bundles, AnEntry(h, label, c), FALSE) # {}
            /\ \A then \in Write(bundles, AnEntry(h, label, c), FALSE) :
                 SetRight(then, Once) /\ Inserted(then, bundles, h, UnpackBin(c))
        BY <1>0, <3>1, <3>2, WriteRight
      <3> QED BY <1>2, <2>1, <3>3 DEF Inserted
    <2> QED BY ONLY <1>3, <2>2 DEF Outcome
  <1>4. CASE work = "overwrite"
    <2>1. results = Write(bundles, e, TRUE) BY <1>2, <1>4 DEF After
    <2>2. Once = FALSE BY <1>4, <1>0
    <2>3. CASE label = MovedFrom
      <3>1. e.label = MovedFrom BY <1>2, <2>3 DEF AnEntry
      <3>2. results = {} BY <2>1, <3>1 DEF Write
      <3> QED BY ONLY <1>4, <2>3, <3>2
    <2>4. CASE label # MovedFrom
      <3>1. /\ HeldAt(bundles, h, UnpackBin(c)) => results # {}
            /\ \A then \in results :
                 /\ SetRight(then, FALSE)
                 /\ \A r \in Starts, g \in AnyHash : HeldAt(bundles, g, r) => HeldAt(then, g, r)
        BY <1>2, <1>4, <2>1, <2>2, <2>4, OverwriteRight
      <3> QED BY ONLY <1>4, <2>2, <3>1 DEF Outcome
    <2> QED BY <2>3, <2>4
  <1>5. CASE work = "remove"
    <2>1. results = RemoveEntry(bundles, e) BY <1>2, <1>5 DEF After
    <2>2. /\ results # {} <=> HeldAt(bundles, h, UnpackBin(c))
          /\ \A then \in results :
               /\ SetRight(then, Once)
               /\ \A r \in Starts, g \in AnyHash :
                    g # h \/ r # UnpackBin(c) => (HeldAt(then, g, r) <=> HeldAt(bundles, g, r))
               /\ Once => ~HeldAt(then, h, UnpackBin(c))
      BY <1>0, <1>2, <2>1, RemoveEntryRight
    <2> QED BY ONLY <1>5, <2>2 DEF Outcome
  <1> QED BY <1>3, <1>4, <1>5 DEF Works

\* The entry that a task works on next, and what the index may be after it.
NextRight(b, i, l, p, h) ==
  /\ call.phases # <<>> /\ p = call.phases[1] /\ PhaseRight(p, hashed_items, bin_bundles)
  /\ NextKey(b) = <<i, l>> /\ <<i, l>> \in tasks[b].todo
  /\ i \in DOMAIN p.data /\ h = p.data[i].hash /\ h \in AnyHash
  /\ l \in Locations[h.item] /\ l \in Nat /\ Index(l) = b /\ Start(l) \in Starts
  /\ Todo(tasks, p.data, h, l)

\* A task that is active has an entry to work on next.
LEMMA NextExists ==
  ASSUME Inv, NEW b \in BundleIdxs, Active(b)
  PROVE  ~stripped /\ \E i, l, p, h : NextRight(b, i, l, p, h)
  <1>1. TasksRight(tasks, call.phases, call.stage) BY DEF Inv
  <1>2. tasks[b] \in Task BY <1>1 DEF TasksRight
  <1>3. tasks[b].todo # {} BY <1>1 DEF TasksRight, Active
  <1>4. tasks[b].todo \subseteq Nat \X Nat BY <1>2 DEF Task
  <1>5. NextKey(b) \in tasks[b].todo BY <1>3, <1>4, NextIs
  <1>6. NextKey(b) \in Nat \X Nat BY <1>4, <1>5
  <1>7. PICK i, l : NextKey(b) = <<i, l>> BY <1>6
  <1>8. <<i, l>> \in tasks[b].todo BY <1>5, <1>7
  <1>9. /\ call.phases # <<>> /\ i \in DOMAIN call.phases[1].data
        /\ l \in Locations[call.phases[1].data[i].hash.item] /\ Index(l) = b
    BY <1>1, <1>8 DEF TasksRight
  <1>10. ~stripped
    <2>1. call.stage # "idle"
      <3>1. call.stage = "idle" => call.phases = <<>> BY DEF Inv, CallRight
      <3> QED BY <1>9, <3>1
    <2> QED BY <2>1 DEF Inv
  <1>11. PhasesRight(call.phases, hashed_items, bin_bundles) BY <1>10 DEF Inv
  <1>12. PICK p : p = call.phases[1] OBVIOUS
  <1>13. PhaseRight(p, hashed_items, bin_bundles)
    <2>1. PICK phases : phases = call.phases OBVIOUS
    <2>2. PhasesRight(phases, hashed_items, bin_bundles) /\ phases # <<>> /\ p = phases[1]
      BY <1>9, <1>11, <1>12, <2>1
    <2> QED BY ONLY <2>2, OnePhase, TwoPhases DEF PhasesRight
  <1>14. PICK h : h = p.data[i].hash OBVIOUS
  <1>15. hashed_items \subseteq Hashes BY DEF Inv
  <1>16. h \in AnyHash
    <2>1. Hashes \subseteq AnyHash BY HashesAre
    <2>2. i \in DOMAIN p.data BY <1>9, <1>12
    <2> QED BY ONLY <1>13, <1>14, <1>15, <2>1, <2>2 DEF PhaseRight
  <1>17. l \in Locations[h.item] BY <1>9, <1>12, <1>14
  <1>18. l \in Nat /\ Start(l) \in Starts BY <1>16, <1>17, Places
  <1>19. Todo(tasks, p.data, h, l) BY <1>8, <1>9, <1>12, <1>14 DEF Todo
  <1>20. NextRight(b, i, l, p, h)
    BY <1>7, <1>8, <1>9, <1>12, <1>13, <1>14, <1>16, <1>17, <1>18, <1>19 DEF NextRight
  <1> QED BY <1>10, <1>20

\* The bundles it leaves are right; it throws only where it may.
LEMMA NextBundlesRight ==
  ASSUME Inv, NEW b \in BundleIdxs, ~stripped, NEW i, NEW l, NEW p, NEW h, NextRight(b, i, l, p, h)
  PROVE  /\ \A then \in NextBundles(b) :
              SetRight(then, Once) /\ Outcome(p.phase, then, bin_bundles[b], h, Start(l))
         /\ NextBundles(b) = {} => ~Once /\ (Ordered => Now(call.phases, "remove"))
  <1>1. PICK label : label = p.data[i].label OBVIOUS
  <1>2. PICK c : c = CuckooIdx(l) OBVIOUS
  <1>3. PICK e : e = AnEntry(h, label, c) OBVIOUS
  <1>4. EntryOf(call.phases[1].data, NextKey(b)) = e
    <2>1. NextKey(b)[1] = i /\ NextKey(b)[2] = l /\ call.phases[1] = p /\ h = p.data[i].hash
      BY DEF NextRight
    <2> QED BY <1>1, <1>2, <1>3, <2>1 DEF EntryOf, AnEntry
  <1>5. NextBundles(b) = After(bin_bundles[b], e, p.phase)
    <2>1. call.phases[1] = p BY DEF NextRight
    <2> QED BY <1>4, <2>1 DEF NextBundles
  <1>6. PhaseRight(p, hashed_items, bin_bundles) /\ i \in DOMAIN p.data /\ h = p.data[i].hash
        /\ h \in AnyHash /\ l \in Locations[h.item] /\ Index(l) = b /\ Todo(tasks, p.data, h, l)
    BY DEF NextRight
  <1>7. Start(l) = UnpackBin(c) /\ UnpackBin(c) \in Starts BY <1>2 DEF NextRight, Start
  <1>8. SetRight(bin_bundles[b], Once) BY DEF Inv, AllRight
  <1>9. hashed_items \subseteq Hashes BY DEF Inv
  <1>10. p.phase \in Works BY <1>6 DEF PhaseRight
  <1>11. p.phase # "remove" => h \in hashed_items BY <1>6 DEF PhaseRight
  <1>12. p.phase = "overwrite" => ~Once BY <1>6 DEF PhaseRight, Once
  <1>13. HeldIn(bin_bundles, h, l) <=> HeldAt(bin_bundles[b], h, UnpackBin(c))
    BY <1>6, <1>7 DEF HeldIn
  <1>14. \A work : Now(call.phases, work) <=> p.phase = work BY DEF Now, NextRight
  <1>15. HeldRight(hashed_items, bin_bundles, call.phases, tasks) BY DEF Inv
  <1>16. call.phases[1] = p BY DEF NextRight
  <1>17. p.phase = "insert" => Awaited(call.phases, tasks, h, l) /\ ~Doomed(call.phases, tasks, h, l)
    BY <1>6, <1>14, <1>16 DEF Awaited, Doomed
  <1>18. p.phase = "insert" /\ Once => ~HeldAt(bin_bundles[b], h, UnpackBin(c))
    BY <1>6, <1>9, <1>11, <1>13, <1>15, <1>17 DEF HeldRight
  <1>19. p.phase = "insert" => label # MovedFrom BY <1>1, <1>6 DEF PhaseRight
  <1>20. PICK results : results = NextBundles(b) OBVIOUS
  <1>21. /\ \A then \in results :
              SetRight(then, Once) /\ Outcome(p.phase, then, bin_bundles[b], h, UnpackBin(c))
         /\ p.phase = "insert" => results # {}
         /\ p.phase = "overwrite" /\ label # MovedFrom /\ HeldAt(bin_bundles[b], h, UnpackBin(c)) => results # {}
         /\ p.phase = "remove" /\ HeldAt(bin_bundles[b], h, UnpackBin(c)) => results # {}
    <2>1. PICK work \in Works : work = p.phase BY <1>10
    <2>2. PICK bundles : bundles = bin_bundles[b] OBVIOUS
    <2>3. SetRight(bundles, Once) BY <1>8, <2>2
    <2>4. work = "overwrite" => ~Once BY <1>12, <2>1
    <2>5. work # "remove" => h \in Hashes BY <1>9, <1>11, <2>1
    <2>6. work = "insert" => label # MovedFrom /\ (Once => ~HeldAt(bundles, h, UnpackBin(c)))
      BY <1>18, <1>19, <2>1, <2>2
    <2>7. results = After(bundles, AnEntry(h, label, c), work) BY <1>3, <1>5, <1>20, <2>1, <2>2
    <2>8. /\ \A then \in results : SetRight(then, Once) /\ Outcome(work, then, bundles, h, UnpackBin(c))
          /\ work = "insert" => results # {}
          /\ work = "overwrite" /\ label # MovedFrom /\ HeldAt(bundles, h, UnpackBin(c)) => results # {}
          /\ work = "remove" /\ HeldAt(bundles, h, UnpackBin(c)) => results # {}
      BY ONLY <1>6, <1>7, <2>1, <2>3, <2>4, <2>5, <2>6, <2>7, AfterRight
    <2> QED BY ONLY <2>1, <2>2, <2>8
  <1>22. ASSUME results = {} PROVE ~Once /\ (Ordered => Now(call.phases, "remove"))
    <2>1. p.phase # "insert" BY <1>21, <1>22
    <2>2. p.phase = "overwrite" => ~Ordered
      <3>1. p.phase = "overwrite" /\ Ordered => label # MovedFrom /\ HeldIn(bin_bundles, h, l)
        BY <1>1, <1>6 DEF PhaseRight
      <3> QED BY <1>13, <1>21, <1>22, <3>1
    <2>3. p.phase = "remove" => ~Once
      <3>1. p.phase = "remove" => Doomed(call.phases, tasks, h, l) BY <1>6, <1>14, <1>16 DEF Doomed
      <3>2. p.phase = "remove" /\ Once => HeldIn(bin_bundles, h, l) BY <1>6, <1>15, <3>1 DEF HeldRight
      <3> QED BY <1>13, <1>21, <1>22, <3>2
    <2> QED BY <1>10, <1>12, <1>14, <2>1, <2>2, <2>3 DEF Works
  <1> QED BY <1>7, <1>20, <1>21, <1>22

\* The phases stay right when nothing that is to be overwritten is lost.
LEMMA PhasesStay ==
  ASSUME NEW items, items \subseteq Hashes, NEW bundles, NEW then, NEW phases,
         PhasesRight(phases, items, bundles),
         Now(phases, "overwrite") => \A g \in AnyHash : \A m \in Locations[g.item] :
           HeldIn(bundles, g, m) => HeldIn(then, g, m)
  PROVE  PhasesRight(phases, items, then)
  <1>1. ASSUME NEW p, PhaseRight(p, items, bundles),
               p.phase = "overwrite" => \A g \in AnyHash : \A m \in Locations[g.item] :
                 HeldIn(bundles, g, m) => HeldIn(then, g, m)
        PROVE  PhaseRight(p, items, then)
    <2>1. Hashes \subseteq AnyHash BY HashesAre
    <2>2. p.phase = "overwrite" => \A i \in DOMAIN p.data : p.data[i].hash \in AnyHash
      BY <1>1, <2>1 DEF PhaseRight
    <2>3. p.phase = "overwrite" /\ Ordered => \A i \in DOMAIN p.data :
            \A l \in Locations[p.data[i].hash.item] : HeldIn(then, p.data[i].hash, l)
      BY <1>1, <2>2 DEF PhaseRight
    <2> QED BY <1>1, <2>3 DEF PhaseRight
  <1>2. CASE phases = <<>> BY <1>2 DEF PhasesRight
  <1>3. CASE \E p : phases = <<p>> /\ PhaseRight(p, items, bundles)
    <2>1. PICK p : phases = <<p>> /\ PhaseRight(p, items, bundles) BY <1>3
    <2>2. Now(phases, "overwrite") <=> p.phase = "overwrite" BY <2>1, OnePhase
    <2>3. PhaseRight(p, items, then) BY <1>1, <2>1, <2>2
    <2> QED BY ONLY <2>1, <2>3 DEF PhasesRight
  <1>4. CASE \E p, q : /\ phases = <<p, q>> /\ p.phase = "overwrite" /\ q.phase = "insert"
                       /\ PhaseRight(p, items, bundles) /\ PhaseRight(q, items, bundles)
    <2>1. PICK p, q : /\ phases = <<p, q>> /\ p.phase = "overwrite" /\ q.phase = "insert"
                      /\ PhaseRight(p, items, bundles) /\ PhaseRight(q, items, bundles) BY <1>4
    <2>2. Now(phases, "overwrite") BY <2>1, TwoPhases
    <2>3. PhaseRight(p, items, then) BY <1>1, <2>1, <2>2
    <2>4. q.phase # "overwrite" BY <2>1
    <2>5. PhaseRight(q, items, then) BY <1>1, <2>1, <2>4
    <2> QED BY ONLY <2>1, <2>3, <2>5 DEF PhasesRight
  <1> QED BY <1>2, <1>3, <1>4 DEF PhasesRight

\* What is left to do when an entry was worked on.
TodoOutcome(t, u, data, h, l) ==
  \A g \in AnyHash : \A m \in Locations[g.item] :
    /\ Todo(u, data, g, m) => Todo(t, data, g, m)
    /\ Todo(t, data, g, m) => Todo(u, data, g, m) \/ (g = h /\ m = l)
    /\ Once /\ g = h /\ m = l => ~Todo(u, data, g, m)

\* An entry that is done is not to be done any more.
LEMMA TodoAfter ==
  ASSUME NEW t, NEW u, NEW b \in BundleIdxs, NEW i, NEW l, NEW data, NEW h, NEW items, NEW bundles, NEW p,
         PhaseRight(p, items, bundles), data = p.data, i \in DOMAIN data, h = data[i].hash, Index(l) = b,
         u[b].todo = t[b].todo \ {<<i, l>>}, \A c \in BundleIdxs : c # b => u[c].todo = t[c].todo
  PROVE  TodoOutcome(t, u, data, h, l)
  <1> SUFFICES ASSUME NEW g \in AnyHash, NEW m \in Locations[g.item]
               PROVE  /\ Todo(u, data, g, m) => Todo(t, data, g, m)
                      /\ Todo(t, data, g, m) => Todo(u, data, g, m) \/ (g = h /\ m = l)
                      /\ Once /\ g = h /\ m = l => ~Todo(u, data, g, m)
    BY DEF TodoOutcome
  <1>1. Index(m) \in BundleIdxs BY Places
  <1>2. CASE Index(m) # b
    <2>1. u[Index(m)].todo = t[Index(m)].todo /\ m # l BY <1>1, <1>2
    <2> QED BY ONLY <2>1 DEF Todo
  <1>3. CASE Index(m) = b
    <2>1. Todo(u, data, g, m) => Todo(t, data, g, m) BY <1>3 DEF Todo
    <2>2. ASSUME Todo(t, data, g, m), ~(g = h /\ m = l) PROVE Todo(u, data, g, m)
      <3>1. PICK j \in DOMAIN data : data[j].hash = g /\ <<j, m>> \in t[b].todo BY <1>3, <2>2 DEF Todo
      <3>2. <<j, m>> # <<i, l>>
        <4>1. <<j, m>> = <<i, l>> => j = i /\ m = l BY SamePair
        <4> QED BY <2>2, <3>1, <4>1
      <3>3. <<j, m>> \in u[b].todo BY <3>1, <3>2
      <3> QED BY <1>3, <3>1, <3>3 DEF Todo
    <2>3. ASSUME Once, g = h, m = l, Todo(u, data, g, m) PROVE FALSE
      <3>1. PICK j \in DOMAIN data : data[j].hash = h /\ <<j, l>> \in u[b].todo BY <1>3, <2>3 DEF Todo
      <3>2. j = i BY <2>3, <3>1 DEF PhaseRight
      <3> QED BY <3>1, <3>2
    <2> QED BY <2>1, <2>2, <2>3
  <1> QED BY <1>2, <1>3

\* Where items are when an entry was worked on.
HeldOutcome(work, then, bundles, h, l) ==
  \A g \in AnyHash : \A m \in Locations[g.item] :
    /\ work = "insert" => (HeldIn(then, g, m) <=> HeldIn(bundles, g, m) \/ (g = h /\ m = l))
    /\ work = "overwrite" => (HeldIn(bundles, g, m) => HeldIn(then, g, m))
    /\ work = "remove" =>
         /\ g # h \/ m # l => (HeldIn(then, g, m) <=> HeldIn(bundles, g, m))
         /\ Once /\ g = h /\ m = l => ~HeldIn(then, g, m)

\* What a task does to its own bundles is all that changes.
LEMMA HeldAfter ==
  ASSUME NEW work \in Works, NEW bundles, NEW b \in BundleIdxs, NEW then, NEW one, NEW h, NEW l \in Nat, Index(l) = b,
         then[b] = one, \A c \in BundleIdxs : c # b => then[c] = bundles[c],
         Outcome(work, one, bundles[b], h, Start(l))
  PROVE  HeldOutcome(work, then, bundles, h, l)
  <1> SUFFICES ASSUME NEW g \in AnyHash, NEW m \in Locations[g.item]
               PROVE  /\ work = "insert" => (HeldIn(then, g, m) <=> HeldIn(bundles, g, m) \/ (g = h /\ m = l))
                      /\ work = "overwrite" => (HeldIn(bundles, g, m) => HeldIn(then, g, m))
                      /\ work = "remove" =>
                           /\ g # h \/ m # l => (HeldIn(then, g, m) <=> HeldIn(bundles, g, m))
                           /\ Once /\ g = h /\ m = l => ~HeldIn(then, g, m)
    BY DEF HeldOutcome
  <1>1. m \in Nat /\ Start(m) \in Starts /\ Index(m) \in BundleIdxs BY Places
  <1>2. CASE Index(m) # b
    <2>1. then[Index(m)] = bundles[Index(m)] /\ m # l BY <1>1, <1>2
    <2>2. HeldIn(then, g, m) <=> HeldIn(bundles, g, m) BY ONLY <2>1 DEF HeldIn
    <2> QED BY ONLY <2>1, <2>2
  <1>3. CASE Index(m) = b
    <2>1. Start(m) = Start(l) <=> m = l
      <3>1. Index(l) = Index(m) BY <1>3
      <3>2. Start(m) = Start(l) => m = l BY ONLY <1>1, <3>1, l \in Nat, PlacesApart
      <3> QED BY <3>2
    <2>2. HeldIn(then, g, m) <=> HeldAt(one, g, Start(m)) BY <1>3 DEF HeldIn
    <2>3. HeldIn(bundles, g, m) <=> HeldAt(bundles[b], g, Start(m)) BY <1>3 DEF HeldIn
    <2>4. /\ work = "insert" =>
               (HeldAt(one, g, Start(m)) <=> HeldAt(bundles[b], g, Start(m)) \/ (g = h /\ Start(m) = Start(l)))
          /\ work = "overwrite" => (HeldAt(bundles[b], g, Start(m)) => HeldAt(one, g, Start(m)))
          /\ work = "remove" =>
               /\ g # h \/ Start(m) # Start(l) =>
                    (HeldAt(one, g, Start(m)) <=> HeldAt(bundles[b], g, Start(m)))
               /\ Once /\ g = h /\ Start(m) = Start(l) => ~HeldAt(one, g, Start(m))
      BY <1>1 DEF Outcome
    <2> QED BY ONLY <2>1, <2>2, <2>3, <2>4
  <1> QED BY <1>2, <1>3

\* An item of the set stays held or awaited, and no other is anywhere for good.
LEMMA HeldStays ==
  ASSUME NEW items, items \subseteq Hashes, NEW bundles, NEW then, NEW phases, NEW t, NEW u, NEW p, NEW h, NEW l,
         phases # <<>>, p = phases[1], PhasesRight(phases, items, bundles), PhaseRight(p, items, bundles),
         HeldRight(items, bundles, phases, t), HeldOutcome(p.phase, then, bundles, h, l),
         TodoOutcome(t, u, p.data, h, l),
         p.phase # "remove" => h \in items, p.phase = "remove" => h \notin items
  PROVE  HeldRight(items, then, phases, u)
  <1> DEFINE Second(g) == \E a, q : phases = <<a, q>> /\ \E i \in DOMAIN q.data : q.data[i].hash = g
  <1>1. \A work : Now(phases, work) <=> p.phase = work BY DEF Now
  <1>2. \A s, g, m : Awaited(phases, s, g, m) <=> (p.phase = "insert" /\ Todo(s, p.data, g, m)) \/ Second(g)
    BY <1>1 DEF Awaited
  <1>3. \A s, g, m : Doomed(phases, s, g, m) <=> p.phase = "remove" /\ Todo(s, p.data, g, m)
    BY <1>1 DEF Doomed
  <1>4. (\E a, q : phases = <<a, q>>) => p.phase = "overwrite"
    <2>1. ASSUME NEW a, NEW q, phases = <<a, q>> PROVE p.phase = "overwrite"
      <3>1. \A r : phases # <<r>>
        <4>1. Len(phases) = 2 BY <2>1, TwoPhases
        <4>2. ASSUME NEW r, phases = <<r>> PROVE FALSE
          <5>1. Len(<<r>>) = 1 BY OnePhase
          <5>2. Len(phases) = 1 BY ONLY <4>2, <5>1
          <5> QED BY ONLY <4>1, <5>2
        <4> QED BY <4>2
      <3>2. PICK c, d : phases = <<c, d>> /\ c.phase = "overwrite" BY <3>1 DEF PhasesRight
      <3> QED BY <3>2, TwoPhases
    <2> QED BY <2>1
  <1>5. \A g : Second(g) => p.phase = "overwrite" BY <1>4
  <1> HIDE DEF Second
  <1>6. p.phase \in Works BY DEF PhaseRight
  <1>7. p.phase = "overwrite" => ~Once BY DEF PhaseRight, Once
  <1>8. Hashes \subseteq AnyHash BY HashesAre
  <1>9. ASSUME Ordered, NEW g \in items, NEW m \in Locations[g.item]
        PROVE  HeldIn(then, g, m) \/ Awaited(phases, u, g, m)
    <2>1. g \in AnyHash BY <1>8
    <2>2. HeldIn(bundles, g, m) \/ Awaited(phases, t, g, m) BY <1>9 DEF HeldRight
    <2>3. CASE p.phase = "insert" BY ONLY <1>2, <1>9, <2>1, <2>2, <2>3, HeldOutcome(p.phase, then, bundles, h, l), TodoOutcome(t, u, p.data, h, l) DEF HeldOutcome, TodoOutcome
    <2>4. CASE p.phase = "overwrite"
      <3>1. HeldIn(bundles, g, m) => HeldIn(then, g, m) BY <1>9, <2>1, <2>4 DEF HeldOutcome
      <3>2. Awaited(phases, t, g, m) => Awaited(phases, u, g, m) BY ONLY <1>2, <2>4
      <3> QED BY <2>2, <3>1, <3>2
    <2>5. CASE p.phase = "remove"
      <3>1. ~Awaited(phases, t, g, m) BY ONLY <1>2, <1>5, <2>5
      <3>2. g # h BY <1>9, <2>5
      <3> QED BY <1>9, <2>1, <2>2, <2>5, <3>1, <3>2 DEF HeldOutcome
    <2> QED BY <1>6, <2>3, <2>4, <2>5 DEF Works
  <1>10. ASSUME Once, NEW g \in AnyHash, NEW m \in Locations[g.item]
         PROVE  /\ HeldIn(then, g, m) =>
                     (g \in items /\ ~Awaited(phases, u, g, m)) \/ Doomed(phases, u, g, m)
                /\ Doomed(phases, u, g, m) => HeldIn(then, g, m)
    <2>1. /\ HeldIn(bundles, g, m) =>
               (g \in items /\ ~Awaited(phases, t, g, m)) \/ Doomed(phases, t, g, m)
          /\ Doomed(phases, t, g, m) => HeldIn(bundles, g, m)
      BY <1>10 DEF HeldRight
    <2>2. /\ Todo(u, p.data, g, m) => Todo(t, p.data, g, m)
          /\ Todo(t, p.data, g, m) => Todo(u, p.data, g, m) \/ (g = h /\ m = l)
          /\ g = h /\ m = l => ~Todo(u, p.data, g, m)
      BY <1>10 DEF TodoOutcome
    <2>3. CASE p.phase = "insert"
      <3>1. HeldIn(then, g, m) <=> HeldIn(bundles, g, m) \/ (g = h /\ m = l)
        BY <1>10, <2>3 DEF HeldOutcome
      <3>2. h \in items BY <2>3
      <3> QED BY ONLY <1>2, <1>3, <1>5, <2>1, <2>2, <2>3, <3>1, <3>2
    <2>4. CASE p.phase = "remove"
      <3>1. /\ g # h \/ m # l => (HeldIn(then, g, m) <=> HeldIn(bundles, g, m))
            /\ g = h /\ m = l => ~HeldIn(then, g, m)
        BY <1>10, <2>4 DEF HeldOutcome
      <3> QED BY ONLY <1>2, <1>3, <1>5, <2>1, <2>2, <2>4, <3>1
    <2> QED BY <1>6, <1>7, <1>10, <2>3, <2>4 DEF Works
  <1> QED BY ONLY <1>9, <1>10 DEF HeldRight

-----------------------------------------------------------------------------
(* Every step leaves the database right.                                   *)

\* A task works on the next of its entries.
LEMMA WorkStep ==
  ASSUME Inv, NEW b \in BundleIdxs, Work(b)
  PROVE  Inv'
  <1>1. Active(b) BY DEF Work
  <1>2. ~stripped /\ \E i, l, p, h : NextRight(b, i, l, p, h) BY <1>1, NextExists
  <1>3. PICK i, l, p, h : NextRight(b, i, l, p, h) BY <1>2
  <1>4. /\ call.phases # <<>> /\ p = call.phases[1] /\ PhaseRight(p, hashed_items, bin_bundles)
        /\ NextKey(b) = <<i, l>> /\ i \in DOMAIN p.data /\ h = p.data[i].hash /\ h \in AnyHash
        /\ l \in Nat /\ Index(l) = b /\ Start(l) \in Starts
    BY <1>3 DEF NextRight
  <1>5. PICK one \in NextBundles(b) : bin_bundles' = [bin_bundles EXCEPT ![b] = one] BY DEF Work
  <1>6. SetRight(one, Once) /\ Outcome(p.phase, one, bin_bundles[b], h, Start(l))
    BY <1>2, <1>3, <1>5, NextBundlesRight
  <1>7. bin_bundles = [c \in BundleIdxs |-> bin_bundles[c]] BY DEF Inv
  <1>8. PICK then : then = bin_bundles' OBVIOUS
  <1>9. /\ then = [c \in BundleIdxs |-> then[c]] /\ then[b] = one
        /\ \A c \in BundleIdxs : c # b => then[c] = bin_bundles[c]
    BY <1>5, <1>7, <1>8
  <1>10. TasksRight(tasks, call.phases, call.stage) BY DEF Inv
  <1>11. PICK u : u = tasks' OBVIOUS
  <1>12. PICK rest : rest = tasks[b].todo \ {<<i, l>>} OBVIOUS
  <1>13. u = [tasks EXCEPT ![b] = [todo |-> rest, state |-> IF rest = {} THEN "done" ELSE "running"]]
    BY <1>4, <1>11, <1>12 DEF Work
  <1>14. tasks \in [BundleIdxs -> Task] BY <1>10 DEF TasksRight
  <1>15. /\ u[b] = [todo |-> rest, state |-> IF rest = {} THEN "done" ELSE "running"]
         /\ \A c \in BundleIdxs : c # b => u[c] = tasks[c]
    BY <1>13, <1>14
  <1>16. u[b].todo = rest /\ u[b].state = IF rest = {} THEN "done" ELSE "running" BY <1>15
  <1>17. p.phase \in Works BY <1>4 DEF PhaseRight
  <1>18. HeldOutcome(p.phase, then, bin_bundles, h, l)
    BY ONLY <1>4, <1>6, <1>9, <1>17, b \in BundleIdxs, HeldAfter
  <1>19. TodoOutcome(tasks, u, p.data, h, l)
    <2>1. PICK data : data = p.data OBVIOUS
    <2>2. u[b].todo = tasks[b].todo \ {<<i, l>>} BY <1>12, <1>16
    <2>3. \A c \in BundleIdxs : c # b => u[c].todo = tasks[c].todo BY <1>15
    <2>4. PhaseRight(p, hashed_items, bin_bundles) /\ i \in DOMAIN data /\ h = data[i].hash /\ Index(l) = b
      BY <1>4, <2>1
    <2>5. TodoOutcome(tasks, u, data, h, l)
      BY ONLY <2>1, <2>2, <2>3, <2>4, b \in BundleIdxs, TodoAfter
    <2> QED BY ONLY <2>1, <2>5
  <1>20. hashed_items \subseteq Hashes /\ PhasesRight(call.phases, hashed_items, bin_bundles)
         /\ HeldRight(hashed_items, bin_bundles, call.phases, tasks)
    BY <1>2 DEF Inv
  <1>21. /\ p.phase # "remove" => h \in hashed_items
         /\ p.phase = "remove" => h \notin hashed_items
    BY <1>4 DEF PhaseRight
  <1>22. HeldRight(hashed_items, then, call.phases, u)
    <2>1. PICK phases : phases = call.phases OBVIOUS
    <2>2. PICK items : items = hashed_items OBVIOUS
    <2>3. PICK bundles : bundles = bin_bundles OBVIOUS
    <2>4. PICK t : t = tasks OBVIOUS
    <2>5. /\ items \subseteq Hashes /\ phases # <<>> /\ p = phases[1]
          /\ PhasesRight(phases, items, bundles) /\ PhaseRight(p, items, bundles)
          /\ HeldRight(items, bundles, phases, t)
      BY <1>4, <1>20, <2>1, <2>2, <2>3, <2>4
    <2>6. HeldOutcome(p.phase, then, bundles, h, l) /\ TodoOutcome(t, u, p.data, h, l)
      BY <1>18, <1>19, <2>3, <2>4
    <2>7. /\ p.phase # "remove" => h \in items
          /\ p.phase = "remove" => h \notin items
      BY <1>21, <2>2
    <2>8. HeldRight(items, then, phases, u) BY ONLY <2>5, <2>6, <2>7, HeldStays
    <2> QED BY <2>1, <2>2, <2>8
  <1>23. PhasesRight(call.phases, hashed_items, then)
    <2>1. Now(call.phases, "overwrite") => \A g \in AnyHash : \A m \in Locations[g.item] :
            HeldIn(bin_bundles, g, m) => HeldIn(then, g, m)
      BY ONLY <1>4, <1>18 DEF HeldOutcome, Now
    <2> QED BY ONLY <1>20, <2>1, PhasesStay
  <1>24. TasksRight(u, call.phases, call.stage)
    <2>1. rest \in SUBSET (Nat \X Nat)
      <3>1. tasks[b] \in Task BY <1>14
      <3> QED BY <1>12, <3>1 DEF Task
    <2>2. u \in [BundleIdxs -> Task]
      <3>1. u[b] \in Task BY <1>15, <2>1 DEF Task
      <3> QED BY <1>13, <1>14, <1>15, <3>1
    <2>3. \A c \in BundleIdxs : \A j, m : <<j, m>> \in u[c].todo => <<j, m>> \in tasks[c].todo
      BY <1>12, <1>15, <1>16
    <2>4. \A c \in BundleIdxs : u[c].state \in {"queued", "running"} => u[c].todo # {}
      BY <1>10, <1>15, <1>16 DEF TasksRight
    <2>5. call.stage = "running" =>
            \A c \in BundleIdxs : u[c].state \in {"none", "done"} => u[c].todo = {}
      BY <1>10, <1>15, <1>16 DEF TasksRight
    <2>6. \A c \in BundleIdxs : u[c].state = "failed" => ~Once /\ (Ordered => Now(call.phases, "remove"))
      BY <1>10, <1>15, <1>16 DEF TasksRight
    <2>7. \A c \in BundleIdxs : \A j, m : <<j, m>> \in u[c].todo =>
            /\ call.phases # <<>> /\ j \in DOMAIN call.phases[1].data
            /\ m \in Locations[call.phases[1].data[j].hash.item] /\ Index(m) = c
      BY <1>10, <2>3 DEF TasksRight
    <2> QED BY ONLY <2>2, <2>4, <2>5, <2>6, <2>7 DEF TasksRight
  <1>25. AllRight(then)
    <2>1. AllRight(bin_bundles) BY <1>2 DEF Inv
    <2> QED BY <1>6, <1>9, <2>1 DEF AllRight
  <1>26. UNCHANGED <<hashed_items, stripped, call, file>> BY DEF Work
  <1>27. stripped \in BOOLEAN /\ CallRight(call) /\ \A db \in file : FileRight(db) BY DEF Inv
  <1> QED BY ONLY <1>2, <1>8, <1>9, <1>11, <1>20, <1>22, <1>23, <1>24, <1>25, <1>26, <1>27 DEF Inv

\* The tasks with other states.
LEMMA SameTodo ==
  ASSUME NEW items, items \subseteq Hashes, NEW bundles, NEW phases, NEW t, HeldRight(items, bundles, phases, t),
         NEW u, \A b \in BundleIdxs : u[b].todo = t[b].todo
  PROVE  HeldRight(items, bundles, phases, u)
  <1>1. ASSUME NEW h \in AnyHash, NEW l \in Locations[h.item]
        PROVE  /\ Awaited(phases, u, h, l) <=> Awaited(phases, t, h, l)
               /\ Doomed(phases, u, h, l) <=> Doomed(phases, t, h, l)
    <2>1. Index(l) \in BundleIdxs BY Places
    <2>2. u[Index(l)].todo = t[Index(l)].todo BY <2>1
    <2>3. \A data : Todo(u, data, h, l) <=> Todo(t, data, h, l) BY ONLY <2>2 DEF Todo
    <2> QED BY ONLY <2>3 DEF Awaited, Doomed
  <1>2. \A h \in AnyHash : \A l \in Locations[h.item] :
          /\ Awaited(phases, u, h, l) <=> Awaited(phases, t, h, l)
          /\ Doomed(phases, u, h, l) <=> Doomed(phases, t, h, l)
    BY <1>1
  <1>3. items \subseteq AnyHash BY HashesAre
  <1> QED BY ONLY HeldRight(items, bundles, phases, t), <1>2, <1>3 DEF HeldRight

\* A task throws only when some batch is not as it should be.
LEMMA ThrowStep ==
  ASSUME Inv, NEW b \in BundleIdxs, Throw(b)
  PROVE  Inv'
  <1>1. Active(b) /\ NextBundles(b) = {} /\ UNCHANGED <<hashed_items, bin_bundles, stripped, call, file>>
    BY DEF Throw
  <1>2. ~stripped /\ \E i, l, p, h : NextRight(b, i, l, p, h) BY <1>1, NextExists
  <1>3. PICK i, l, p, h : NextRight(b, i, l, p, h) BY <1>2
  <1>4. ~Once /\ (Ordered => Now(call.phases, "remove")) BY <1>1, <1>2, <1>3, NextBundlesRight
  <1>5. TasksRight(tasks, call.phases, call.stage) /\ HeldRight(hashed_items, bin_bundles, call.phases, tasks)
    BY <1>2 DEF Inv
  <1>6. tasks \in [BundleIdxs -> Task] BY <1>5 DEF TasksRight
  <1>7. PICK u : u = tasks' OBVIOUS
  <1>8. u = [tasks EXCEPT ![b].state = "failed"] BY <1>7 DEF Throw
  <1>9. /\ u[b] = [tasks[b] EXCEPT !.state = "failed"]
        /\ \A c \in BundleIdxs : c # b => u[c] = tasks[c] BY <1>6, <1>8
  <1>10. u[b].todo = tasks[b].todo /\ u[b].state = "failed" /\ u[b] \in Task
    <2>1. tasks[b] \in Task BY <1>6
    <2> QED BY <1>9, <2>1 DEF Task
  <1>11. \A c \in BundleIdxs : u[c].todo = tasks[c].todo BY <1>9, <1>10
  <1>12. HeldRight(hashed_items, bin_bundles, call.phases, u)
    <2>1. hashed_items \subseteq Hashes BY DEF Inv
    <2> QED BY ONLY <1>5, <1>11, <2>1, SameTodo
  <1>13. TasksRight(u, call.phases, call.stage)
    <2>1. u \in [BundleIdxs -> Task] BY <1>6, <1>8, <1>9, <1>10
    <2>2. \A c \in BundleIdxs : c = b \/ u[c].state = tasks[c].state BY <1>9
    <2>3. \A c \in BundleIdxs : u[c].state = "failed" => ~Once /\ (Ordered => Now(call.phases, "remove"))
      BY <1>4, <1>5, <2>2 DEF TasksRight
    <2> QED BY ONLY <1>5, <1>10, <1>11, <2>1, <2>2, <2>3 DEF TasksRight
  <1>14. bin_bundles' = [c \in BundleIdxs |-> bin_bundles'[c]] BY <1>1 DEF Inv
  <1>15. /\ stripped \in BOOLEAN /\ CallRight(call) /\ hashed_items \subseteq Hashes
         /\ AllRight(bin_bundles) /\ PhasesRight(call.phases, hashed_items, bin_bundles)
         /\ \A db \in file : FileRight(db)
    BY <1>2 DEF Inv
  <1> QED BY ONLY <1>1, <1>2, <1>7, <1>12, <1>13, <1>14, <1>15 DEF Inv

\* What a step that leaves the bundles and what is left to do alone has to show.
LEMMA StageStep ==
  ASSUME Inv, ~stripped, NEW stage \in {"running", "unwinding"},
         DOMAIN call' = DOMAIN call, call'.phases = call.phases, call'.stage = stage,
         stage = "unwinding" => ~Once /\ (Ordered => Now(call.phases, "remove")),
         UNCHANGED <<hashed_items, bin_bundles, stripped, file>>,
         \A b \in BundleIdxs : tasks'[b].todo = tasks[b].todo,
         TasksRight(tasks', call.phases, stage)
  PROVE  Inv'
  <1>1. /\ bin_bundles = [c \in BundleIdxs |-> bin_bundles[c]] /\ CallRight(call)
        /\ hashed_items \subseteq Hashes /\ AllRight(bin_bundles)
        /\ PhasesRight(call.phases, hashed_items, bin_bundles)
        /\ HeldRight(hashed_items, bin_bundles, call.phases, tasks)
        /\ \A db \in file : FileRight(db)
    BY DEF Inv
  <1>2. call'.phases = call.phases /\ call'.stage = stage /\ CallRight(call') BY <1>1 DEF CallRight
  <1>3. PICK u : u = tasks' OBVIOUS
  <1>4. HeldRight(hashed_items, bin_bundles, call.phases, u)
    <2>1. \A b \in BundleIdxs : u[b].todo = tasks[b].todo BY <1>3
    <2> QED BY ONLY <1>1, <2>1, SameTodo
  <1> QED BY <1>1, <1>2, <1>3, <1>4 DEF Inv

\* A call is unwound.
LEMMA RethrowStep ==
  ASSUME Inv, Rethrow
  PROVE  Inv'
  <1>1. PICK b \in BundleIdxs : tasks[b].state = "failed" BY DEF Rethrow
  <1>2. TasksRight(tasks, call.phases, call.stage) BY DEF Inv
  <1>3. ~Once /\ (Ordered => Now(call.phases, "remove")) BY <1>1, <1>2 DEF TasksRight
  <1>4. ~stripped BY DEF Inv, Rethrow
  <1>5. tasks' = tasks /\ call' = [call EXCEPT !.stage = "unwinding"] BY DEF Rethrow
  <1>6. UNCHANGED <<hashed_items, bin_bundles, stripped, file>> BY DEF Rethrow
  <1>7. TasksRight(tasks', call.phases, "unwinding") BY <1>2, <1>5 DEF TasksRight
  <1>8. DOMAIN call' = DOMAIN call /\ call'.phases = call.phases /\ call'.stage = "unwinding"
    BY <1>5 DEF Inv, CallRight
  <1> QED BY <1>3, <1>4, <1>5, <1>6, <1>7, <1>8, StageStep

\* A task finds nothing to do any more.
LEMMA LoseIndexStep ==
  ASSUME Inv, NEW b \in BundleIdxs, LoseIndex(b)
  PROVE  Inv'
  <1>1. call.stage = "unwinding" BY DEF LoseIndex
  <1>2. TasksRight(tasks, call.phases, call.stage) /\ CallRight(call) BY DEF Inv
  <1>3. ~Once /\ (Ordered => Now(call.phases, "remove")) BY <1>1, <1>2 DEF CallRight
  <1>4. ~stripped BY <1>1 DEF Inv
  <1>5. call' = call /\ UNCHANGED <<hashed_items, bin_bundles, stripped, file>> BY DEF LoseIndex
  <1>6. DOMAIN call' = DOMAIN call /\ call'.phases = call.phases /\ call'.stage = "unwinding"
    BY <1>1, <1>5
  <1>7. tasks \in [BundleIdxs -> Task] BY <1>2 DEF TasksRight
  <1>8. PICK u : u = tasks' OBVIOUS
  <1>9. u = [tasks EXCEPT ![b].state = "done"] BY <1>8 DEF LoseIndex
  <1>10. /\ u[b] = [tasks[b] EXCEPT !.state = "done"]
         /\ \A c \in BundleIdxs : c # b => u[c] = tasks[c] BY <1>7, <1>9
  <1>11. u[b].todo = tasks[b].todo /\ u[b].state = "done" /\ u[b] \in Task
    <2>1. tasks[b] \in Task BY <1>7
    <2> QED BY <1>10, <2>1 DEF Task
  <1>12. \A c \in BundleIdxs : u[c].todo = tasks[c].todo BY <1>10, <1>11
  <1>13. TasksRight(u, call.phases, "unwinding")
    <2>1. u \in [BundleIdxs -> Task] BY <1>7, <1>9, <1>10, <1>11
    <2>2. \A c \in BundleIdxs : c = b \/ u[c].state = tasks[c].state BY <1>10
    <2>3. \A c \in BundleIdxs : u[c].state = "failed" => ~Once /\ (Ordered => Now(call.phases, "remove"))
      BY <1>3
    <2> QED BY ONLY <1>2, <1>11, <1>12, <2>1, <2>2, <2>3 DEF TasksRight
  <1> QED BY <1>3, <1>4, <1>5, <1>6, <1>8, <1>12, <1>13, StageStep

\* A call may have two phases.
LEMMA PhasesOf ==
  ASSUME NEW items, NEW bundles, NEW phases, PhasesRight(phases, items, bundles)
  PROVE  /\ Len(phases) > 1 => \E p, q : /\ phases = <<p, q>> /\ p.phase = "overwrite" /\ q.phase = "insert"
                                         /\ PhaseRight(q, items, bundles)
         /\ Len(phases) <= 1 => ~\E p, q : phases = <<p, q>>
  <1>1. CASE phases = <<>>
    <2>1. Len(phases) = 0 BY <1>1
    <2>2. ASSUME NEW p, NEW q, phases = <<p, q>> PROVE FALSE
      <3>1. Len(phases) = 2 BY <2>2, TwoPhases
      <3> QED BY ONLY <2>1, <3>1
    <2> QED BY <2>1, <2>2
  <1>2. CASE \E p : phases = <<p>> /\ PhaseRight(p, items, bundles)
    <2>1. Len(phases) = 1 BY <1>2, OnePhase
    <2>2. ASSUME NEW p, NEW q, phases = <<p, q>> PROVE FALSE
      <3>1. Len(phases) = 2 BY <2>2, TwoPhases
      <3> QED BY ONLY <2>1, <3>1
    <2> QED BY <2>1, <2>2
  <1>3. CASE \E p, q : /\ phases = <<p, q>> /\ p.phase = "overwrite" /\ q.phase = "insert"
                       /\ PhaseRight(p, items, bundles) /\ PhaseRight(q, items, bundles)
    <2>1. Len(phases) = 2 BY <1>3, TwoPhases
    <2> QED BY <1>3, <2>1
  <1> QED BY <1>1, <1>2, <1>3 DEF PhasesRight

\* The second phase begins.
LEMMA NextPhaseStep ==
  ASSUME Inv, NextPhase
  PROVE  Inv'
  <1>1. /\ call.stage = "running" /\ Len(call.phases) > 1
        /\ call' = [call EXCEPT !.phases = Tail(@)] /\ tasks' = TasksFor(call.phases[2].data)
        /\ UNCHANGED <<hashed_items, bin_bundles, stripped, file>>
    BY DEF NextPhase
  <1>2. ~stripped BY <1>1 DEF Inv
  <1>3. /\ bin_bundles = [c \in BundleIdxs |-> bin_bundles[c]] /\ CallRight(call)
        /\ hashed_items \subseteq Hashes /\ AllRight(bin_bundles)
        /\ PhasesRight(call.phases, hashed_items, bin_bundles)
        /\ HeldRight(hashed_items, bin_bundles, call.phases, tasks)
        /\ \A db \in file : FileRight(db)
    BY <1>2 DEF Inv
  <1>4. PICK p, q : /\ call.phases = <<p, q>> /\ p.phase = "overwrite" /\ q.phase = "insert"
                    /\ PhaseRight(q, hashed_items, bin_bundles)
    <2>1. PICK items : items = hashed_items OBVIOUS
    <2>2. PICK bundles : bundles = bin_bundles OBVIOUS
    <2>3. PICK all : all = call.phases OBVIOUS
    <2>4. PhasesRight(all, items, bundles) /\ Len(all) > 1 BY <1>1, <1>3, <2>1, <2>2, <2>3
    <2>5. \E p, q : /\ all = <<p, q>> /\ p.phase = "overwrite" /\ q.phase = "insert"
                    /\ PhaseRight(q, items, bundles)
      BY ONLY <2>4, PhasesOf
    <2> QED BY ONLY <2>1, <2>2, <2>3, <2>5
  <1>5. PICK t : t = tasks' OBVIOUS
  <1>6. PICK phases : phases = <<q>> OBVIOUS
  <1>7. /\ call'.phases = phases /\ call'.stage = "running" /\ CallRight(call')
    <2>1. Tail(call.phases) = <<q>> BY <1>4, TwoPhases
    <2> QED BY <1>1, <1>3, <1>6, <2>1 DEF CallRight
  <1>8. t = TasksFor(q.data) BY <1>1, <1>4, <1>5, TwoPhases
  <1>9. phases # <<>> /\ phases[1] = q BY <1>6, OnePhase
  <1>10. PhasesRight(phases, hashed_items, bin_bundles) BY ONLY <1>4, <1>6 DEF PhasesRight
  <1>11. Dispatched(t, phases) BY <1>8, <1>9 DEF Dispatched
  <1>12. TasksRight(t, phases, "running")
    BY ONLY <1>3, <1>9, <1>10, <1>11, TasksBegin
  <1>13. HeldRight(hashed_items, bin_bundles, phases, t)
    <2>1. PICK d : d = q.data OBVIOUS
    <2>2. DOMAIN d \subseteq Nat /\ \A i \in DOMAIN d : d[i].hash \in AnyHash
      BY ONLY <1>3, <1>4, <2>1, TodoOfPhase
    <2>3. t = TasksFor(d) BY <1>8, <2>1
    <2>4. \A h \in AnyHash : \A l \in Locations[h.item] :
            Todo(t, d, h, l) <=> \E i \in DOMAIN d : d[i].hash = h
      BY ONLY <2>2, <2>3, TodoAll
    <2>5. ASSUME NEW h \in AnyHash, NEW l \in Locations[h.item]
          PROVE  /\ Awaited(phases, t, h, l) <=> Awaited(call.phases, tasks, h, l)
                 /\ Doomed(phases, t, h, l) <=> Doomed(call.phases, tasks, h, l)
      <3>1. Todo(t, d, h, l) <=> \E i \in DOMAIN d : d[i].hash = h BY <2>4
      <3>2. /\ Awaited(<<q>>, t, h, l) <=> q.phase = "insert" /\ Todo(t, q.data, h, l)
            /\ Doomed(<<q>>, t, h, l) <=> q.phase = "remove" /\ Todo(t, q.data, h, l)
        BY ONLY OnePhase
      <3>3. PICK old : old = tasks OBVIOUS
      <3>4. /\ Awaited(<<p, q>>, old, h, l) <=> \/ p.phase = "insert" /\ Todo(old, p.data, h, l)
                                                \/ \E i \in DOMAIN q.data : q.data[i].hash = h
            /\ Doomed(<<p, q>>, old, h, l) <=> p.phase = "remove" /\ Todo(old, p.data, h, l)
        BY ONLY AwaitedOfTwo
      <3> QED BY ONLY <1>4, <1>6, <2>1, <3>1, <3>2, <3>3, <3>4
    <2>6. \A h \in AnyHash : \A l \in Locations[h.item] :
            /\ Awaited(phases, t, h, l) <=> Awaited(call.phases, tasks, h, l)
            /\ Doomed(phases, t, h, l) <=> Doomed(call.phases, tasks, h, l)
      BY <2>5
    <2>7. hashed_items \subseteq AnyHash BY <1>3, HashesAre
    <2> QED BY ONLY <1>3, <2>6, <2>7 DEF HeldRight
  <1> QED BY ONLY <1>1, <1>2, <1>3, <1>5, <1>7, <1>10, <1>12, <1>13, Inv DEF Inv

\* Nothing is in a database that is empty.
LEMMA NothingRight ==
  ASSUME NEW bundles, bundles = [b \in BundleIdxs |-> <<>>]
  PROVE  AllRight(bundles) /\ ItemsRight({}, bundles)
  <1>1. DOMAIN <<>> = {} OBVIOUS
  <1>2. IsSeq(<<>>) BY DEF IsSeq
  <1>3. SetRight(<<>>, Once) BY <1>1, <1>2 DEF SetRight
  <1>4. \A b \in BundleIdxs : bundles[b] = <<>> OBVIOUS
  <1>5. ASSUME NEW h \in AnyHash, NEW l \in Locations[h.item], HeldIn(bundles, h, l)
        PROVE  FALSE
    <2>1. Index(l) \in BundleIdxs BY Places
    <2>2. bundles[Index(l)] = <<>> BY <1>4, <2>1
    <2> QED BY <1>1, <1>5, <2>2 DEF HeldIn, HeldAt
  <1> QED BY <1>3, <1>4, <1>5 DEF AllRight, ItemsRight

\* When no call is served there are no tasks and nothing is awaited.
LEMMA RestRight ==
  ASSUME NEW t, t = [b \in BundleIdxs |-> NoTask], NEW stage
  PROVE  TasksRight(t, <<>>, stage)
  <1>1. \A b \in BundleIdxs : t[b] = NoTask OBVIOUS
  <1>2. \A b \in BundleIdxs : t[b].todo = {} /\ t[b].state = "none" BY <1>1 DEF NoTask
  <1>3. NoTask \in Task BY DEF NoTask, Task
  <1>4. t \in [BundleIdxs -> Task] BY <1>3
  <1> QED BY <1>2, <1>4 DEF TasksRight

\* No call is a call as it should be.
LEMMA IdleRight == CallRight(Idle) /\ Idle.stage = "idle" /\ Idle.phases = <<>>
  BY DEF CallRight, Idle

\* When a call has returned, the tasks are at rest.
LEMMA Rested ==
  ASSUME call' = Idle, tasks' = [b \in BundleIdxs |-> NoTask]
  PROVE  CallRight(call') /\ call'.stage = "idle" /\ TasksRight(tasks', <<>>, "idle")
  <1>1. PICK t : t = tasks' OBVIOUS
  <1>2. TasksRight(t, <<>>, "idle") BY <1>1, RestRight
  <1> QED BY <1>1, <1>2, IdleRight

\* Bundles that hold the same items serve as well.
LEMMA SameItems ==
  ASSUME NEW items, items \subseteq Hashes, NEW bundles, NEW then, ItemsRight(items, bundles),
         \A b \in BundleIdxs : \A s \in Starts, h \in AnyHash :
           HeldAt(then[b], h, s) <=> HeldAt(bundles[b], h, s)
  PROVE  ItemsRight(items, then)
  <1>1. ASSUME NEW h \in AnyHash, NEW l \in Locations[h.item]
        PROVE  HeldIn(then, h, l) <=> HeldIn(bundles, h, l)
    <2>1. Index(l) \in BundleIdxs /\ Start(l) \in Starts BY Places
    <2> QED BY <2>1 DEF HeldIn
  <1>2. \A h \in AnyHash : \A l \in Locations[h.item] : HeldIn(then, h, l) <=> HeldIn(bundles, h, l)
    BY <1>1
  <1>3. items \subseteq AnyHash BY HashesAre
  <1> QED BY ONLY ItemsRight(items, bundles), <1>2, <1>3 DEF ItemsRight

\* A database that nobody is changing, stripped or not.
SettledRight(gone, items, bundles) ==
  /\ gone \in BOOLEAN
  /\ bundles = [b \in BundleIdxs |-> bundles[b]]
  /\ items \subseteq Hashes
  /\ IF gone THEN items = {} /\ AllPerished(bundles) ELSE AllRight(bundles) /\ ItemsRight(items, bundles)

\* A database between calls is right if its bundles and its set of items are.
LEMMA Settled ==
  ASSUME CallRight(call'), call'.stage = "idle", SettledRight(stripped', hashed_items', bin_bundles'),
         TasksRight(tasks', <<>>, "idle"), \A db \in file' : FileRight(db)
  PROVE  Inv'
  <1>1. call'.phases = <<>> BY DEF CallRight
  <1>2. PhasesRight(<<>>, hashed_items', bin_bundles') BY DEF PhasesRight
  <1>3. hashed_items' \subseteq Hashes BY DEF SettledRight
  <1>4. ~stripped' => HeldRight(hashed_items', bin_bundles', <<>>, tasks')
    <2>1. PICK items : items = hashed_items' OBVIOUS
    <2>2. PICK bundles : bundles = bin_bundles' OBVIOUS
    <2>3. PICK t : t = tasks' OBVIOUS
    <2>4. ~stripped' => ItemsRight(items, bundles) BY <2>1, <2>2 DEF SettledRight
    <2>5. ItemsRight(items, bundles) => HeldRight(items, bundles, <<>>, t)
      BY ONLY <1>3, <2>1, AtIdle
    <2> QED BY ONLY <2>1, <2>2, <2>3, <2>4, <2>5
  <1> QED BY <1>1, <1>2, <1>3, <1>4 DEF Inv, SettledRight

\* A database at rest.
LEMMA AtRestRight ==
  ASSUME Inv, call.stage = "idle"
  PROVE  /\ call.phases = <<>> /\ CallRight(call)
         /\ SettledRight(stripped, hashed_items, bin_bundles)
         /\ TasksRight(tasks, <<>>, "idle")
         /\ \A db \in file : FileRight(db)
  <1>1. call.phases = <<>> BY DEF Inv, CallRight
  <1>2. ~stripped => HeldRight(hashed_items, bin_bundles, <<>>, tasks) BY <1>1 DEF Inv
  <1>3. hashed_items \subseteq Hashes BY DEF Inv
  <1>4. ~stripped => ItemsRight(hashed_items, bin_bundles) BY <1>2, <1>3, AtIdle
  <1> QED BY <1>1, <1>3, <1>4 DEF Inv, SettledRight

\* The empty database.
LEMMA InitStep == Init => Inv
  <1> SUFFICES ASSUME Init PROVE Inv OBVIOUS
  <1>1. CallRight(call) /\ call.stage = "idle" /\ call.phases = <<>> BY IdleRight DEF Init
  <1>2. TasksRight(tasks, call.phases, call.stage)
    <2>1. PICK t : t = tasks OBVIOUS
    <2>2. t = [b \in BundleIdxs |-> NoTask] BY <2>1 DEF Init
    <2> QED BY <1>1, <2>1, <2>2, RestRight
  <1>3. bin_bundles = [b \in BundleIdxs |-> <<>>] BY DEF Init
  <1>4. AllRight(bin_bundles) /\ ItemsRight({}, bin_bundles) BY <1>3, NothingRight
  <1>5. PhasesRight(call.phases, hashed_items, bin_bundles) BY <1>1 DEF PhasesRight
  <1>6. HeldRight(hashed_items, bin_bundles, call.phases, tasks)
    <2>1. hashed_items = {} BY DEF Init
    <2>2. PICK t : t = tasks OBVIOUS
    <2>3. HeldRight({}, bin_bundles, <<>>, t) BY <1>4, AtIdle
    <2> QED BY <1>1, <2>1, <2>2, <2>3
  <1> QED BY <1>1, <1>2, <1>3, <1>4, <1>5, <1>6 DEF Init, Inv

\* A call returns: the caches are regenerated, the bins stay.
LEMMA ReturnStep ==
  ASSUME Inv, Return
  PROVE  Inv'
  <1>1. /\ call.stage = "running" /\ Len(call.phases) <= 1 /\ TasksDone
        /\ bin_bundles' = GenerateCaches(bin_bundles) /\ call' = Idle /\ tasks' = [b \in BundleIdxs |-> NoTask]
        /\ UNCHANGED <<hashed_items, stripped, file>>
    BY DEF Return, Finish
  <1>2. ~stripped BY <1>1 DEF Inv
  <1>3. /\ stripped \in BOOLEAN /\ hashed_items \subseteq Hashes /\ AllRight(bin_bundles)
        /\ PhasesRight(call.phases, hashed_items, bin_bundles)
        /\ HeldRight(hashed_items, bin_bundles, call.phases, tasks)
        /\ TasksRight(tasks, call.phases, call.stage)
        /\ \A db \in file : FileRight(db)
    BY <1>2 DEF Inv
  <1>4. ItemsRight(hashed_items, bin_bundles)
    <2>1. \A b \in BundleIdxs : tasks[b].todo = {} BY <1>1, <1>3 DEF TasksDone, TasksRight
    <2>2. ASSUME NEW h \in AnyHash, NEW l \in Locations[h.item]
          PROVE  ~Awaited(call.phases, tasks, h, l) /\ ~Doomed(call.phases, tasks, h, l)
      <3>1. Index(l) \in BundleIdxs BY Places
      <3>2. \A d : ~Todo(tasks, d, h, l) BY ONLY <2>1, <3>1 DEF Todo
      <3>3. ~\E p, q : call.phases = <<p, q>>
        <4>1. PICK items : items = hashed_items OBVIOUS
        <4>2. PICK bundles : bundles = bin_bundles OBVIOUS
        <4>3. PICK all : all = call.phases OBVIOUS
        <4>4. PhasesRight(all, items, bundles) /\ Len(all) <= 1 BY <1>1, <1>3, <4>1, <4>2, <4>3
        <4>5. ~\E p, q : all = <<p, q>> BY ONLY <4>4, PhasesOf
        <4> QED BY ONLY <4>3, <4>5
      <3> QED BY ONLY <3>2, <3>3 DEF Awaited, Doomed
    <2>3. \A h \in AnyHash : \A l \in Locations[h.item] :
            ~Awaited(call.phases, tasks, h, l) /\ ~Doomed(call.phases, tasks, h, l) BY <2>2
    <2>4. hashed_items \subseteq AnyHash BY <1>3, HashesAre
    <2> QED BY ONLY <1>3, <2>3, <2>4 DEF HeldRight, ItemsRight
  <1>5. PICK then : then = GenerateCaches(bin_bundles) OBVIOUS
  <1>6. /\ then = [b \in BundleIdxs |-> then[b]]
        /\ \A b \in BundleIdxs : then[b] = [i \in DOMAIN bin_bundles[b] |-> RegenCache(bin_bundles[b][i])]
    BY <1>5 DEF GenerateCaches
  <1>7. ASSUME NEW b \in BundleIdxs
        PROVE  /\ SetRight(then[b], Once)
               /\ \A s \in Starts, h \in AnyHash : HeldAt(then[b], h, s) <=> HeldAt(bin_bundles[b], h, s)
    <2>1. PICK bundles : bundles = bin_bundles[b] OBVIOUS
    <2>2. PICK after : after = then[b] OBVIOUS
    <2>3. SetRight(bundles, Once) BY <1>3, <2>1 DEF AllRight
    <2>4. after = [i \in DOMAIN bundles |-> RegenCache(bundles[i])] BY <1>6, <2>1, <2>2
    <2>5. Once \in BOOLEAN BY DEF Once
    <2>6. /\ SetRight(after, Once)
          /\ \A s \in Starts, h \in AnyHash : HeldAt(after, h, s) <=> HeldAt(bundles, h, s)
      BY ONLY <2>3, <2>4, <2>5, CachesRight
    <2> QED BY ONLY <2>1, <2>2, <2>6
  <1>8. AllRight(then) BY <1>7 DEF AllRight
  <1>9. ItemsRight(hashed_items, then) BY <1>3, <1>4, <1>7, SameItems
  <1>10. SettledRight(stripped', hashed_items', bin_bundles')
    BY <1>1, <1>2, <1>3, <1>5, <1>6, <1>8, <1>9 DEF SettledRight
  <1>11. CallRight(call') /\ call'.stage = "idle" /\ TasksRight(tasks', <<>>, "idle") BY <1>1, Rested
  <1>12. \A db \in file' : FileRight(db) BY <1>1, <1>3
  <1> QED BY ONLY <1>10, <1>11, <1>12, Settled

\* A call that threw ends, and leaves things as they are.
LEMMA UnwoundStep ==
  ASSUME Inv, Unwound
  PROVE  Inv'
  <1>1. /\ call.stage = "unwinding" /\ call' = Idle /\ tasks' = [b \in BundleIdxs |-> NoTask]
        /\ UNCHANGED <<bin_bundles, hashed_items, stripped, file>>
    BY DEF Unwound, Finish
  <1>2. ~stripped BY <1>1 DEF Inv
  <1>3. /\ stripped \in BOOLEAN /\ hashed_items \subseteq Hashes /\ AllRight(bin_bundles) /\ CallRight(call)
        /\ bin_bundles = [b \in BundleIdxs |-> bin_bundles[b]]
        /\ PhasesRight(call.phases, hashed_items, bin_bundles)
        /\ HeldRight(hashed_items, bin_bundles, call.phases, tasks)
        /\ \A db \in file : FileRight(db)
    BY <1>2 DEF Inv
  <1>4. ~Once /\ (Ordered => Now(call.phases, "remove")) BY <1>1, <1>3 DEF CallRight
  <1>5. ItemsRight(hashed_items, bin_bundles)
    <2>1. ASSUME Ordered, NEW h, NEW l PROVE ~Awaited(call.phases, tasks, h, l)
      <3>1. Now(call.phases, "remove") BY <1>4, <2>1
      <3>2. ~\E p, q : call.phases = <<p, q>>
        <4>1. ASSUME NEW p, NEW q, call.phases = <<p, q>> PROVE FALSE
          <5>1. Len(call.phases) = 2 /\ call.phases[1] = p BY <4>1, TwoPhases
          <5>2. p.phase = "remove" BY <3>1, <5>1 DEF Now
          <5>3. PICK items : items = hashed_items OBVIOUS
          <5>4. PICK bundles : bundles = bin_bundles OBVIOUS
          <5>5. PICK all : all = call.phases OBVIOUS
          <5>6. PhasesRight(all, items, bundles) /\ Len(all) > 1 BY <1>3, <5>1, <5>3, <5>4, <5>5
          <5>7. PICK c, d : all = <<c, d>> /\ c.phase = "overwrite" BY ONLY <5>6, PhasesOf
          <5>8. all[1] = c BY <5>7, TwoPhases
          <5> QED BY ONLY <5>1, <5>2, <5>5, <5>7, <5>8
        <4> QED BY <4>1
      <3> QED BY ONLY <3>1, <3>2 DEF Awaited, Now
    <2> QED BY <1>3, <1>4, <2>1 DEF HeldRight, ItemsRight
  <1>6. SettledRight(stripped', hashed_items', bin_bundles') BY <1>1, <1>2, <1>3, <1>5 DEF SettledRight
  <1>7. CallRight(call') /\ call'.stage = "idle" /\ TasksRight(tasks', <<>>, "idle") BY <1>1, Rested
  <1>8. \A db \in file' : FileRight(db) BY <1>1, <1>3
  <1> QED BY ONLY <1>6, <1>7, <1>8, Settled

\* A bundle that is stripped has its cache and nothing else.
LEMMA StripRight ==
  ASSUME NEW bb, DOMAIN bb = Fields, bb.cache_invalid \in BOOLEAN
  PROVE  Perished(Strip(bb))
  <1>1. PICK r : r = RegenCache(bb) OBVIOUS
  <1>2. DOMAIN r = Fields /\ r.cache_invalid = FALSE
    <2>1. CASE bb.cache_invalid
      BY <1>1, <2>1 DEF RegenCache, RegenPlaintexts, RegenPolyns, ClearCache, Fields
    <2>2. CASE ~bb.cache_invalid BY <1>1, <2>2 DEF RegenCache
    <2> QED BY <2>1, <2>2
  <1>3. Strip(bb) = [r EXCEPT !.stripped = TRUE, !.item_bins = <<>>, !.label_bins = <<>>,
                              !.felt_polyns = NoPolyns] BY <1>1 DEF Strip
  <1> QED BY <1>2, <1>3 DEF Perished, Fields

\* strip.
LEMMA StripStep ==
  ASSUME Inv, StripDb
  PROVE  Inv'
  <1>1. /\ call.stage = "idle" /\ stripped' = TRUE /\ hashed_items' = {}
        /\ bin_bundles' = [b \in BundleIdxs |-> [i \in DOMAIN bin_bundles[b] |-> Strip(bin_bundles[b][i])]]
        /\ UNCHANGED <<call, tasks, file>>
    BY DEF StripDb
  <1>2. CallRight(call) /\ SettledRight(stripped, hashed_items, bin_bundles) /\ TasksRight(tasks, <<>>, "idle")
        /\ \A db \in file : FileRight(db)
    BY <1>1, AtRestRight
  <1>3. ASSUME NEW b \in BundleIdxs, NEW i \in DOMAIN bin_bundles[b]
        PROVE  Perished(Strip(bin_bundles[b][i]))
    <2>1. PICK bb : bb = bin_bundles[b][i] OBVIOUS
    <2>2. DOMAIN bb = Fields /\ bb.cache_invalid \in BOOLEAN
      <3>1. CASE stripped
        <4>1. Perished(bb) BY <1>2, <2>1, <3>1 DEF SettledRight, AllPerished
        <4> QED BY <4>1 DEF Perished
      <3>2. CASE ~stripped
        <4>1. OneRight(bb, Once) BY <1>2, <2>1, <3>2 DEF SettledRight, AllRight, SetRight
        <4> QED BY <4>1 DEF OneRight, BundleRight, Shaped, Cached
      <3> QED BY <3>1, <3>2
    <2>3. Perished(Strip(bb)) BY <2>2, StripRight
    <2> QED BY <2>1, <2>3
  <1>4. AllPerished(bin_bundles') BY <1>1, <1>3 DEF AllPerished
  <1>5. bin_bundles' = [b \in BundleIdxs |-> bin_bundles'[b]] BY <1>1
  <1>6. SettledRight(stripped', hashed_items', bin_bundles') BY <1>1, <1>4, <1>5 DEF SettledRight
  <1>7. CallRight(call') /\ call'.stage = "idle" /\ TasksRight(tasks', <<>>, "idle") BY <1>1, <1>2
  <1>8. \A db \in file' : FileRight(db) BY <1>1, <1>2
  <1> QED BY ONLY <1>6, <1>7, <1>8, Settled

\* clear.
LEMMA ClearStep ==
  ASSUME Inv, ClearInternal
  PROVE  Inv'
  <1>1. /\ call.stage = "idle" /\ stripped' = FALSE /\ hashed_items' = {}
        /\ bin_bundles' = [b \in BundleIdxs |-> <<>>]
        /\ UNCHANGED <<call, tasks, file>>
    BY DEF ClearInternal
  <1>2. CallRight(call) /\ TasksRight(tasks, <<>>, "idle") /\ \A db \in file : FileRight(db)
    BY <1>1, AtRestRight
  <1>3. PICK bundles : bundles = bin_bundles' OBVIOUS
  <1>4. AllRight(bundles) /\ ItemsRight({}, bundles) BY <1>1, <1>3, NothingRight
  <1>5. SettledRight(stripped', hashed_items', bin_bundles') BY <1>1, <1>3, <1>4 DEF SettledRight
  <1>6. CallRight(call') /\ call'.stage = "idle" /\ TasksRight(tasks', <<>>, "idle") BY <1>1, <1>2
  <1>7. \A db \in file' : FileRight(db) BY <1>1, <1>2
  <1> QED BY ONLY <1>5, <1>6, <1>7, Settled

\* What is written down can be read again.
LEMMA SavedRight ==
  ASSUME NEW gone, NEW items, NEW bundles, SettledRight(gone, items, bundles),
         NEW saved, saved = [b \in BundleIdxs |-> [i \in DOMAIN bundles[b] |-> Save(bundles[b][i])]],
         NEW loaded, loaded = Loaded(saved)
  PROVE  /\ gone => AllPerished(loaded)
         /\ ~gone => AllRight(loaded) /\ ItemsRight(items, loaded)
  <1>1. \A b \in BundleIdxs : loaded[b] = [i \in DOMAIN bundles[b] |-> Load(Save(bundles[b][i]))]
    <2>1. \A b \in BundleIdxs : saved[b] = [i \in DOMAIN bundles[b] |-> Save(bundles[b][i])] OBVIOUS
    <2>2. \A b \in BundleIdxs : loaded[b] = [i \in DOMAIN saved[b] |-> Load(saved[b][i])] BY DEF Loaded
    <2>3. ASSUME NEW b \in BundleIdxs
          PROVE  loaded[b] = [i \in DOMAIN bundles[b] |-> Load(Save(bundles[b][i]))]
      <3>1. PICK s : s = saved[b] OBVIOUS
      <3>2. s = [i \in DOMAIN bundles[b] |-> Save(bundles[b][i])] BY ONLY <2>1, <2>3, <3>1
      <3>3. loaded[b] = [i \in DOMAIN s |-> Load(s[i])] BY ONLY <2>2, <2>3, <3>1
      <3>4. DOMAIN s = DOMAIN bundles[b] /\ \A i \in DOMAIN bundles[b] : s[i] = Save(bundles[b][i])
        BY ONLY <3>2
      <3> QED BY ONLY <3>3, <3>4
    <2> QED BY <2>3
  <1>2. ASSUME gone PROVE AllPerished(loaded)
    <2>1. ASSUME NEW b \in BundleIdxs, NEW i \in DOMAIN bundles[b] PROVE Perished(Load(Save(bundles[b][i])))
      <3>1. PICK bb : bb = bundles[b][i] OBVIOUS
      <3>2. Perished(bb) BY <1>2, <3>1 DEF SettledRight, AllPerished
      <3>3. Perished(Load(Save(bb))) BY <3>2 DEF Perished, Load, Save, Fields
      <3> QED BY <3>1, <3>3
    <2>2. \A b \in BundleIdxs : DOMAIN loaded[b] = DOMAIN bundles[b]
            /\ \A i \in DOMAIN bundles[b] : loaded[b][i] = Load(Save(bundles[b][i])) BY ONLY <1>1
    <2>3. \A b \in BundleIdxs : \A i \in DOMAIN loaded[b] : Perished(loaded[b][i]) BY ONLY <2>1, <2>2
    <2> QED BY ONLY <2>3 DEF AllPerished
  <1>3. ASSUME ~gone PROVE AllRight(loaded) /\ ItemsRight(items, loaded)
    <2>1. AllRight(bundles) /\ ItemsRight(items, bundles) /\ items \subseteq Hashes BY <1>3 DEF SettledRight
    <2>2. ASSUME NEW b \in BundleIdxs
          PROVE  /\ SetRight(loaded[b], Once)
                 /\ \A s \in Starts, h \in AnyHash : HeldAt(loaded[b], h, s) <=> HeldAt(bundles[b], h, s)
      <3>1. PICK old : old = bundles[b] OBVIOUS
      <3>2. PICK then : then = loaded[b] OBVIOUS
      <3>3. SetRight(old, Once) BY <2>1, <3>1 DEF AllRight
      <3>4. then = [i \in DOMAIN old |-> Load(Save(old[i]))] BY <1>1, <3>1, <3>2
      <3>5. Once \in BOOLEAN BY DEF Once
      <3>6. \A i \in DOMAIN old : OneRight(then[i], Once) /\ then[i].item_bins = old[i].item_bins
        <4>1. ASSUME NEW i \in DOMAIN old PROVE OneRight(then[i], Once) /\ then[i].item_bins = old[i].item_bins
          <5>1. PICK bb : bb = old[i] OBVIOUS
          <5>2. OneRight(bb, Once) BY <3>3, <5>1 DEF SetRight
          <5>3. PICK new : new = then[i] OBVIOUS
          <5>4. new = Load(Save(bb)) BY <3>4, <5>1, <5>3
          <5>5. OneRight(new, Once) /\ new.item_bins = bb.item_bins BY ONLY <3>5, <5>2, <5>4, LoadRight
          <5> QED BY <5>1, <5>3, <5>5
        <4> QED BY <4>1
      <3>7. PICK from \in [DOMAIN old -> DOMAIN old] : from = [i \in DOMAIN old |-> i] OBVIOUS
      <3>9. \A i \in DOMAIN old : from[i] = i BY <3>7
      <3>10. \A i \in DOMAIN old : \E j \in DOMAIN old : from[j] = i BY <3>9
      <3>11. \A i, j \in DOMAIN old : from[i] = from[j] => i = j BY <3>9
      <3>12. \A i \in DOMAIN old : OneRight(then[i], Once) /\ then[i].item_bins = old[from[i]].item_bins
        BY <3>6, <3>9
      <3>13. then = [i \in DOMAIN old |-> then[i]] BY <3>4
      <3>14. /\ SetRight(then, Once)
             /\ \A s \in Starts, h \in AnyHash : HeldAt(then, h, s) <=> HeldAt(old, h, s)
        BY ONLY <3>3, <3>5, <3>10, <3>11, <3>12, <3>13, RearrangedRight, SMTT(30)
      <3> QED BY ONLY <3>1, <3>2, <3>14
    <2>3. AllRight(loaded) BY <2>2 DEF AllRight
    <2>4. ItemsRight(items, loaded) BY ONLY <2>1, <2>2, SameItems
    <2> QED BY <2>3, <2>4
  <1> QED BY <1>2, <1>3

\* save.
LEMMA SaveStep ==
  ASSUME Inv, SaveDb
  PROVE  Inv'
  <1>1. call.stage = "idle" /\ UNCHANGED <<hashed_items, bin_bundles, stripped, call, tasks>> BY DEF SaveDb
  <1>2. CallRight(call) /\ SettledRight(stripped, hashed_items, bin_bundles) /\ TasksRight(tasks, <<>>, "idle")
    BY <1>1, AtRestRight
  <1>3. PICK saved : saved = [b \in BundleIdxs |-> [i \in DOMAIN bin_bundles[b] |-> Save(bin_bundles[b][i])]]
    OBVIOUS
  <1>4. PICK db : db = [hashed_items |-> hashed_items, item_count |-> item_count, stripped |-> stripped,
                        bundles |-> saved] OBVIOUS
  <1>5. file' = {db} BY <1>3, <1>4 DEF SaveDb
  <1>6. db.hashed_items = hashed_items /\ db.stripped = stripped /\ db.bundles = saved BY <1>4
  <1>7. FileRight(db)
    <2>1. PICK loaded : loaded = Loaded(saved) OBVIOUS
    <2>2. PICK bundles : bundles = bin_bundles OBVIOUS
    <2>3. PICK items : items = hashed_items OBVIOUS
    <2>4. PICK gone : gone = stripped OBVIOUS
    <2>5. SettledRight(gone, items, bundles)
          /\ saved = [b \in BundleIdxs |-> [i \in DOMAIN bundles[b] |-> Save(bundles[b][i])]]
      BY <1>2, <1>3, <2>2, <2>3, <2>4
    <2>6. /\ gone => AllPerished(loaded)
          /\ ~gone => AllRight(loaded) /\ ItemsRight(items, loaded)
      BY ONLY <2>1, <2>5, SavedRight
    <2>7. gone \in BOOLEAN BY <2>5 DEF SettledRight
    <2> QED BY ONLY <1>6, <2>1, <2>3, <2>4, <2>6, <2>7 DEF FileRight
  <1>8. SettledRight(stripped', hashed_items', bin_bundles') BY <1>1, <1>2
  <1>9. CallRight(call') /\ call'.stage = "idle" /\ TasksRight(tasks', <<>>, "idle") BY <1>1, <1>2
  <1>10. \A d \in file' : FileRight(d) BY <1>5, <1>7
  <1> QED BY ONLY <1>8, <1>9, <1>10, Settled

\* What Load makes of a file.
ReadAs(then, db, order) ==
  /\ \A b \in BundleIdxs : order[b] \in Orders(db.bundles[b])
  /\ then = GenerateCaches([b \in BundleIdxs |->
               [i \in DOMAIN db.bundles[b] |-> Load(db.bundles[b][order[b][i]])]])

\* A database that is read, with its bundles in the order of the tasks.
LEMMA ReadRight ==
  ASSUME NEW db, FileRight(db), NEW order, NEW then, ReadAs(then, db, order)
  PROVE  /\ then = [b \in BundleIdxs |-> then[b]]
         /\ db.stripped => AllPerished(then)
         /\ ~db.stripped => \A b \in BundleIdxs :
              /\ SetRight(then[b], Once)
              /\ \A s \in Starts, h \in AnyHash :
                   HeldAt(then[b], h, s) <=> HeldAt(Loaded(db.bundles)[b], h, s)
  <1>1. PICK read : read = [b \in BundleIdxs |->
                      [i \in DOMAIN db.bundles[b] |-> Load(db.bundles[b][order[b][i]])]] OBVIOUS
  <1>a. \A b \in BundleIdxs : order[b] \in Orders(db.bundles[b]) BY DEF ReadAs
  <1>2. then = [b \in BundleIdxs |-> [i \in DOMAIN read[b] |-> RegenCache(read[b][i])]]
    BY <1>1 DEF GenerateCaches, ReadAs
  <1>3. PICK loaded : loaded = Loaded(db.bundles) OBVIOUS
  <1>4. ASSUME NEW b \in BundleIdxs
        PROVE  /\ order[b] \in Orders(loaded[b])
               /\ then[b] = [i \in DOMAIN loaded[b] |-> RegenCache(loaded[b][order[b][i]])]
    <2>1. PICK s : s = db.bundles[b] OBVIOUS
    <2>2. PICK o : o = order[b] OBVIOUS
    <2>3. o \in Orders(s) BY <1>a, <2>1, <2>2
    <2>4. PICK one : one = loaded[b] OBVIOUS
    <2>5. one = [i \in DOMAIN s |-> Load(s[i])] BY <1>3, <2>1, <2>4 DEF Loaded
    <2>6. DOMAIN one = DOMAIN s BY <2>5
    <2>7. o \in Orders(one) BY <2>3, <2>6 DEF Orders
    <2>8. \A i \in DOMAIN s : o[i] \in DOMAIN s BY <2>3 DEF Orders, Bijection, Injection
    <2>9. PICK r : r = read[b] OBVIOUS
    <2>10. r = [i \in DOMAIN s |-> Load(s[o[i]])] BY <1>1, <2>1, <2>2, <2>9
    <2>11. DOMAIN r = DOMAIN s BY ONLY <2>10
    <2>12. \A i \in DOMAIN s : r[i] = one[o[i]] BY ONLY <2>5, <2>8, <2>10
    <2>13. then[b] = [i \in DOMAIN r |-> RegenCache(r[i])] BY <1>2, <2>9
    <2>14. then[b] = [i \in DOMAIN one |-> RegenCache(one[o[i]])] BY ONLY <2>6, <2>11, <2>12, <2>13
    <2> QED BY ONLY <2>2, <2>4, <2>7, <2>14
  <1>5. then = [b \in BundleIdxs |-> then[b]] BY <1>2
  <1>6. ASSUME db.stripped PROVE AllPerished(then)
    <2>1. AllPerished(loaded) BY <1>3, <1>6 DEF FileRight
    <2>2. ASSUME NEW b \in BundleIdxs, NEW i \in DOMAIN then[b] PROVE Perished(then[b][i])
      <3>1. PICK o : o = order[b] OBVIOUS
      <3>2. PICK one : one = loaded[b] OBVIOUS
      <3>3. o \in Orders(one) /\ then[b] = [j \in DOMAIN one |-> RegenCache(one[o[j]])]
        BY <1>4, <3>1, <3>2
      <3>4. i \in DOMAIN one /\ then[b][i] = RegenCache(one[o[i]]) BY <2>2, <3>3
      <3>5. o[i] \in DOMAIN one BY <3>3, <3>4 DEF Orders, Bijection, Injection
      <3>6. Perished(one[o[i]]) BY <2>1, <3>2, <3>5 DEF AllPerished
      <3>7. RegenCache(one[o[i]]) = one[o[i]] BY <3>6 DEF Perished, RegenCache
      <3> QED BY <3>4, <3>6, <3>7
    <2> QED BY <2>2 DEF AllPerished
  <1>7. ASSUME ~db.stripped, NEW b \in BundleIdxs
        PROVE  /\ SetRight(then[b], Once)
               /\ \A s \in Starts, h \in AnyHash : HeldAt(then[b], h, s) <=> HeldAt(loaded[b], h, s)
    <2>1. PICK one : one = loaded[b] OBVIOUS
    <2>2. SetRight(one, Once) BY <1>3, <1>7, <2>1 DEF FileRight, AllRight
    <2>3. PICK o \in Orders(one) : o = order[b] BY <1>4, <2>1
    <2>4. PICK after : after = then[b] OBVIOUS
    <2>5. after = [i \in DOMAIN one |-> RegenCache(one[o[i]])] BY <1>4, <2>1, <2>3, <2>4
    <2>6. Once \in BOOLEAN BY DEF Once
    <2>7. /\ SetRight(after, Once)
          /\ \A s \in Starts, h \in AnyHash : HeldAt(after, h, s) <=> HeldAt(one, h, s)
      BY ONLY <2>2, <2>5, <2>6, o \in Orders(one), LoadedRight
    <2> QED BY ONLY <2>1, <2>4, <2>7
  <1> QED BY ONLY <1>3, <1>5, <1>6, <1>7

\* Load.
LEMMA LoadStep ==
  ASSUME Inv, LoadDb
  PROVE  Inv'
  <1>1. call.stage = "idle" /\ UNCHANGED <<call, tasks, file>> BY DEF LoadDb
  <1>2. CallRight(call) /\ SettledRight(stripped, hashed_items, bin_bundles) /\ TasksRight(tasks, <<>>, "idle")
        /\ \A db \in file : FileRight(db)
    BY <1>1, AtRestRight
  <1>3. CallRight(call') /\ call'.stage = "idle" /\ TasksRight(tasks', <<>>, "idle")
        /\ \A db \in file' : FileRight(db) BY <1>1, <1>2
  <1>4. PICK db \in file :
          IF FileAccepted(db)
          THEN /\ hashed_items' = IF db.stripped THEN {} ELSE db.hashed_items
               /\ stripped' = db.stripped
               /\ \E order \in {f \in [BundleIdxs -> UNION {Orders(db.bundles[b]) : b \in BundleIdxs}] :
                                  \A b \in BundleIdxs : f[b] \in Orders(db.bundles[b])} :
                    bin_bundles' = GenerateCaches([b \in BundleIdxs |->
                      [i \in DOMAIN db.bundles[b] |-> Load(db.bundles[b][order[b][i]])]])
          ELSE UNCHANGED <<hashed_items, bin_bundles, stripped>>
    BY DEF LoadDb
  <1>5. FileRight(db) BY <1>2
  <1>6. SettledRight(stripped', hashed_items', bin_bundles')
    <2>1. CASE ~FileAccepted(db) BY <1>2, <1>4, <2>1
    <2>2. CASE FileAccepted(db)
      <3>1. hashed_items' = (IF db.stripped THEN {} ELSE db.hashed_items) /\ stripped' = db.stripped
        BY <1>4, <2>2
      <3>2. PICK order \in {f \in [BundleIdxs -> UNION {Orders(db.bundles[b]) : b \in BundleIdxs}] :
                              \A b \in BundleIdxs : f[b] \in Orders(db.bundles[b])} :
              bin_bundles' = GenerateCaches([b \in BundleIdxs |->
                [i \in DOMAIN db.bundles[b] |-> Load(db.bundles[b][order[b][i]])]])
        BY <1>4, <2>2
      <3>3. \A b \in BundleIdxs : order[b] \in Orders(db.bundles[b]) BY <3>2
      <3>4. PICK then : then = bin_bundles' OBVIOUS
      <3>5. ReadAs(then, db, order) BY <3>2, <3>3, <3>4 DEF ReadAs
      <3>6. /\ then = [b \in BundleIdxs |-> then[b]]
            /\ db.stripped => AllPerished(then)
            /\ ~db.stripped => \A b \in BundleIdxs :
                 /\ SetRight(then[b], Once)
                 /\ \A s \in Starts, h \in AnyHash :
                      HeldAt(then[b], h, s) <=> HeldAt(Loaded(db.bundles)[b], h, s)
        BY ONLY <1>5, <3>5, ReadRight
      <3>7. PICK loaded : loaded = Loaded(db.bundles) OBVIOUS
      <3>8. /\ db.stripped \in BOOLEAN
            /\ ~db.stripped => AllRight(loaded) /\ ItemsRight(db.hashed_items, loaded)
        BY <1>5, <3>7 DEF FileRight
      <3>9. ASSUME ~db.stripped PROVE AllRight(then) /\ ItemsRight(db.hashed_items, then)
        <4>1. PICK items : items = db.hashed_items OBVIOUS
        <4>2. items \subseteq Hashes /\ ItemsRight(items, loaded) BY <3>8, <3>9, <4>1 DEF ItemsRight
        <4>3. \A b \in BundleIdxs : \A s \in Starts, h \in AnyHash :
                HeldAt(then[b], h, s) <=> HeldAt(loaded[b], h, s)
          BY ONLY <3>6, <3>7, <3>9
        <4>4. ItemsRight(items, then) BY ONLY <4>2, <4>3, SameItems
        <4>5. AllRight(then) BY <3>6, <3>9 DEF AllRight
        <4> QED BY <4>1, <4>4, <4>5
      <3>10. db.stripped \/ db.hashed_items \subseteq Hashes BY <3>9 DEF ItemsRight
      <3> QED BY ONLY <3>1, <3>4, <3>6, <3>8, <3>9, <3>10 DEF SettledRight
    <2> QED BY <2>1, <2>2
  <1> QED BY ONLY <1>3, <1>6, Settled

\* A call that begins.
LEMMA BeginStep ==
  ASSUME Inv, ~stripped, call.stage = "idle", NEW request, NEW items, NEW phases,
         Begin(request, items, phases), items \subseteq Hashes,
         PhasesRight(phases, items, bin_bundles), HeldRight(items, bin_bundles, phases, tasks')
  PROVE  Inv'
  <1>1. /\ hashed_items' = items
        /\ call' = [op |-> request.op, stage |-> "running", request |-> {request}, phases |-> phases]
        /\ tasks' = IF call'.phases = <<>> THEN tasks ELSE TasksFor(call'.phases[1].data)
        /\ UNCHANGED <<bin_bundles, stripped, file>>
    BY DEF Begin
  <1>2. /\ AllRight(bin_bundles) /\ bin_bundles = [b \in BundleIdxs |-> bin_bundles[b]]
        /\ call.phases = <<>> /\ TasksRight(tasks, <<>>, "idle") /\ \A db \in file : FileRight(db)
    BY AtRestRight DEF SettledRight
  <1>3. call'.phases = phases /\ call'.stage = "running" /\ CallRight(call') BY <1>1 DEF CallRight
  <1>4. TasksRight(tasks', phases, "running")
    <2>1. PICK t : t = tasks' OBVIOUS
    <2>2. CASE phases = <<>>
      <3>1. t = tasks BY <1>1, <1>3, <2>1, <2>2
      <3>2. TasksRight(t, <<>>, "idle") BY <1>2, <3>1
      <3>3. \A b \in BundleIdxs : t[b].todo = {}
        <4>1. ASSUME NEW b \in BundleIdxs, NEW key \in t[b].todo PROVE FALSE
          <5>1. t[b].todo \in SUBSET (Nat \X Nat) BY <3>2 DEF TasksRight, Task
          <5>2. key \in Nat \X Nat BY <5>1
          <5>3. PICK i, l : key = <<i, l>> BY <5>2
          <5>4. <<i, l>> \in t[b].todo BY <5>3
          <5> QED BY <3>2, <5>4 DEF TasksRight
        <4> QED BY <4>1
      <3>4. TasksRight(t, <<>>, "running") BY <3>2, <3>3 DEF TasksRight
      <3> QED BY <2>1, <2>2, <3>4
    <2>3. CASE phases # <<>>
      <3>1. Dispatched(t, phases) BY <1>1, <1>3, <2>1 DEF Dispatched
      <3>2. PICK bundles : bundles = bin_bundles OBVIOUS
      <3>3. PhasesRight(phases, items, bundles) /\ items \subseteq Hashes BY <3>2
      <3>4. TasksRight(t, phases, "running") BY ONLY <2>3, <3>1, <3>3, TasksBegin
      <3> QED BY <2>1, <3>4
    <2> QED BY <2>2, <2>3
  <1> QED BY <1>1, <1>2, <1>3, <1>4 DEF Inv

\* insert_or_assign begins.
LEMMA InsertStep ==
  ASSUME Inv, NEW batch \in InsertBatches, InsertOrAssign(batch)
  PROVE  Inv'
  <1> DEFINE data == [i \in DOMAIN batch |->
                        [hash |-> DataHash(batch[i].item), label |-> batch[i].label]]
             found == [i \in DOMAIN data |->
                         \/ data[i].hash \in hashed_items
                         \/ \E j \in 1 .. i - 1 : data[j].hash = data[i].hash]
             isNew == [i \in DOMAIN data |-> ~found[i]]
             existing == IF LabelSize = 0 THEN <<>> ELSE Leftover(data, isNew)
             then == hashed_items \cup {data[i].hash : i \in DOMAIN data}
             new == Kept(data, isNew)
             phases == Phase("overwrite", existing) \o Phase("insert", new)
             request == [op |-> "insert", data |-> batch]
  <1>8. /\ call.stage = "idle" /\ ~stripped /\ Legal(data, found)
        /\ Begin(request, then, phases)
    BY DEF InsertOrAssign
  <1>1. data = [i \in DOMAIN batch |-> [hash |-> DataHash(batch[i].item), label |-> batch[i].label]] OBVIOUS
  <1> HIDE DEF data
  <1>2. found = [i \in DOMAIN data |->
                   \/ data[i].hash \in hashed_items
                   \/ \E j \in 1 .. i - 1 : data[j].hash = data[i].hash] OBVIOUS
  <1>5. then = hashed_items \cup {data[i].hash : i \in DOMAIN data} OBVIOUS
  <1> HIDE DEF found, request, then
  <1>3. isNew = [i \in DOMAIN data |-> ~found[i]] OBVIOUS
  <1> HIDE DEF isNew
  <1>4. existing = (IF LabelSize = 0 THEN <<>> ELSE Leftover(data, isNew)) OBVIOUS
  <1>18. new = Kept(data, isNew) OBVIOUS
  <1> HIDE DEF existing, new
  <1>6. phases = Phase("overwrite", existing) \o Phase("insert", new) OBVIOUS
  <1> HIDE DEF phases
  <1>9. PICK n \in Nat : n = Len(batch) /\ DOMAIN batch = 1 .. n
    <2>1. Len(batch) \in Nat /\ DOMAIN batch = 1 .. Len(batch) BY BatchFacts
    <2> QED BY <2>1
  <1>10. DOMAIN data = 1 .. n /\ Len(data) = n
    <2>1. batch \in InsertBatches \cup RemoveBatches OBVIOUS
    <2>2. DOMAIN data = DOMAIN batch BY <1>1
    <2>3. Len(data) = Len(batch) BY ONLY <2>1, <2>2, BatchFacts
    <2> QED BY <1>9, <2>2, <2>3
  <1>11. \A i \in 1 .. n : /\ data[i].hash = DataHash(batch[i].item) /\ data[i].label = batch[i].label
                           /\ DOMAIN data[i] = {"hash", "label"}
    BY <1>1, <1>9
  <1>12. \A i \in 1 .. n : batch[i].item \in Item /\ batch[i].label # MovedFrom
    BY <1>9, ReceiverDBConfigured DEF ReceiverDBAssumption
  <1>13. \A i \in 1 .. n : data[i].hash \in Hashes /\ data[i].label # MovedFrom
    BY <1>11, <1>12 DEF Hashes
  <1>14. \A i \in 1 .. n : found[i] <=> \/ data[i].hash \in hashed_items
                                        \/ \E j \in 1 .. i - 1 : data[j].hash = data[i].hash
    BY <1>2, <1>10
  <1>15. isNew \in [1 .. n -> BOOLEAN] /\ \A i \in 1 .. n : isNew[i] <=> ~found[i] BY <1>3, <1>10
  <1>16. \A i \in 1 .. n : isNew[i] <=> /\ data[i].hash \notin hashed_items
                                        /\ ~\E j \in 1 .. i - 1 : data[j].hash = data[i].hash
    BY ONLY <1>14, <1>15
  <1>17. LabelSize # 0 /\ Ordered =>
           /\ \A i, j \in 1 .. n : data[i].hash = data[j].hash => i = j
           /\ \A i, j \in 1 .. n : i < j /\ ~isNew[i] => ~isNew[j]
    <2> SUFFICES ASSUME LabelSize # 0, Ordered
                 PROVE  /\ \A i, j \in 1 .. n : data[i].hash = data[j].hash => i = j
                        /\ \A i, j \in 1 .. n : i < j /\ ~isNew[i] => ~isNew[j]
      OBVIOUS
    <2>1. ~MixedBatches BY DEF Ordered
    <2>2. /\ IsInjective([i \in DOMAIN data |-> data[i].hash.item])
          /\ \A i, j \in DOMAIN data : i < j /\ found[i] => found[j]
      BY <1>8, <2>1 DEF Legal
    <2>3. \A i, j \in 1 .. n : data[i].hash.item = data[j].hash.item => i = j
      <3>1. PICK f : f = [i \in 1 .. n |-> data[i].hash.item] OBVIOUS
      <3>2. IsInjective(f) BY <1>10, <2>2, <3>1
      <3>3. \A i, j \in 1 .. n : f[i] = f[j] => i = j BY <3>1, <3>2 DEF IsInjective
      <3> QED BY <3>1, <3>3
    <2>4. \A i, j \in 1 .. n : i < j /\ ~isNew[i] => ~isNew[j] BY <1>10, <1>15, <2>2
    <2> QED BY <2>3, <2>4
  <1>19. DOMAIN new = {i \in 1 .. n : isNew[i]} /\ \A i \in DOMAIN new : new[i] = data[i]
    BY <1>10, <1>18 DEF Kept
  <1>20. then = hashed_items \cup {data[i].hash : i \in 1 .. n} BY <1>5, <1>10
  <1>21. SettledRight(stripped, hashed_items, bin_bundles) BY <1>8, AtRestRight
  <1>22. PICK items : items = hashed_items OBVIOUS
  <1>23. PICK bundles : bundles = bin_bundles OBVIOUS
  <1>24. PICK t : t = tasks' OBVIOUS
  <1>25. ItemsRight(items, bundles) BY <1>8, <1>21, <1>22, <1>23 DEF SettledRight
  <1>26. Dispatched(t, phases)
    <2>1. call' = [op |-> request.op, stage |-> "running", request |-> {request}, phases |-> phases]
          /\ tasks' = IF call'.phases = <<>> THEN tasks ELSE TasksFor(call'.phases[1].data)
      BY <1>8 DEF Begin
    <2>2. call'.phases = phases BY <2>1
    <2> QED BY ONLY <1>24, <2>1, <2>2 DEF Dispatched
  <1>27. BatchRight(items, n, data, isNew)
    BY <1>10, <1>11, <1>13, <1>15, <1>16, <1>17, <1>22 DEF BatchRight
  <1>28. InsertMade(items, n, data, isNew, existing, new, then, phases)
    BY <1>4, <1>6, <1>19, <1>20, <1>22 DEF InsertMade
  <1>29. then \subseteq Hashes /\ PhasesRight(phases, then, bundles) /\ HeldRight(then, bundles, phases, t)
    BY ONLY <1>25, <1>26, <1>27, <1>28, ToBeInserted
  <1>30. PhasesRight(phases, then, bin_bundles) /\ HeldRight(then, bin_bundles, phases, tasks')
    BY <1>23, <1>24, <1>29
  <1> QED BY ONLY Inv, <1>8, <1>29, <1>30, BeginStep

\* remove begins.
LEMMA RemoveStep ==
  ASSUME Inv, NEW batch \in RemoveBatches, RemoveItems(batch)
  PROVE  Inv'
  <1>1. PICK data : data = [i \in DOMAIN batch |-> [hash |-> PlainHash(batch[i]), label |-> NoLabel]] OBVIOUS
  <1>2. PICK found : found = [i \in DOMAIN data |->
                                /\ data[i].hash \in hashed_items
                                /\ ~\E j \in 1 .. i - 1 : data[j].hash = data[i].hash] OBVIOUS
  <1>3. PICK all : all = Unerased(data, found) OBVIOUS
  <1>4. PICK then : then = hashed_items \ {data[i].hash : i \in DOMAIN data} OBVIOUS
  <1>5. PICK phases : phases = Phase("remove", all) OBVIOUS
  <1>6. PICK request : request = [op |-> "remove", data |-> batch] OBVIOUS
  <1>7. /\ call.stage = "idle" /\ ~stripped
        /\ RemoveAbsent \/ \A i \in DOMAIN data : found[i]
        /\ Begin(request, then, phases)
    BY <1>1, <1>2, <1>3, <1>4, <1>5, <1>6 DEF RemoveItems
  <1>8. PICK n \in Nat : n = Len(batch) /\ DOMAIN batch = 1 .. n
    <2>1. Len(batch) \in Nat /\ DOMAIN batch = 1 .. Len(batch) BY BatchFacts
    <2> QED BY <2>1
  <1>9. DOMAIN data = 1 .. n /\ Len(data) = n
    <2>1. batch \in InsertBatches \cup RemoveBatches OBVIOUS
    <2>2. DOMAIN data = DOMAIN batch BY <1>1
    <2>3. Len(data) = Len(batch) BY ONLY <2>1, <2>2, BatchFacts
    <2> QED BY <1>8, <2>2, <2>3
  <1>10. \A i \in 1 .. n : data[i].hash = PlainHash(batch[i]) /\ DOMAIN data[i] = {"hash", "label"}
    BY <1>1, <1>8
  <1>11. \A i \in 1 .. n : data[i].hash \in AnyHash
    <2>1. \A i \in 1 .. n : batch[i] \in Item BY <1>8, ReceiverDBConfigured DEF ReceiverDBAssumption
    <2> QED BY <1>10, <2>1, HashesAre
  <1>12. /\ found \in [1 .. n -> BOOLEAN]
         /\ \A i \in 1 .. n : found[i] <=> /\ data[i].hash \in hashed_items
                                           /\ ~\E j \in 1 .. i - 1 : data[j].hash = data[i].hash
    BY <1>2, <1>9
  <1>13. PICK kept : kept = Kept(data, found) OBVIOUS
  <1>14. PICK rest : rest = Leftover(data, found) OBVIOUS
  <1>15. /\ DOMAIN rest \subseteq Nat
         /\ \A i \in DOMAIN rest : \E j \in 1 .. n : rest[i].hash = data[j].hash
         /\ (\A j \in 1 .. n : found[j]) => DOMAIN rest = {}
    <2>1. n \in Nat /\ DOMAIN data = 1 .. n /\ Len(data) = n BY <1>9
    <2>2. \A i \in 1 .. n : DOMAIN data[i] = {"hash", "label"} BY <1>10
    <2>3. found \in [1 .. n -> BOOLEAN] BY <1>12
    <2> QED BY ONLY <1>14, <2>1, <2>2, <2>3, LeftoverIs, SMTT(30)
  <1>16. DOMAIN kept = {j \in 1 .. n : found[j]} /\ \A i \in DOMAIN kept : kept[i] = data[i]
    BY <1>9, <1>13 DEF Kept
  <1>17. all = [i \in DOMAIN kept \cup DOMAIN rest |-> IF i \in DOMAIN kept THEN kept[i] ELSE rest[i]]
    BY <1>3, <1>13, <1>14 DEF Unerased
  <1>18. DOMAIN all \subseteq Nat BY <1>15, <1>16, <1>17
  <1>19. \A i \in DOMAIN all : \E j \in 1 .. n : all[i].hash = data[j].hash BY <1>15, <1>16, <1>17
  <1>20. PICK items : items = hashed_items OBVIOUS
  <1>21. Once => /\ DOMAIN all = 1 .. n /\ \A i \in 1 .. n : all[i] = data[i] /\ data[i].hash \in items
                 /\ \A i, j \in 1 .. n : data[i].hash = data[j].hash => i = j
    <2> SUFFICES ASSUME Once
                 PROVE  /\ DOMAIN all = 1 .. n /\ \A i \in 1 .. n : all[i] = data[i] /\ data[i].hash \in items
                        /\ \A i, j \in 1 .. n : data[i].hash = data[j].hash => i = j
      OBVIOUS
    <2>1. \A i \in 1 .. n : found[i] BY <1>7, <1>9 DEF Once
    <2>2. DOMAIN kept = 1 .. n BY <1>16, <2>1
    <2>3. DOMAIN rest = {} BY <1>15, <2>1
    <2>4. DOMAIN all = 1 .. n /\ \A i \in 1 .. n : all[i] = data[i] BY <1>16, <1>17, <2>2, <2>3
    <2>5. \A i \in 1 .. n : data[i].hash \in items BY <1>12, <1>20, <2>1
    <2>6. ASSUME NEW i \in 1 .. n, NEW j \in 1 .. n, data[i].hash = data[j].hash PROVE i = j
      <3>1. i \in 1 .. j - 1 \/ j \in 1 .. i - 1 \/ i = j OBVIOUS
      <3> QED BY <1>12, <2>1, <2>6, <3>1
    <2> QED BY <2>4, <2>5, <2>6
  <1>22. then = items \ {data[i].hash : i \in 1 .. n} BY <1>4, <1>9, <1>20
  <1>23. SettledRight(stripped, hashed_items, bin_bundles) BY <1>7, AtRestRight
  <1>24. PICK bundles : bundles = bin_bundles OBVIOUS
  <1>25. PICK t : t = tasks' OBVIOUS
  <1>26. ItemsRight(items, bundles) BY <1>7, <1>20, <1>23, <1>24 DEF SettledRight
  <1>27. Dispatched(t, phases)
    <2>1. call' = [op |-> request.op, stage |-> "running", request |-> {request}, phases |-> phases]
          /\ tasks' = IF call'.phases = <<>> THEN tasks ELSE TasksFor(call'.phases[1].data)
      BY <1>7 DEF Begin
    <2>2. call'.phases = phases BY <2>1
    <2> QED BY ONLY <1>25, <2>1, <2>2 DEF Dispatched
  <1>28. AllToGo(items, n, data, all)
    BY <1>9, <1>11, <1>18, <1>19, <1>21 DEF AllToGo
  <1>31. RemoveMade(items, n, data, all, then, phases) BY <1>5, <1>22 DEF RemoveMade
  <1>29. then \subseteq Hashes /\ PhasesRight(phases, then, bundles) /\ HeldRight(then, bundles, phases, t)
    BY ONLY <1>26, <1>27, <1>28, <1>31, ToBeRemoved
  <1>30. PhasesRight(phases, then, bin_bundles) /\ HeldRight(then, bin_bundles, phases, tasks')
    BY <1>24, <1>25, <1>29
  <1> QED BY ONLY Inv, <1>7, <1>29, <1>30, BeginStep

\* The invariant is inductive.
LEMMA NextStep == Inv /\ [Next]_vars => Inv'
  <1> SUFFICES ASSUME Inv, [Next]_vars PROVE Inv' OBVIOUS
  <1>1. ASSUME NEW batch \in InsertBatches, InsertOrAssign(batch) PROVE Inv' BY <1>1, InsertStep
  <1>2. ASSUME NEW batch \in RemoveBatches, RemoveItems(batch) PROVE Inv' BY <1>2, RemoveStep
  <1>3. ASSUME NEW b \in BundleIdxs, Work(b) PROVE Inv' BY <1>3, WorkStep
  <1>4. ASSUME NEW b \in BundleIdxs, Throw(b) PROVE Inv' BY <1>4, ThrowStep
  <1>5. ASSUME NEW b \in BundleIdxs, LoseIndex(b) PROVE Inv' BY <1>5, LoseIndexStep
  <1>6. CASE Rethrow BY <1>6, RethrowStep
  <1>7. CASE NextPhase BY <1>7, NextPhaseStep
  <1>8. CASE Return BY <1>8, ReturnStep
  <1>9. CASE Unwound BY <1>9, UnwoundStep
  <1>10. CASE StripDb BY <1>10, StripStep
  <1>11. CASE ClearInternal BY <1>11, ClearStep
  <1>12. CASE SaveDb BY <1>12, SaveStep
  <1>13. CASE LoadDb BY <1>13, LoadStep
  <1>14. CASE UNCHANGED vars BY <1>14 DEF vars, Inv
  <1> QED
    BY <1>1, <1>2, <1>3, <1>4, <1>5, <1>6, <1>7, <1>8, <1>9, <1>10, <1>11, <1>12, <1>13, <1>14 DEF Next

-----------------------------------------------------------------------------
(* The theorems.                                                           *)

\* The bundles of the database stay what they are meant to be, whatever calls
\* are made, throw or are unwound: each row of bins holds items, all their
\* parts and nothing else, and what is saved can be loaded as that again.
THEOREM DatabaseRight == Spec => []Inv
  <1>1. Init => Inv BY InitStep
  <1>2. Inv /\ [Next]_vars => Inv' BY NextStep
  <1> QED BY <1>1, <1>2, PTL DEF Spec

\* Without labels, or with labels when batches are as they should be, an item
\* of hashed_items_ is in a bundle at each of its locations between calls,
\* also after calls that threw: insert_or_assign never loses one, remove takes
\* items out of the set before it touches the bundles.
THEOREM HashedHeld ==
  ASSUME LabelSize = 0 \/ ~MixedBatches
  PROVE  Spec => []HashedAreHeld
  <1>1. Inv => HashedAreHeld
    <2> SUFFICES ASSUME Inv, call.stage = "idle", ~stripped,
                        NEW x \in Item, DataHash(x) \in hashed_items, NEW l \in Locations[x]
                 PROVE  Holding(x, l) # {}
      BY DEF HashedAreHeld
    <2>1. PICK h : h = DataHash(x) OBVIOUS
    <2>2. h \in AnyHash /\ h.item = x /\ h \in Hashes BY <2>1, HashesAre
    <2>3. SettledRight(stripped, hashed_items, bin_bundles) BY AtRestRight
    <2>4. ItemsRight(hashed_items, bin_bundles) BY <2>3 DEF SettledRight
    <2>5. HeldIn(bin_bundles, h, l) BY <2>1, <2>2, <2>4 DEF ItemsRight, Ordered
    <2>6. PICK i \in DOMAIN bin_bundles[Index(l)] : Has(bin_bundles[Index(l)][i], h, Start(l))
      BY <2>5 DEF HeldIn, HeldAt
    <2>7. PICK c : c = CuckooIdx(l) OBVIOUS
    <2>8. UnpackBin(c) = Start(l) /\ UnpackBin(c) \in Starts BY <2>2, <2>7, Places DEF Start
    <2>9. PICK bb : bb = bin_bundles[Index(l)][i] OBVIOUS
    <2>10. Holds(bb, AnEntry(h, NoLabel, c)) BY <2>2, <2>6, <2>8, <2>9, EntryHeld
    <2>11. Holds(bb, [felts |-> Felts(h), at |-> c])
      <3>1. PICK e : e = AnEntry(h, NoLabel, c) OBVIOUS
      <3>2. e.felts = Felts(h) /\ e.at = c BY <3>1 DEF AnEntry
      <3>3. PICK d : d = [felts |-> Felts(h), at |-> c] OBVIOUS
      <3>4. d.felts = Felts(h) /\ d.at = c BY <3>3
      <3> QED BY ONLY <2>10, <3>1, <3>2, <3>3, <3>4 DEF Holds
    <2>12. i \in Holding(x, l) BY <2>1, <2>6, <2>7, <2>9, <2>11 DEF Holding, Index
    <2> QED BY <2>12
  <1>2. Spec => []Inv BY DatabaseRight
  <1> QED BY <1>1, <1>2, PTL

\* No bin is longer than a query's powers reach, and no bundle is left empty,
\* in any state: also while tasks work and after they threw.
THEOREM BundlesStayFit ==
  ASSUME MaxBinSize > 1
  PROVE  Spec => []BundlesFit
  <1>1. Inv => BundlesFit
    <2> SUFFICES ASSUME Inv, NEW b \in BundleIdxs, NEW bb \in Range(bin_bundles[b]), ~bb.stripped
                 PROVE  /\ \A i \in Bins : Len(bb.item_bins[i]) < MaxBinSize
                        /\ ~Empty(bb)
      BY DEF BundlesFit, Bundle
    <2>1. PICK i \in DOMAIN bin_bundles[b] : bb = bin_bundles[b][i] BY DEF Range
    <2>2. ~stripped
      <3>1. stripped => Perished(bb) BY <2>1 DEF Inv, AllPerished
      <3> QED BY <3>1 DEF Perished
    <2>3. OneRight(bb, Once) BY <2>1, <2>2 DEF Inv, AllRight, SetRight
    <2> QED BY <2>3 DEF OneRight, Sized
  <1>2. Spec => []Inv BY DatabaseRight
  <1> QED BY <1>1, <1>2, PTL

=============================================================================
