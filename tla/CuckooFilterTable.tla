------------------------- MODULE CuckooFilterTable --------------------------
(***************************************************************************)
(* The table of a cuckoo filter: buckets of tags, packed without gaps into *)
(* an array of words, so that a tag may begin in a word and end in the     *)
(* next.  Tag 0 marks a free place.                                        *)
(***************************************************************************)
EXTENDS Integers, FiniteSetsExt, Bitwise

CONSTANTS
  KeyCountMax,     \* num_items, what the table is made for
  BitsPerTag,
  TagsPerBucket,
  WordBits         \* 64 in the code

CuckooFilterTableAssumption ==
  /\ {KeyCountMax, BitsPerTag, TagsPerBucket, WordBits} \subseteq Nat \ {0}
  /\ BitsPerTag < WordBits

next_power_of_2(v) == IF v = 0 THEN 1 ELSE Min({p \in {2^k : k \in 0 .. v} : p >= v})

\* Twice as many buckets when more than 96 of 100 places would be taken.
NumBuckets ==
  LET n == next_power_of_2(Max({1, KeyCountMax \div TagsPerBucket}))
  IN  IF 100 * KeyCountMax > 96 * n * TagsPerBucket THEN 2 * n ELSE n

Buckets == 0 .. NumBuckets - 1
Places == 0 .. TagsPerBucket - 1
Tags == 0 .. 2^BitsPerTag - 1

WordCount == (TagsPerBucket * BitsPerTag * NumBuckets + WordBits - 1) \div WordBits
EmptyTable == [i \in 0 .. WordCount - 1 |-> 0]

\* Where a tag is: the word it begins in, the bit, and how many bits of it are
\* there and how many in the next word.
TagIndexInfo == [bucket \in Buckets, place \in Places |->
  LET start == (bucket * TagsPerBucket + place) * BitsPerTag
      offset == start % WordBits
      first == IF offset > WordBits - BitsPerTag THEN WordBits - offset ELSE BitsPerTag
  IN  [word |-> start \div WordBits, offset |-> offset,
       first |-> first, second |-> BitsPerTag - first]]

Bits(word, offset, n) == (word \div 2^offset) % 2^n
SetBits(word, offset, n, v) == word + (v - Bits(word, offset, n)) * 2^offset

read_tag(table, bucket, place) ==
  LET tii == TagIndexInfo[bucket, place]
      low == Bits(table[tii.word], tii.offset, tii.first)
  IN  IF tii.second = 0 THEN low
      ELSE low + Bits(table[tii.word + 1], 0, tii.second) * 2^tii.first

write_tag(table, bucket, place, tag) ==
  LET tii == TagIndexInfo[bucket, place]
      low == [table EXCEPT ![tii.word] = SetBits(@, tii.offset, tii.first, tag % 2^tii.first)]
  IN  IF tii.second = 0 THEN low
      ELSE [low EXCEPT ![tii.word + 1] = SetBits(@, 0, tii.second, tag \div 2^tii.first)]

PlacesOf(table, bucket, tag) == {p \in Places : read_tag(table, bucket, p) = tag}

\* insert_tag: into the first free place, if there is one ...
HasFreePlace(table, bucket) == PlacesOf(table, bucket, 0) # {}
InsertTag(table, bucket, tag) == write_tag(table, bucket, Min(PlacesOf(table, bucket, 0)), tag)

\* ... or, with kickout, in place of a tag taken at random.
KickOut(table, bucket, tag, place) ==
  [table |-> write_tag(table, bucket, place, tag), old_tag |-> read_tag(table, bucket, place)]

find_tag_in_bucket(table, bucket, tag) == PlacesOf(table, bucket, tag) # {}
find_tag_in_buckets(table, bucket1, bucket2, tag) ==
  find_tag_in_bucket(table, bucket1, tag) \/ find_tag_in_bucket(table, bucket2, tag)

\* delete_tag, in a bucket that has the tag.
DeleteTag(table, bucket, tag) == write_tag(table, bucket, Min(PlacesOf(table, bucket, tag)), 0)

=============================================================================
