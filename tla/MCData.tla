------------------------------- MODULE MCData -------------------------------
(***************************************************************************)
(* The algorithms on items, of which a behaviour has one:                  *)
(*                                                                         *)
(*   - "osn": the switching network for permutations of two to five        *)
(*     values, run twice, with four channels;                              *)
(*   - "filter": the cuckoo filter of a bin, two buckets of four tags of   *)
(*     three bits in words of eight; a and c have the same tag, from       *)
(*     either bucket, b has one bucket only;                               *)
(*   - "query": a query of up to four items, three of which collide, over  *)
(*     two bundle indices of two places;                                   *)
(*   - "packing": the blocks of the decrypted matrix, for four moduli;     *)
(*   - "encoding": items and labels as field elements and back;            *)
(*   - "labels": the polynomials of up to three points of a small field.   *)
(***************************************************************************)
EXTENDS CreateQuery

VARIABLES
  algorithm,
  dest, switched, out, file, ot_type, choices, toReceiver, toSender, masks, runs,
  buckets, num_items, overflow, bin, moving, loading, refused,
  plain_modulus, in, pla, lower, higher,
  params, item, label, encrypted, stored, got, buffer,
  points, values, matching

osn == <<dest, switched, out, file, ot_type, choices, toReceiver, toSender, masks, runs>>
filter == <<buckets, num_items, overflow, bin, moving, loading, refused>>
packing == <<plain_modulus, in, pla, lower, higher>>
encoding == <<params, item, encrypted, stored, got, buffer>>
labels == <<points, values, matching>>
allVars == <<algorithm, osn, label, filter, vars, packing, encoding, labels>>

Locations == [w |-> {0, 1}, x |-> {1, 2}, y |-> {1, 2}, z |-> {1, 2}]
Elements == [w |-> <<1, 2>>, x |-> <<3, 4>>, y |-> <<6, 0>>, z |-> <<5, 5>>, none |-> <<0, 0>>]

ElementHash ==
  [a |-> [high |-> 4, low |-> 9], b |-> [high |-> 2, low |-> 13], c |-> [high |-> 7, low |-> 8]]
HashOfTag == [t \in 0 .. 7 |-> IF t = 1 THEN 3 ELSE 2]

Filter == INSTANCE CuckooFilter WITH
  KeyCountMax <- 7, BitsPerTag <- 3, TagsPerBucket <- 4, WordBits <- 8,
  Element <- {"a", "b", "c"}, Hash <- ElementHash, TagHash <- HashOfTag, MaxKicks <- 3, MaxLen <- 6,
  table <- buckets

Osn == INSTANCE OSN WITH MaxValues <- 5, Channels <- 4, MaxRuns <- 2, MaxOnes <- 1

Packing == INSTANCE BlockPacking WITH WordBits <- 6, PlainModuli <- {2, 3, 5, 7}, MaxFelts <- 6

Encoding == INSTANCE ItemEncoding WITH
  ByteBits <- 3, ItemBytes <- 2, FeltBytes <- 2, BitsPerFelt <- {1, 2, 3}, FeltsPerItem <- {2, 3},
  LabelBytes <- {1, 2}, NonceBytes <- {0, 1}

Labels == INSTANCE Interpolate WITH Prime <- 5, MaxItems <- 3

ASSUME DataAssumption ==
  /\ CreateQueryAssumption /\ Osn!BenesAssumption /\ Osn!OSNAssumption
  /\ Filter!CuckooFilterTableAssumption /\ Filter!CuckooFilterAssumption
  /\ Packing!BlockPackingAssumption
  /\ Encoding!ItemEncodingAssumption /\ Labels!InterpolateAssumption

NoOSN ==
  /\ dest = "none" /\ switched = "none" /\ out = "none" /\ file = "none" /\ ot_type = "none"
  /\ choices = "none" /\ toReceiver = "none" /\ toSender = "none" /\ masks = "none" /\ runs = "none"

NoFilter ==
  /\ buckets = "none" /\ num_items = "none" /\ overflow = "none" /\ bin = "none" /\ moving = "none"
  /\ loading = "none" /\ refused = "none"

\* A query of no items that is not made.
NoQuery == items = <<>> /\ Init

NoPacking == plain_modulus = "none" /\ in = "none" /\ pla = "none" /\ lower = "none" /\ higher = "none"

NoEncoding ==
  /\ params = "none" /\ item = "none" /\ encrypted = "none" /\ stored = "none" /\ got = "none"
  /\ buffer = "none"

NoLabels == points = "none" /\ values = "none" /\ matching = "none"

InitData ==
  \/ /\ algorithm = "osn" /\ Osn!OSNInit
     /\ label = "none" /\ NoFilter /\ NoQuery /\ NoPacking /\ NoEncoding /\ NoLabels
  \/ /\ algorithm = "filter" /\ Filter!Init
     /\ label = "none" /\ NoOSN /\ NoQuery /\ NoPacking /\ NoEncoding /\ NoLabels
  \/ /\ algorithm = "query" /\ Init
     /\ label = "none" /\ NoOSN /\ NoFilter /\ NoPacking /\ NoEncoding /\ NoLabels
  \/ /\ algorithm = "packing" /\ Packing!Init
     /\ label = "none" /\ NoOSN /\ NoFilter /\ NoQuery /\ NoEncoding /\ NoLabels
  \/ /\ algorithm = "encoding" /\ Encoding!Init
     /\ NoOSN /\ NoFilter /\ NoQuery /\ NoPacking /\ NoLabels
  \/ /\ algorithm = "labels" /\ Labels!Init
     /\ NoOSN /\ NoFilter /\ NoQuery /\ NoPacking /\ NoEncoding

NextOSN ==
  /\ algorithm = "osn" /\ Osn!OSNNext
  /\ UNCHANGED <<algorithm, label, filter, vars, packing, encoding, labels>>
NextFilter ==
  /\ algorithm = "filter" /\ Filter!Next
  /\ UNCHANGED <<algorithm, osn, label, vars, packing, encoding, labels>>
NextQuery ==
  /\ algorithm = "query" /\ Next
  /\ UNCHANGED <<algorithm, osn, label, filter, packing, encoding, labels>>
NextPacking ==
  /\ algorithm = "packing" /\ Packing!Next
  /\ UNCHANGED <<algorithm, osn, label, filter, vars, encoding, labels>>
NextEncoding ==
  /\ algorithm = "encoding" /\ Encoding!Next
  /\ UNCHANGED <<algorithm, osn, filter, vars, packing, labels>>
NextLabels ==
  /\ algorithm = "labels" /\ Labels!Next
  /\ UNCHANGED <<algorithm, osn, filter, vars, packing, encoding>>

NextData == NextOSN \/ NextFilter \/ NextQuery \/ NextPacking \/ NextEncoding \/ NextLabels
SpecData == InitData /\ [][NextData]_allVars

-----------------------------------------------------------------------------
(* Properties; the six modules say what each of them is about.  A query    *)
(* has each of its items once: QueryRight of CreateQuery.                  *)

\* The shares of the two sides add up to the permuted values; the threads
\* that find the route work on switches of their own, and those that transfer
\* the messages leave none out and do none twice.
PermutedShares == algorithm = "osn" => Osn!SwitchesOwn /\ Osn!ChunksCover /\ Osn!Shares

\* A bin's filter finds every element of the bin, as long as none was refused,
\* and counts its tags.
TagsKept ==
  algorithm = "filter" => Filter!TypeOK /\ Filter!EveryTagKept /\ Filter!CountRight

\* Different rows of the matrix are different blocks, and none is the padding.
PackingInjective == algorithm = "packing" => Packing!PackingInjective /\ Packing!MaskIsNoPadding

\* An item and a label that are cut into elements come out as they went in,
\* and have as many elements for each bin as the bins have room for; the slots
\* of each power of a query are those of the elements of the items there.
RoundTrips ==
  /\ [](algorithm = "query" => SlotsRight)
  /\ [](algorithm = "encoding" => Encoding!FitsTheBins /\ Encoding!LabelRoundTrip)
  /\ [][algorithm = "encoding" /\ buffer' # buffer /\ got' = got =>
         \A p \in DOMAIN buffer' :
           buffer'[p] = IF p < Encoding!ItemBitCount THEN item[p] ELSE 0]_allVars

\* The label polynomial has at each item the label of the item, and the
\* matching polynomial is zero at the items only.
LabelAtItsItem == algorithm = "labels" => Labels!LabelAtItsItem /\ Labels!RootsAreTheItems
=============================================================================
