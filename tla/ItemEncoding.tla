---------------------------- MODULE ItemEncoding ----------------------------
(***************************************************************************)
(* From bits to field elements and back: how an item is cut into the       *)
(* values of its bins, how its label, encrypted, is cut into the values    *)
(* that go with them, and how the label is put together again when it is   *)
(* asked for.                                                              *)
(*                                                                         *)
(* A string of bits is a function on 0 .. n - 1; bit p is bit p % ByteBits *)
(* of byte p \div ByteBits.  A field element is its little-endian bits.    *)
(***************************************************************************)
EXTENDS Integers, Sequences, FiniteSets, TLC

CONSTANTS
  ByteBits,       \* bits of a byte
  ItemBytes,      \* sizeof(Item)
  FeltBytes,      \* sizeof(felt_t)
  BitsPerFelt,    \* the values of mod.bit_count() - 1 considered
  FeltsPerItem,   \* those of felts_per_item
  LabelBytes,     \* those of label_byte_count
  NonceBytes      \* those of nonce_byte_count

ItemEncodingAssumption ==
  /\ {ByteBits, ItemBytes, FeltBytes} \subseteq Nat \ {0}
  /\ BitsPerFelt \cup FeltsPerItem \cup LabelBytes \subseteq Nat \ {0}
  /\ NonceBytes \subseteq Nat

VARIABLES
  params,     \* bits_per_felt, felts_per_item, label_byte_count, nonce_byte_count
  item,       \* the bits of a HashedItem
  label,      \* the label given, of any length
  encrypted,  \* the label encrypted, <<>> before
  stored,     \* the AlgItemLabel in the bins, <<>> before
  got,        \* the label read, <<>> before
  buffer      \* what was written last for a string of field elements

vars == <<params, item, label, encrypted, stored, got, buffer>>

Smaller(a, b) == IF a < b THEN a ELSE b
CeilDiv(a, b) == (a + b - 1) \div b
Bits(n) == [0 .. n - 1 -> {0, 1}]
Or(a, b) == IF a + b > 0 THEN 1 ELSE 0
Zeros(n) == [p \in 0 .. n - 1 |-> 0]
Even(n) == {[p \in 0 .. n - 1 |-> b] : b \in {0, 1}}
Length(bits) == Cardinality(DOMAIN bits)

per == params.bits_per_felt
ItemBitCount == per * params.felts_per_item
EncryptedBytes == params.nonce_byte_count + params.label_byte_count

-----------------------------------------------------------------------------
(* copy_with_bit_offset.                                                   *)

\* To the front of dest.
CopyToFront(src, bit_offset, bit_count, dest) ==
  [p \in DOMAIN dest |-> IF p < bit_count THEN src[bit_offset + p] ELSE dest[p]]

(***************************************************************************)
(* Anywhere in dest: what is left of a byte begun first, then the rest.    *)
(* high_diff is unsigned and never below 0: where all the bits are in one  *)
(* byte of src, the bits above those asked for are or-ed in as well, as    *)
(* far as the byte of dest goes.  The mask for a second byte is then from  *)
(* a shift past the width, undefined, but what it lets through is shifted  *)
(* out of the byte of dest whatever it is.                                 *)
(***************************************************************************)
CopyInto(src, dest_bit_offset, bit_count, dest) ==
  LET diff == CeilDiv(dest_bit_offset, ByteBits) * ByteBits - dest_bit_offset
  IN  [p \in DOMAIN dest |->
         CASE p \in dest_bit_offset .. dest_bit_offset + diff - 1 ->
                IF p < dest_bit_offset + bit_count THEN src[p - dest_bit_offset]
                ELSE Or(dest[p], src[p - dest_bit_offset])
           [] p \in dest_bit_offset + diff .. dest_bit_offset + bit_count - 1 -> src[p - dest_bit_offset]
           [] OTHER -> dest[p]]

-----------------------------------------------------------------------------
Felt(bits, bit_offset, bit_count) == CopyToFront(bits, bit_offset, bit_count, Zeros(FeltBytes * ByteBits))

\* bits_to_field_elts.
BitsToFieldElts(bits) ==
  [j \in 1 .. CeilDiv(Length(bits), per) |->
     Felt(bits, (j - 1) * per, Smaller(per, Length(bits) - (j - 1) * per))]

\* field_elts_to_bits refuses more bits than there are, and fewer than need
\* the last element.
Convertible(felts, bit_count) ==
  /\ felts # <<>>
  /\ bit_count <= per * Len(felts)
  /\ bit_count > per * (Len(felts) - 1)

\* The buffer is of whole bytes.
FieldEltsToBits(felts, bit_count) ==
  LET written[j \in 0 .. Len(felts)] ==
        IF j = 0 THEN Zeros(CeilDiv(bit_count, ByteBits) * ByteBits)
        ELSE CopyInto(felts[j], (j - 1) * per, Smaller(per, bit_count - (j - 1) * per), written[j - 1]) @@ <<>>
  IN  written[Len(felts)]

-----------------------------------------------------------------------------
(* Encryption of a label.  The mask is some function of the nonce (the key *)
(* being the item's), of its length, and of the place.                     *)

\* Bound: the nonces with no bit set and with all.
Nonces == Even(params.nonce_byte_count * ByteBits)
MaskBit(nonce, length, p) == (Cardinality({q \in DOMAIN nonce : nonce[q] = 1}) + length + p) % 2
Xor(a, b) == (a + b) % 2

\* encrypt_label: cut to label_byte_count, or the rest left zero.
EncryptLabel(nonce, plain) ==
  LET n == params.label_byte_count * ByteBits
  IN  [p \in 0 .. Length(nonce) + n - 1 |->
         IF p \in DOMAIN nonce THEN nonce[p]
         ELSE LET q == p - Length(nonce)
              IN  Xor(MaskBit(nonce, n, q), IF q \in DOMAIN plain THEN plain[q] ELSE 0)]

DecryptLabel(bits) ==
  LET start == params.nonce_byte_count * ByteBits
      n == Length(bits) - start
      nonce == [p \in 0 .. start - 1 |-> bits[p]]
  IN  [p \in 0 .. n - 1 |-> Xor(MaskBit(nonce, n, p), bits[start + p])]

-----------------------------------------------------------------------------
\* compute_label_size: the values per bin a bundle has room for.
ComputeLabelSize == CeilDiv(EncryptedBytes * ByteBits, ItemBitCount)

\* Mutant: the values one after the other, not dealt out over the bins.
AlgebraizeInRow(bits, labelBits) ==
  LET alg_item == BitsToFieldElts(bits)
      alg_label == BitsToFieldElts(labelBits)
      label_size == CeilDiv(Len(alg_label), Len(alg_item))
      padded(i) == IF i <= Len(alg_label) THEN alg_label[i] ELSE Zeros(FeltBytes * ByteBits)
  IN  [i \in 1 .. Len(alg_item) |-> <<alg_item[i], [l \in 1 .. label_size |-> padded((i - 1) * label_size + l)]>>]

\* algebraize_item_label: the label's elements, filled up with zeros, are
\* dealt out over the bins of the item.
AlgebraizeItemLabel(bits, labelBits) ==
  LET alg_item == BitsToFieldElts(bits)
      alg_label == BitsToFieldElts(labelBits)
      label_size == CeilDiv(Len(alg_label), Len(alg_item))
      padded(i) == IF i <= Len(alg_label) THEN alg_label[i] ELSE Zeros(FeltBytes * ByteBits)
  IN  [i \in 1 .. Len(alg_item) |-> <<alg_item[i], [l \in 1 .. label_size |-> padded((l - 1) * Len(alg_item) + i)]>>]

\* The item's bits: the first item_bit_count, in whole bytes.
ItemBits == [p \in 0 .. ItemBitCount - 1 |-> item[p]]

\* try_get_multi_label: the values in the order of the label.
LabelFelts ==
  LET n == Len(stored)
  IN  [k \in 1 .. n * ComputeLabelSize |-> stored[((k - 1) % n) + 1][2][((k - 1) \div n) + 1]]

-----------------------------------------------------------------------------
\* Bound: items and labels, which have no bit in common, vary one at a time.
Init ==
  /\ params \in [bits_per_felt : BitsPerFelt, felts_per_item : FeltsPerItem,
                 label_byte_count : LabelBytes, nonce_byte_count : NonceBytes]
  /\ ItemBitCount <= ItemBytes * ByteBits
  /\ \E n \in LabelBytes :
       \/ item \in Bits(ItemBytes * ByteBits) /\ label \in Even(n * ByteBits)
       \/ item \in Even(ItemBytes * ByteBits) /\ label \in Bits(n * ByteBits)
  /\ encrypted = <<>> /\ stored = <<>> /\ got = <<>> /\ buffer = <<>>

\* OPRFSender::ComputeHashes
Encrypt ==
  /\ encrypted = <<>>
  /\ \E nonce \in Nonces : encrypted' = EncryptLabel(nonce, label) @@ <<>>
  /\ UNCHANGED <<params, item, label, stored, got, buffer>>

\* preprocess_labeled_data
Algebraize ==
  /\ encrypted # <<>> /\ stored = <<>>
  /\ stored' = AlgebraizeItemLabel(ItemBits, encrypted)
  /\ UNCHANGED <<params, item, label, encrypted, got, buffer>>

\* The end of ReceiverDB::get_label.
GetLabel ==
  /\ stored # <<>> /\ got = <<>>
  /\ LET bit_count == Len(LabelFelts) * per
     IN  /\ Convertible(LabelFelts, bit_count)
         /\ buffer' = FieldEltsToBits(LabelFelts, bit_count)
         /\ got' = DecryptLabel([p \in 0 .. EncryptedBytes * ByteBits - 1 |-> buffer'[p]]) @@ <<>>
  /\ UNCHANGED <<params, item, label, encrypted, stored>>

\* dealgebraize_item, for the item itself.
DealgebraizeItem ==
  /\ stored # <<>>
  /\ buffer' = FieldEltsToBits([i \in 1 .. Len(stored) |-> stored[i][1]], ItemBitCount)
  /\ UNCHANGED <<params, item, label, encrypted, stored, got>>

Next == Encrypt \/ Algebraize \/ GetLabel \/ DealgebraizeItem

Spec == Init /\ [][Next]_vars

\* dealgebraize_item, for any elements of the field: with mod between
\* 2^per and 2^(per + 1), some have per + 1 bits.
DealgebraizeAny ==
  \E felts \in [1 .. params.felts_per_item -> Bits(per + 1)] :
    /\ buffer = <<>>
    /\ buffer' = FieldEltsToBits([i \in DOMAIN felts |-> felts[i] @@ Zeros(FeltBytes * ByteBits)], ItemBitCount)
    /\ UNCHANGED <<params, item, label, encrypted, stored, got>>

AnySpec == Init /\ [][DealgebraizeAny]_vars

-----------------------------------------------------------------------------
(* Properties.                                                             *)

\* The elements are below 2^bits_per_felt, hence in the field, and as many as
\* the item has bins, for the item and for each part of the label; the bundle,
\* which computes the number of parts by itself, has room for as many.
FitsTheBins ==
  stored # <<>> =>
    /\ Len(stored) = params.felts_per_item
    /\ \A i \in DOMAIN stored :
         /\ Len(stored[i][2]) = ComputeLabelSize
         /\ \A p \in DOMAIN stored[i][1] : p >= per => stored[i][1][p] = 0
         /\ \A l \in DOMAIN stored[i][2] : \A p \in per .. FeltBytes * ByteBits - 1 : stored[i][2][l][p] = 0

\* A label comes back as it was given, cut or filled up to the byte count the
\* database has for labels, whatever the sizes of bytes, elements and items.
LabelRoundTrip ==
  got # <<>> =>
    got = [p \in 0 .. params.label_byte_count * ByteBits - 1 |-> IF p \in DOMAIN label THEN label[p] ELSE 0]

\* The comment on the second copy_with_bit_offset: all other bits of dest are
\* unchanged.  The buffer was zero, so the bits behind the last are.
OthersUnchanged == \A p \in DOMAIN buffer : p >= ItemBitCount => buffer[p] = 0

=============================================================================
