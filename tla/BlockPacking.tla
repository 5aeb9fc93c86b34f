---------------------------- MODULE BlockPacking ----------------------------
(***************************************************************************)
(* vec_to_std_block: the field elements of an item's mask as one block for *)
(* the equality test, which matches two cells iff their blocks are equal.  *)
(* Both parties have the function.  It packs without loss as long as the   *)
(* elements fit the block's words; nothing in the code checks that they    *)
(* do, and the parameter sets of the repository see to it.                 *)
(***************************************************************************)
EXTENDS Integers, Sequences

CONSTANTS
  WordBits,       \* 64 in the code
  PlainModuli,
  MaxFelts        \* bound on felts_per_item

BlockPackingAssumption ==
  /\ WordBits \in Nat \ {0}
  /\ PlainModuli \subseteq Nat \ {0, 1}
  /\ MaxFelts \in Nat \ {0}

VARIABLES
  plain_modulus, in,   \* what is to be packed
  pla,                 \* the next pair of elements; -1 before the first
  lower, higher        \* the words of the block

vars == <<plain_modulus, in, pla, lower, higher>>

felts_per_item == Len(in)
Odd == felts_per_item % 2 = 1

\* The least length from 1 on whose largest number is not below the modulus.
PlainModulusLen(modulus) ==
  CHOOSE len \in 1 .. WordBits :
    2 ^ len - 1 >= modulus /\ \A l \in 1 .. len - 1 : 2 ^ l - 1 < modulus

plain_modulus_len == PlainModulusLen(plain_modulus)
HalfLen == plain_modulus_len \div 2

\* The bits of the longer word: the upper half of an odd element moves up by
\* one, and has one bit more than the lower half if their number is odd.
BitsNeeded(felts, len) ==
  (felts \div 2) * len + (felts % 2) * (len - len \div 2 + 1)

Word(n) == n % 2 ^ WordBits
Mask(n, len) == n % 2 ^ len

Init ==
  /\ plain_modulus \in PlainModuli
  /\ \E felts \in 1 .. MaxFelts :
       /\ BitsNeeded(felts, PlainModulusLen(plain_modulus)) <= WordBits
       /\ in \in [1 .. felts -> 0 .. plain_modulus - 1]
  /\ pla = -1
  /\ lower = 0
  /\ higher = 0

\* Mutant: the upper half with the lower half's mask.
HalvesWithOneMask(felt) ==
  [lower |-> Mask(felt, HalfLen), higher |-> Mask(felt, HalfLen) * 2]

\* The upper half is moved down by one less than its place.
Halves(felt) ==
  [lower |-> Mask(felt, HalfLen),
   higher |-> (Mask(felt, plain_modulus_len) - Mask(felt, HalfLen)) \div 2 ^ (HalfLen - 1)]

\* An odd last element is cut in two and comes first.
PackLast ==
  /\ pla = -1
  /\ pla' = 0
  /\ IF Odd
     THEN LET halves == Halves(in[felts_per_item])
          IN  lower' = halves.lower /\ higher' = halves.higher
     ELSE UNCHANGED <<lower, higher>>
  /\ UNCHANGED <<plain_modulus, in>>

\* Element and word share no bits, so that "or" is a sum.
PackPair ==
  /\ pla >= 0
  /\ pla < felts_per_item - 1
  /\ pla' = pla + 2
  /\ lower' = Word(lower * 2 ^ plain_modulus_len + Mask(in[pla + 1], plain_modulus_len))
  /\ higher' = Word(higher * 2 ^ plain_modulus_len + Mask(in[pla + 2], plain_modulus_len))
  /\ UNCHANGED <<plain_modulus, in>>

Packed == pla >= felts_per_item - 1 /\ pla >= 0

Next == PackLast \/ PackPair

Spec == Init /\ [][Next]_vars

-----------------------------------------------------------------------------
(* Properties.                                                             *)

\* The element at an index, read back from the two words.
Unpacked(i) ==
  LET pair == (i - 1) \div 2
      above == plain_modulus_len * (felts_per_item \div 2 - 1 - pair)
      word == IF i % 2 = 1 THEN lower ELSE higher
  IN  IF Odd /\ i = felts_per_item
      THEN LET top == plain_modulus_len * (felts_per_item \div 2)
           IN  (lower \div 2 ^ top) + (higher \div 2 ^ top) * 2 ^ (HalfLen - 1)
      ELSE (word \div 2 ^ above) % 2 ^ plain_modulus_len

(***************************************************************************)
(* No information is lost: the elements can be read back from the block,   *)
(* so that blocks are equal only if the masks are.                         *)
(***************************************************************************)
PackingInjective ==
  Packed => \A i \in 1 .. felts_per_item : Unpacked(i) = in[i]

(***************************************************************************)
(* No mask is packed into Block::all_one_block, with which the receiver    *)
(* pads the rows of caches it does not have.                               *)
(***************************************************************************)
MaskIsNoPadding ==
  Packed => ~(lower = 2 ^ WordBits - 1 /\ higher = 2 ^ WordBits - 1)

=============================================================================
