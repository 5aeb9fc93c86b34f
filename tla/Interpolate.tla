---------------------------- MODULE Interpolate ----------------------------
(***************************************************************************)
(* The polynomials of a bin: the one with the items as roots, and for each *)
(* part of the labels the one that has it at its item.  Arithmetic is      *)
(* modulo a prime; a polynomial is the sequence of its coefficients, the   *)
(* constant one first.                                                     *)
(***************************************************************************)
EXTENDS Integers, Sequences, FiniteSets, SequencesExt

CONSTANTS
  Prime,      \* mod
  MaxItems    \* bound: how many points there are

InterpolateAssumption ==
  /\ Prime \in Nat \ {0, 1} /\ \A d \in 2 .. Prime - 1 : Prime % d # 0
  /\ MaxItems \in Nat

VARIABLES
  points, values,
  matching,   \* polyn_with_roots(points), <<>> before
  label       \* what newton_interpolate_polyn returned, <<>> before

vars == <<points, values, matching, label>>

Field == 0 .. Prime - 1
InverseOf(a) == CHOOSE b \in Field : (a * b) % Prime = 1
Sub(a, b) == (a + Prime - b) % Prime

\* The value at x, by the powers of x.
At(polyn, x) == FoldLeft(LAMBDA v, c : (v * x + c) % Prime, 0, Reverse(polyn))

\* polyn_mul_monic_monomial_inplace: times x - a.
MulMonomial(polyn, a) ==
  [i \in 1 .. Len(polyn) + 1 |->
     LET shifted == IF i = 1 THEN 0 ELSE polyn[i - 1]
         scaled == IF i <= Len(polyn) THEN Sub(0, a) * polyn[i] ELSE 0
     IN  (shifted + scaled) % Prime]

PolynWithRoots(roots) == FoldLeft(MulMonomial, <<1>>, roots)

AddConstant(polyn, c) == [polyn EXCEPT ![1] = (@ + c) % Prime]

\* Mutant: neighbours only, as if all columns were the first.
SpanNear(i, j) == Sub(points[i + 1], points[i])

\* The denominator of the difference of points i to i + j.
Span(i, j) == Sub(points[i + j], points[i])

AllZeros == \A i \in DOMAIN values : values[i] = 0
Repeated == \E j \in 1 .. Len(points) - 1 : \E i \in 1 .. Len(points) - j : Span(i, j) = 0

\* Divided differences: column j at row i.
Divided ==
  LET column[j \in 0 .. Len(points) - 1] ==
        IF j = 0 THEN values
        ELSE [i \in 1 .. Len(points) - j |->
                (Sub(column[j - 1][i + 1], column[j - 1][i]) * InverseOf(Span(i, j))) % Prime]
  IN  column

\* max<size_t>(size, 1) zeros.
Zeros(size) == [i \in 1 .. (IF size = 0 THEN 1 ELSE size) |-> 0]

\* newton_interpolate_polyn, in the case that nothing throws.
NewtonInterpolate ==
  LET size == Len(points)
      horner[i \in 1 .. size] ==
        IF i = size THEN AddConstant(<<0>>, Divided[size - 1][1])
        ELSE AddConstant(MulMonomial(horner[i + 1], points[i]), Divided[i - 1][1])
  IN  IF AllZeros THEN Zeros(size) ELSE horner[1]

-----------------------------------------------------------------------------
Init ==
  /\ \E n \in 0 .. MaxItems :
       /\ points \in [1 .. n -> Field]
       /\ values \in [1 .. n -> Field]
  /\ matching = <<>> /\ label = <<>>

\* BinBundle::regen_polyns, for one bin.
Roots ==
  /\ matching = <<>>
  /\ matching' = PolynWithRoots(points)
  /\ UNCHANGED <<points, values, label>>

Label ==
  /\ matching # <<>> /\ label = <<>>
  /\ AllZeros \/ ~Repeated
  /\ label' = NewtonInterpolate
  /\ UNCHANGED <<points, values, matching>>

\* logic_error: tried to interpolate at repeated points
LabelThrows ==
  /\ matching # <<>>
  /\ ~AllZeros /\ Repeated
  /\ UNCHANGED vars

Done == label # <<>> /\ UNCHANGED vars

Next == Roots \/ Label \/ LabelThrows \/ Done
Spec == Init /\ [][Next]_vars

-----------------------------------------------------------------------------
(* Properties.                                                             *)

\* The matching polynomial is zero at the items and nowhere else, monic, and
\* of the degree the powers of the query are planned for: a bin with no item
\* has the constant one, which matches nothing.
RootsAreTheItems ==
  matching # <<>> =>
    /\ \A x \in Field : (At(matching, x) = 0) <=> x \in ToSet(points)
    /\ Len(matching) = Len(points) + 1 /\ matching[Len(matching)] = 1

\* The label polynomial has each value at its point, also where all values
\* are zero and points are repeated; without points it is the constant zero.
LabelAtItsItem ==
  label # <<>> =>
    /\ \A i \in DOMAIN points : At(label, points[i]) = values[i]
    /\ points = <<>> => label = <<0>>

=============================================================================
