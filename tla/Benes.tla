------------------------------- MODULE Benes -------------------------------
(***************************************************************************)
(* The permutation network of the oblivious shuffle: switches that swap    *)
(* two neighbours or not, in levels, for any number of values.  The route  *)
(* for a permutation is found recursively: each first and last switch of a *)
(* pair sends one of its two values to the lower half network ("bottom")   *)
(* and the other to the upper, two values meeting in a last switch not to  *)
(* the same.  A switch is <<level, column>>, a vector a function on 0 ..   *)
(* n - 1.                                                                  *)
(***************************************************************************)
EXTENDS Integers, Sequences, FiniteSets, TLC

CONSTANT MaxValues  \* bound: values permuted, from two on

BenesAssumption == MaxValues \in Nat

VARIABLES dest, switched, out

Last(st) == st[Len(st)]
Rest(st) == SubSeq(st, 1, Len(st) - 1)

Vector(n) == 0 .. n - 1
Half(n) == n \div 2
Pairs(n) == 0 .. Half(n) - 1
Identity(n) == [i \in Vector(n) |-> i]
Permutation(n) == {f \in [Vector(n) -> Vector(n)] : \A i, j \in Vector(n) : f[i] = f[j] => i = j}
Size(v) == Cardinality(DOMAIN v)

\* f itself; merging makes TLC compute the values once, not at each use.
Known(f) == f @@ <<>>

RECURSIVE CeilLog2(_)
CeilLog2(n) == IF n = 1 THEN 0 ELSE 1 + CeilLog2((n + 1) \div 2)

Levels(n) == 2 * n - 1

\* The other value of a switch: i ^ 1.
Partner(i) == IF i % 2 = 0 THEN i + 1 ELSE i - 1

\* Where two values have a network of two levels left, the middle one is used.
OnlyLevel(n, lvl_p) == IF n = 1 THEN lvl_p ELSE lvl_p + 1

UpperColumn(perm_idx, values) == perm_idx + values \div 4

(***************************************************************************)
(* DFS: path[i] is the half network of value i, -1 while unknown.  The     *)
(* partner of i in its first switch goes the other way, and so does the    *)
(* one it meets in its last.                                               *)
(***************************************************************************)
RECURSIVE DFS(_, _, _, _)
DFS(path, st, perm, inv_perm) ==
  IF st = <<>> THEN path
  ELSE LET first == Last(st)[1]
           other == 1 - Last(st)[2]
           assigned == [path EXCEPT ![first] = Last(st)[2]]
           meets == perm[Partner(inv_perm[first])]
           open(i) == IF assigned[i] < 0 THEN <<<<i, other>>>> ELSE <<>>
       IN  DFS(assigned, Rest(st) \o open(Partner(first)) \o open(meets), perm, inv_perm)

RECURSIVE FillPath(_, _, _, _)
FillPath(path, i, perm, inv_perm) ==
  IF i \notin DOMAIN path THEN path
  ELSE FillPath(IF path[i] < 0 THEN DFS(path, <<<<i, 0>>>>, perm, inv_perm) ELSE path,
                i + 1, perm, inv_perm)

\* An odd last value has no switch and goes through the upper network, at
\* both ends.
OddPath(path, perm, inv_perm) ==
  LET last == Size(path) - 1
      fixed == [path EXCEPT ![last] = 1, ![perm[last]] = 1]
  IN  IF Size(path) % 2 = 0 THEN path
      ELSE IF perm[last] = last THEN fixed
      ELSE DFS(fixed, <<<<perm[Partner(inv_perm[last])], 0>>>>, perm, inv_perm)

Path(perm, inv_perm) ==
  FillPath(OddPath([i \in DOMAIN perm |-> -1], perm, inv_perm), 0, perm, inv_perm)

\* The pair i through a switch set to s: (i | j) ^ s is even for one of the
\* two, which goes to place i / 2 of the lower network.
Lower(v, s) == [i \in Pairs(Size(v)) |-> v[2 * i + s[i]]]
Upper(v, s) ==
  [i \in Vector(Size(v) - Half(Size(v))) |->
     IF i \in Pairs(Size(v)) THEN v[2 * i + 1 - s[i]] ELSE v[Size(v) - 1]]

(***************************************************************************)
(* gen_benes_route.                                                        *)
(***************************************************************************)
Bit(b) == IF b THEN 1 ELSE 0

RouteOfThree(lvl_p, perm_idx, src, to) ==
  LET s == CASE src[0] = to[0] -> <<0, Bit(src[1] # to[1]), 0>>
             [] src[0] = to[1] -> <<0, Bit(src[1] # to[0]), 1>>
             [] src[0] = to[2] -> <<1, 1, Bit(src[1] # to[0])>>
  IN  [k \in (lvl_p .. lvl_p + 2) \X {perm_idx} |-> s[k[1] - lvl_p + 1]]

RECURSIVE Route(_, _, _, _, _)
Route(n, lvl_p, perm_idx, src, to) ==
  LET values == Size(src)
      place == [x \in {src[i] : i \in DOMAIN src} |-> CHOOSE i \in DOMAIN src : src[i] = x]
      perm == [i \in DOMAIN src |-> place[to[i]]]
      inv_perm == [i \in DOMAIN src |-> CHOOSE j \in DOMAIN src : perm[j] = i]
      path == Path(perm, inv_perm)
      s1 == [i \in Pairs(values) |-> path[2 * i]]
      s2 == [i \in Pairs(values) |-> path[perm[2 * i]]]
  IN  CASE values = 2 -> <<OnlyLevel(n, lvl_p), perm_idx>> :> Bit(src[0] # to[0])
        [] values = 3 -> RouteOfThree(lvl_p, perm_idx, src, to)
        [] OTHER ->
             [k \in {lvl_p} \X {perm_idx + i : i \in Pairs(values)} |-> s1[k[2] - perm_idx]]
          @@ [k \in {lvl_p + Levels(n) - 1} \X {perm_idx + i : i \in Pairs(values)} |-> s2[k[2] - perm_idx]]
          @@ Route(n - 1, lvl_p + 1, perm_idx, Lower(src, s1), Lower(to, s2))
          @@ Route(n - 1, lvl_p + 1, UpperColumn(perm_idx, values), Upper(src, s1), Upper(to, s2))

(***************************************************************************)
(* gen_benes_eval, with an operation at each switch: Through(k, s, a, b)   *)
(* is what comes out for a and b; the plain one only swaps.  In the last   *)
(* level the operation sees the values as they come out.                   *)
(***************************************************************************)
Swap(k, s, a, b) == IF s = 1 THEN <<b, a>> ELSE <<a, b>>

EvalThree(Through(_, _, _, _), lvl_p, perm_idx, set, v) ==
  LET k(l) == <<lvl_p + l, perm_idx>>
      first == Through(k(0), set[k(0)], v[0], v[1])
      second == Through(k(1), set[k(1)], first[2], v[2])
      third == Through(k(2), set[k(2)], first[1], second[1])
  IN  Known([i \in Vector(3) |->
               CASE i = 0 -> third[1] [] i = 1 -> third[2] [] OTHER -> second[2]])

RECURSIVE Eval(_, _, _, _, _, _)
Eval(Through(_, _, _, _), n, lvl_p, perm_idx, set, v) ==
  LET values == Size(v)
      level(l) == [i \in Pairs(values) |-> set[<<l, perm_idx + i>>]]
      zero == [i \in Pairs(values) |-> 0]
      first == Known([i \in Pairs(values) |->
                        Through(<<lvl_p, perm_idx + i>>, level(lvl_p)[i], v[2 * i], v[2 * i + 1])])
      lastLevel == lvl_p + Levels(n) - 1
      only == Through(<<OnlyLevel(n, lvl_p), perm_idx>>, set[<<OnlyLevel(n, lvl_p), perm_idx>>], v[0], v[1])
      routed == [i \in Vector(values) |->
                   IF i \div 2 \in Pairs(values) THEN first[i \div 2][(i % 2) + 1] ELSE v[i]]
      lower == Known(Eval(Through, n - 1, lvl_p + 1, perm_idx, set, Known(Lower(routed, zero))))
      upper == Known(Eval(Through, n - 1, lvl_p + 1, UpperColumn(perm_idx, values), set,
                          Known(Upper(routed, zero))))
      last == Known([i \in Pairs(values) |->
                       Through(<<lastLevel, perm_idx + i>>, level(lastLevel)[i], lower[i], upper[i])])
  IN  CASE values = 2 -> [i \in Vector(2) |-> only[i + 1]]
        [] values = 3 -> EvalThree(Through, lvl_p, perm_idx, set, v)
        [] OTHER -> [i \in Vector(values) |->
                       IF i \div 2 \in Pairs(values) THEN last[i \div 2][(i % 2) + 1] ELSE upper[i \div 2]]

\* gen_benes_eval from the first level on.
GenBenesEval(set, v) == Eval(Swap, CeilLog2(Size(v)), 0, 0, set, v)

Network(values) == (0 .. Levels(CeilLog2(values)) - 1) \X Pairs(values)

-----------------------------------------------------------------------------
\* One network: route, then send the identity through it.
Init ==
  /\ \E values \in 2 .. MaxValues : dest \in Permutation(values)
  /\ switched = <<>>
  /\ out = <<>>

GenRoute ==
  /\ switched = <<>>
  /\ switched' = Route(CeilLog2(Size(dest)), 0, 0, Identity(Size(dest)), dest)
  /\ UNCHANGED <<dest, out>>

GenEval ==
  /\ switched # <<>> /\ out = <<>>
  /\ out' = GenBenesEval(switched, Identity(Size(dest)))
  /\ UNCHANGED <<dest, switched>>

Next == GenRoute \/ GenEval
Spec == Init /\ [][Next]_<<dest, switched, out>>

-----------------------------------------------------------------------------
(* Properties.                                                             *)

\* The half networks, which threads work on at a time, have no switch in
\* common, and none is outside the levels and columns allocated.
RECURSIVE SwitchCount(_)
SwitchCount(values) ==
  CASE values = 2 -> 1 [] values = 3 -> 3
    [] OTHER -> 2 * Half(values) + SwitchCount(Half(values)) + SwitchCount(values - Half(values))

SwitchesOwn ==
  switched # <<>> => /\ DOMAIN switched \subseteq Network(Size(dest))
                     /\ Cardinality(DOMAIN switched) = SwitchCount(Size(dest))

=============================================================================
