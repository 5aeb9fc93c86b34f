---------------------------- MODULE PowersConfig ----------------------------
(***************************************************************************)
(* How a query's powers are planned: the checks PSUParams::initialize      *)
(* makes on the query parameters, create_powers_set, which lists the       *)
(* powers the evaluation needs, and PowersDag::configure, which decides    *)
(* from which two lower powers each of them is multiplied.  All of it is   *)
(* computed once, by the sender (Sender::reset_powers_dag) and again by    *)
(* the receiver (the Query constructor), from the same parameters.         *)
(***************************************************************************)
EXTENDS Integers, FiniteSets, FiniteSetsExt

(***************************************************************************)
(* PSUParams::initialize: what it demands of ps_low_degree and             *)
(* query_powers, given max_items_per_bin.                                  *)
(***************************************************************************)
ValidQueryParams(max_items_per_bin, ps_low_degree, query_powers) ==
  /\ max_items_per_bin # 0
  /\ ps_low_degree <= max_items_per_bin
  /\ 0 \notin query_powers /\ 1 \in query_powers
  /\ Cardinality(query_powers) <= max_items_per_bin
  /\ \A p \in query_powers :
       /\ p <= max_items_per_bin
       /\ p > ps_low_degree => p % (ps_low_degree + 1) = 0

\* create_powers_set: all powers, or the low ones and the multiples of
\* ps_low_degree + 1 when Paterson-Stockmeyer is used.
CreatePowersSet(ps_low_degree, target_degree) ==
  IF ps_low_degree = 0 THEN 1..target_degree
  ELSE 1..ps_low_degree \union
         {p \in 1..target_degree : p % (ps_low_degree + 1) = 0}

\* The checks configure makes before it starts.
Configurable(source_powers, target_powers) ==
  /\ 0 \notin source_powers /\ 1 \in source_powers
  /\ 0 \notin target_powers /\ 1 \in target_powers
  /\ source_powers \subseteq target_powers

\* Mutant: stops at the first choice that beats the initial one.
FirstBetterNode(curr_power, target_powers, depth) ==
  LET s1s == {s1 \in target_powers :
                s1 < curr_power /\ curr_power - s1 \in target_powers}
      via(s1) == Max({depth[s1], depth[curr_power - s1]}) + 1
      better == {s1 \in s1s : via(s1) < curr_power - 1}
  IN  IF better = {}
      THEN [depth |-> curr_power - 1, parents |-> <<curr_power - 1, 1>>]
      ELSE [depth |-> via(Min(better)),
            parents |-> <<Min(better), curr_power - Min(better)>>]

(***************************************************************************)
(* The loop over the first parent for curr_power.  The candidates are      *)
(* tried in ascending order and only a strictly smaller depth replaces the *)
(* choice made so far, which starts out as curr_power - 1 and 1 at depth   *)
(* curr_power - 1, whether or not curr_power - 1 is a target power.        *)
(***************************************************************************)
OptimalNode(curr_power, target_powers, depth) ==
  LET s1s == {s1 \in target_powers :
                s1 < curr_power /\ curr_power - s1 \in target_powers}
      via(s1) == Max({depth[s1], depth[curr_power - s1]}) + 1
      better == {s1 \in s1s : via(s1) < curr_power - 1}
      best == {s1 \in better : \A s \in better : via(s1) <= via(s)}
      optimal_s1 == Min(best)
  IN  IF best = {}
      THEN [depth |-> curr_power - 1, parents |-> <<curr_power - 1, 1>>]
      ELSE [depth |-> via(optimal_s1),
            parents |-> <<optimal_s1, curr_power - optimal_s1>>]

\* nodes_ after a successful configure, built in ascending order of the powers.
Nodes(source_powers, target_powers) ==
  LET nodes[p \in target_powers] ==
        IF p \in source_powers THEN [depth |-> 0, parents |-> <<0, 0>>]
        ELSE OptimalNode(p, target_powers,
               [q \in {r \in target_powers : r < p} |-> nodes[q].depth])
  IN  nodes

\* The parents configure gives to each target power.
DagParents(source_powers, target_powers) ==
  [p \in target_powers |-> Nodes(source_powers, target_powers)[p].parents]

=============================================================================
