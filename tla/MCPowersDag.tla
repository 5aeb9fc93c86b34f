---------------------------- MODULE MCPowersDag ----------------------------
(* Three workers on the DAG configure builds for max_items_per_bin = 8 and *)
(* ps_low_degree = 3 from the query power 1 alone: a square, then another  *)
(* and a product side by side, then a square across the gap in the target  *)
(* powers.  Any of the products may throw, also two of them.               *)
EXTENDS PowersDagThrows, PowersConfig, TLC

CONSTANTS w1, w2, w3

MCWorker == {w1, w2, w3}
MCOrder == (w1 :> 1) @@ (w2 :> 2) @@ (w3 :> 3)
MCTargetVec == <<1, 2, 3, 4, 8>>
MCParents == [p \in {1, 2, 3, 4, 8} |-> CASE p = 1 -> <<0, 0>>
                                      [] p = 2 -> <<1, 1>>
                                      [] p = 3 -> <<2, 1>>
                                      [] p = 4 -> <<2, 2>>
                                      [] p = 8 -> <<4, 4>>]

ASSUME ConfiguredDag ==
  /\ Target = CreatePowersSet(3, 8)
  /\ Parents = DagParents({1}, Target)
=============================================================================
