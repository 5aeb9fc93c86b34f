-------------------------- MODULE PowersDagProofs --------------------------
(***************************************************************************)
(* What parallel_apply guarantees for every DAG that satisfies             *)
(* DagAssumption and every number of workers, also when products throw.    *)
(***************************************************************************)
EXTENDS PowersDagThrows, FiniteSetTheorems, TLAPS

(***************************************************************************)
(* SingleOwner, ParentsFirst and PowersRight do not carry one another      *)
(* through a step: between storing a product and marking its node the      *)
(* ciphertext is right although the node is not yet Computed, a source is  *)
(* right from the start, and only products are ever stored.                *)
(***************************************************************************)
Loaded ==
  /\ \A p \in Target : IsSource(p) => powers[p] = p
  /\ \A w \in Worker : pc[w] = "mark" => powers[node(w)] = node(w)
  /\ \A w \in Worker : pc[w] = "store" => ~ IsSource(node(w))

Inv ==
  /\ SingleOwner
  /\ ParentsFirst
  /\ PowersRight
  /\ AllPowersOnReturn
  /\ Loaded

-----------------------------------------------------------------------------

(* The node a worker looks at is a target power, and so are its parents.   *)
LEMMA NodeFacts ==
  ASSUME TypeOK
  PROVE  /\ \A w \in Worker : node(w) \in Target
         /\ \A p \in Target : ~ IsSource(p) =>
              /\ Parents[p][1] \in Target
              /\ Parents[p][2] \in Target
              /\ Parents[p][1] + Parents[p][2] = p
         /\ Target \subseteq Nat \ {0}
<1>1. \A w \in Worker : node(w) \in Target
  BY DagAssumption DEF TypeOK, node, Target
<1>2. Target \subseteq Nat \ {0}
  BY DagAssumption DEF Target
<1>3. ASSUME NEW p \in Target, ~ IsSource(p)
      PROVE  /\ Parents[p][1] \in Target
             /\ Parents[p][2] \in Target
             /\ Parents[p][1] + Parents[p][2] = p
  <2>1. Parents[p] \in Target \X Target
    BY <1>3, DagAssumption DEF IsSource
  <2> QED
    BY <2>1, <1>3, DagAssumption
<1> QED
  BY <1>1, <1>2, <1>3

(* The state parallel_apply keeps stays within its types.                  *)
THEOREM TypeCorrect == Spec => []TypeOK
<1>1. Init => TypeOK
  BY DagAssumption DEF Init, TypeOK, NodeState, Target
<1>2. TypeOK /\ [Next]_vars => TypeOK'
  <2> SUFFICES ASSUME TypeOK, [Next]_vars
               PROVE  TypeOK'
    OBVIOUS
  <2> USE DEF TypeOK, NodeState, GoTo
  <2>1. \A w \in Worker : Advance(w) =>
          power_idx' \in [Worker -> 1..TargetCount]
    BY DagAssumption DEF Advance
  <2>2. ASSUME NEW w \in Worker, Scan(w) PROVE TypeOK'
    BY <2>2 DEF Scan, AllComputed
  <2>3. ASSUME NEW w \in Worker, Claim(w) PROVE TypeOK'
    BY <2>3, <2>1, NodeFacts DEF Claim, CompareExchange
  <2>4. ASSUME NEW w \in Worker, CheckParents(w) PROVE TypeOK'
    BY <2>4, <2>1, NodeFacts DEF CheckParents, CompareExchange
  <2>5. ASSUME NEW w \in Worker, Multiply(w) PROVE TypeOK'
    BY <2>5, NodeFacts DEF Multiply, Product
  <2>6. ASSUME NEW w \in Worker, PassSource(w) PROVE TypeOK'
    BY <2>6 DEF PassSource
  <2>7. ASSUME NEW w \in Worker, StoreProduct(w) PROVE TypeOK'
    BY <2>7, NodeFacts DEF StoreProduct
  <2>8. ASSUME NEW w \in Worker, MarkComputed(w) PROVE TypeOK'
    BY <2>8, <2>1, NodeFacts DEF MarkComputed, CompareExchange
  <2>9. CASE UNCHANGED vars
    BY <2>9 DEF vars
  <2> QED
    BY <2>2, <2>3, <2>4, <2>5, <2>6, <2>7, <2>8, <2>9 DEF Next, Step, Done
<1> QED
  BY <1>1, <1>2, PTL DEF Spec

(* The product of a node is made from computed parents.                    *)
LEMMA MultiplyRight ==
  ASSUME TypeOK, Inv, NEW w \in Worker, Multiply(w)
  PROVE  PowersRight'
<1>1. /\ pc[w] = "multiply" /\ ~ IsSource(node(w))
      /\ prod' = [prod EXCEPT ![w] = Product(node(w))]
      /\ pc' = [pc EXCEPT ![w] = "store"]
      /\ UNCHANGED <<node_states, powers, power_idx>>
  BY DEF Multiply, GoTo
<1>2. /\ \A u \in Worker \ {w} : prod'[u] = prod[u] /\ pc'[u] = pc[u]
      /\ prod'[w] = Product(node(w))
  BY <1>1 DEF TypeOK
<1>3. node(w) \in Target BY NodeFacts DEF TypeOK, node
<1>4. ParentsComputed(node(w)) BY <1>1 DEF Inv, ParentsFirst
<1>5. Product(node(w)) = node(w)
  <2>1. PICK n \in Target : n = node(w) BY <1>3
  <2>2. /\ Parents[n][1] \in Target /\ Parents[n][2] \in Target
        /\ Parents[n][1] + Parents[n][2] = n
    BY <1>1, <2>1, NodeFacts
  <2>3. powers[Parents[n][1]] = Parents[n][1] /\ powers[Parents[n][2]] = Parents[n][2]
    BY <1>4, <2>1, <2>2 DEF ParentsComputed, Inv, PowersRight
  <2> QED BY <2>1, <2>2, <2>3 DEF Product
<1>6. \A u \in Worker : node(u)' = node(u) BY <1>1 DEF node
<1> QED BY <1>1, <1>2, <1>5, <1>6 DEF Inv, PowersRight

(* The invariant is inductive.                                             *)
LEMMA InvInductive ==
  ASSUME TypeOK, TypeOK', Inv, [Next]_vars
  PROVE  Inv'
<1> USE NodeFacts DEF TypeOK, Holds, node
<1> DEFINE Parts == /\ SingleOwner' /\ ParentsFirst' /\ PowersRight'
                    /\ AllPowersOnReturn' /\ Loaded'
<1>1. ASSUME NEW w \in Worker, Scan(w) PROVE Parts
  <2> USE <1>1 DEF Scan, AllComputed, GoTo, Inv
  <2>1. SingleOwner' BY DEF SingleOwner
  <2>2. ParentsFirst' BY DEF ParentsFirst, ParentsComputed
  <2>3. PowersRight' BY DEF PowersRight
  <2>4. AllPowersOnReturn' BY DEF AllPowersOnReturn, PowersRight
  <2>5. Loaded' BY DEF Loaded
  <2> QED BY <2>1, <2>2, <2>3, <2>4, <2>5
<1>2. ASSUME NEW w \in Worker, Claim(w) PROVE Parts
  <2> USE <1>2 DEF Claim, ClaimSucceeds, GoTo, CompareExchange, Inv
  <2>1. SingleOwner' BY DEF SingleOwner, Advance
  <2>2. ParentsFirst' BY DEF ParentsFirst, ParentsComputed, Advance
  <2>3. PowersRight' BY DEF PowersRight, Advance
  <2>4. AllPowersOnReturn' BY DEF AllPowersOnReturn
  <2>5. Loaded' BY DEF Loaded, Advance
  <2> QED BY <2>1, <2>2, <2>3, <2>4, <2>5
<1>3. ASSUME NEW w \in Worker, CheckParents(w) PROVE Parts
  <2> USE <1>3 DEF CheckParents, Ready, GoTo, CompareExchange, Inv
  <2>1. SingleOwner' BY DEF SingleOwner, Advance
  <2>2. ParentsFirst'
    BY DEF ParentsFirst, ParentsComputed, SingleOwner, Advance
  <2>3. PowersRight' BY DEF PowersRight, Advance
  <2>4. AllPowersOnReturn' BY DEF AllPowersOnReturn, SingleOwner
  <2>5. Loaded' BY DEF Loaded, Advance
  <2> QED BY <2>1, <2>2, <2>3, <2>4, <2>5
<1>4. ASSUME NEW w \in Worker, Multiply(w) PROVE Parts
  <2>1. PowersRight' BY <1>4, MultiplyRight
  <2> USE <1>4 DEF Multiply, Product, GoTo, Inv
  <2>2. SingleOwner' BY DEF SingleOwner
  <2>3. ParentsFirst' BY DEF ParentsFirst, ParentsComputed
  <2>4. AllPowersOnReturn' BY DEF AllPowersOnReturn
  <2>5. Loaded' BY DEF Loaded
  <2> QED BY <2>1, <2>2, <2>3, <2>4, <2>5
<1>5. ASSUME NEW w \in Worker, PassSource(w) PROVE Parts
  <2> USE <1>5 DEF PassSource, GoTo, Inv
  <2>1. SingleOwner' BY DEF SingleOwner
  <2>2. ParentsFirst' BY DEF ParentsFirst, ParentsComputed
  <2>3. PowersRight' BY DEF PowersRight
  <2>4. AllPowersOnReturn' BY DEF AllPowersOnReturn
  <2>5. Loaded' BY DEF Loaded
  <2> QED BY <2>1, <2>2, <2>3, <2>4, <2>5
<1>6. ASSUME NEW w \in Worker, StoreProduct(w) PROVE Parts
  <2> USE <1>6 DEF StoreProduct, GoTo, Inv
  <2>1. SingleOwner' BY DEF SingleOwner
  <2>2. ParentsFirst' BY DEF ParentsFirst, ParentsComputed
  <2>3. PowersRight' BY DEF PowersRight, SingleOwner
  <2>4. AllPowersOnReturn' BY DEF AllPowersOnReturn, PowersRight
  <2>5. Loaded' BY DEF Loaded, PowersRight
  <2> QED BY <2>1, <2>2, <2>3, <2>4, <2>5
<1>7. ASSUME NEW w \in Worker, MarkComputed(w) PROVE Parts
  <2> USE <1>7 DEF MarkComputed, GoTo, CompareExchange, Inv
  <2>1. SingleOwner' BY DEF SingleOwner, Advance
  <2>2. ParentsFirst' BY DEF ParentsFirst, ParentsComputed, Advance
  <2>3. PowersRight' BY DEF PowersRight, Loaded, Advance
  <2>4. AllPowersOnReturn' BY DEF AllPowersOnReturn
  <2>5. Loaded' BY DEF Loaded, Advance
  <2> QED BY <2>1, <2>2, <2>3, <2>4, <2>5
<1>8. CASE UNCHANGED vars
  BY <1>8 DEF vars, Inv, SingleOwner, ParentsFirst, ParentsComputed,
              PowersRight, AllPowersOnReturn, Loaded
<1> QED
  BY <1>1, <1>2, <1>3, <1>4, <1>5, <1>6, <1>7, <1>8
     DEF Next, Step, Done, Inv

(* The workers of parallel_apply never share a node, never multiply before *)
(* the parents are computed, never hold a wrong power in a computed node,  *)
(* and return only when every target power is computed.                    *)
THEOREM Correct ==
  Spec => [](SingleOwner /\ ParentsFirst /\ PowersRight /\ AllPowersOnReturn)
<1>1. Init => Inv
  <2> SUFFICES ASSUME Init PROVE Inv OBVIOUS
  <2>1. SingleOwner BY DEF Init, SingleOwner, Holds
  <2>2. ParentsFirst BY DEF Init, ParentsFirst
  <2>3. PowersRight BY DEF Init, PowersRight
  <2>4. AllPowersOnReturn BY DEF Init, AllPowersOnReturn
  <2>5. Loaded BY DEF Init, Loaded
  <2> QED BY <2>1, <2>2, <2>3, <2>4, <2>5 DEF Inv
<1>2. TypeOK /\ TypeOK' /\ Inv /\ [Next]_vars => Inv'
  BY InvInductive
<1>3. Inv => SingleOwner /\ ParentsFirst /\ PowersRight /\ AllPowersOnReturn
  BY DEF Inv
<1> QED
  BY <1>1, <1>2, <1>3, TypeCorrect, PTL DEF Spec

(* No step takes a computed node back or overwrites its ciphertext.        *)
LEMMA ComputedStays ==
  ASSUME TypeOK, SingleOwner, [Next]_vars
  PROVE  \A p \in Target : node_states[p] = "Computed" =>
           node_states'[p] = "Computed" /\ powers'[p] = powers[p]
<1> USE NodeFacts DEF TypeOK, SingleOwner, Holds, GoTo, CompareExchange
<1>1. ASSUME NEW w \in Worker, Step(w)
      PROVE  \A p \in Target : node_states[p] = "Computed" =>
               node_states'[p] = "Computed" /\ powers'[p] = powers[p]
  BY <1>1 DEF Step, Scan, Claim, CheckParents, Multiply, PassSource,
              StoreProduct, MarkComputed
<1>2. CASE UNCHANGED vars
  BY <1>2 DEF vars
<1> QED
  BY <1>1, <1>2 DEF Next, Done

(* A computed power is final.                                              *)
THEOREM Final == Spec => ComputedIsFinal
<1>1. ASSUME TypeOK, SingleOwner, [Next]_vars
      PROVE  [\A p \in Target : node_states[p] = "Computed" =>
                node_states'[p] = "Computed" /\ powers'[p] = powers[p]]_vars
  BY <1>1, ComputedStays
<1> QED
  BY <1>1, TypeCorrect, Correct, PTL DEF Spec, ComputedIsFinal

-----------------------------------------------------------------------------

(* A worker that throws leaves the others as they are, and no step is told *)
(* of after one of them has used what the caller destroyed, so that every  *)
(* step is one of parallel_apply or leaves its state alone.                *)
LEMMA ThrowsIsApply == SpecThrows => Spec
<1>1. InitThrows => Init
  BY DEF InitThrows
<1>2. [NextThrows]_tvars => [Next]_vars
  BY DEF NextThrows, Throw, StepOf, GetFuture, UseDestroyed, Next, tvars, vars
<1> QED
  BY <1>1, <1>2, PTL DEF SpecThrows, Spec

(***************************************************************************)
(* The futures the caller has got are those of workers that have returned, *)
(* and a worker whose function has thrown does not return.  The caller     *)
(* leaves with an exception only if one was thrown, and once it has all    *)
(* futures no worker is left that could use what it destroys.              *)
(***************************************************************************)
FuturesGot ==
  /\ got \in 0 .. Cardinality(Worker)
  /\ threw \subseteq Worker
  /\ \A w \in threw : pc[w] = "multiply"
  /\ \A w \in Worker : Order[w] <= got => pc[w] = "returned"
  /\ caller = "returned" => got = Cardinality(Worker) /\ Worker # {}
  /\ caller \in {"threw", "undefined"} => threw # {}

(* FuturesGot is inductive.                                                *)
LEMMA FuturesStep ==
  ASSUME TypeOK, FuturesGot, [NextThrows]_tvars
  PROVE  FuturesGot'
<1> USE ThrowsAssumption DEF TypeOK, FuturesGot
<1>0. Cardinality(Worker) \in Nat
  BY FS_CardinalityType
<1>1. ASSUME NEW w \in Worker, Throw(w) PROVE FuturesGot'
  BY <1>1, <1>0 DEF Throw, vars
<1>2. ASSUME NEW w \in Worker, StepOf(w) PROVE FuturesGot'
  <2>1. /\ pc[w] # "returned"
        /\ \A v \in Worker \ {w} : pc'[v] = pc[v]
    BY <1>2 DEF StepOf, Step, Scan, Claim, CheckParents, Multiply, PassSource,
                StoreProduct, MarkComputed, GoTo
  <2> QED
    BY <1>2, <2>1, <1>0 DEF StepOf
<1>3. ASSUME NEW w \in Worker, GetFuture(w) PROVE FuturesGot'
  <2>1. CASE w \in threw
    BY <1>3, <2>1, <1>0 DEF GetFuture, vars
  <2>2. CASE w \notin threw
    <3>1. /\ got' = got + 1 /\ Order[w] = got + 1 /\ pc[w] = "returned"
          /\ UNCHANGED <<pc, threw>>
          /\ caller' \in {"returned", "waiting"}
          /\ caller' = "returned" => got' = Cardinality(Worker)
      BY <1>3, <2>2 DEF GetFuture, vars
    <3>2. ASSUME NEW v \in Worker, Order[v] <= got'
          PROVE  pc'[v] = "returned"
      <4>1. CASE Order[v] <= got
        BY <3>1, <4>1
      <4>2. CASE Order[v] = Order[w]
        BY <3>1, <4>2
      <4> QED
        BY <3>1, <3>2, <4>1, <4>2, <1>0
    <3> QED
      BY <3>1, <3>2, <1>0
  <2> QED
    BY <2>1, <2>2
<1>4. ASSUME NEW w \in Worker, UseDestroyed(w) PROVE FuturesGot'
  <2>1. /\ caller \in {"returned", "threw"} /\ pc[w] # "returned"
        /\ caller' = "undefined" /\ UNCHANGED <<pc, threw, got>>
    BY <1>4 DEF UseDestroyed, vars
  <2>2. caller # "returned"
    BY <2>1, <1>0
  <2> QED
    BY <2>1, <2>2, <1>0
<1>5. CASE UNCHANGED tvars
  BY <1>5, <1>0 DEF tvars, vars
<1> QED
  BY <1>1, <1>2, <1>3, <1>4, <1>5 DEF NextThrows

(* The caller gets the futures one by one, each of a worker that returned. *)
LEMMA Futures == SpecThrows => []FuturesGot
<1>1. InitThrows => FuturesGot
  <2>1. Cardinality(Worker) \in Nat
    BY ThrowsAssumption, FS_CardinalityType
  <2>2. \A w \in Worker : ~ (Order[w] <= 0)
    BY ThrowsAssumption, <2>1
  <2> QED
    BY <2>1, <2>2 DEF InitThrows, FuturesGot
<1>2. TypeOK /\ FuturesGot /\ [NextThrows]_tvars => FuturesGot'
  BY FuturesStep
<1> QED
  BY <1>1, <1>2, ThrowsIsApply, TypeCorrect, PTL DEF SpecThrows

(* As long as the caller has not left, the workers do not share a node or  *)
(* multiply too early, and no worker returns before all powers are there,  *)
(* also when products throw.  The call returns only if every worker did,   *)
(* so that the loop over the futures overlooked no exception and no worker *)
(* is left behind; only a product that throws lets a worker use what the   *)
(* caller has destroyed.                                                   *)
THEOREM Harmless == SpecThrows => []HarmlessInFrame
<1>1. ASSUME FuturesGot, AllPowersOnReturn, caller = "returned"
      PROVE  Returned /\ threw = {} /\ \A p \in Target : powers[p] = p
  <2>1. \A w \in Worker : Order[w] <= got
    BY <1>1, ThrowsAssumption, FS_CardinalityType DEF FuturesGot
  <2>2. \A w \in Worker : pc[w] = "returned"
    BY <1>1, <2>1 DEF FuturesGot
  <2> QED
    BY <1>1, <2>2 DEF FuturesGot, AllPowersOnReturn, Returned
<1>2. FuturesGot /\ SingleOwner /\ ParentsFirst /\ AllPowersOnReturn
        => HarmlessInFrame
  BY <1>1 DEF HarmlessInFrame, FuturesGot
<1> QED
  BY <1>2, Futures, ThrowsIsApply, Correct, PTL

(* As long as the caller has not left, no power that a worker stores or    *)
(* has marked is wrong, also when products throw.                          *)
THEOREM RightThrows == SpecThrows => []RightInFrame
<1>1. PowersRight => RightInFrame
  BY DEF RightInFrame
<1> QED
  BY <1>1, ThrowsIsApply, Correct, PTL

(* As long as the caller has not left, no power that is computed is taken  *)
(* back or overwritten, also when products throw.                          *)
THEOREM FinalThrows == SpecThrows => FinalInFrame
<1>1. ASSUME TypeOK, SingleOwner, [NextThrows]_tvars
      PROVE  [Standing => \A p \in Target : node_states[p] = "Computed" =>
                node_states'[p] = "Computed" /\ powers'[p] = powers[p]]_tvars
  <2>1. [Next]_vars
    BY <1>1 DEF NextThrows, Throw, StepOf, GetFuture, UseDestroyed, Next, tvars, vars
  <2>2. \A p \in Target : node_states[p] = "Computed" =>
          node_states'[p] = "Computed" /\ powers'[p] = powers[p]
    BY <1>1, <2>1, ComputedStays
  <2> QED
    BY <2>2
<1> QED
  BY <1>1, ThrowsIsApply, TypeCorrect, Correct, PTL DEF SpecThrows, FinalInFrame

=============================================================================
