---------------------------- MODULE MCParameters ----------------------------
(***************************************************************************)
(* Parameters, of which a behaviour has one way to use them: "evaluate",   *)
(* all the small parameters that are accepted, with the evaluation of      *)
(* every polynomial under them, or "exchange", the way of a document's     *)
(* parameters to both sides, each number good, at its limits and past      *)
(* them.                                                                   *)
(***************************************************************************)
EXTENDS PolyEval

VARIABLES use, document, mine, file, saved, theirs, thrown

exchange == <<document, mine, file, saved, theirs, thrown>>
allVars == <<use, vars, exchange>>

DocumentNumbers ==
  [table_size |-> {0, 4, 6}, max_items_per_bin |-> {0, 3}, hash_func_count |-> {0, 1, 4},
   felts_per_item |-> {1, 2, 3, 5}, ps_low_degree |-> {0, 1, 4},
   poly_modulus_degree |-> {4, 8}, plain_modulus_bits |-> {2, 3, 4}]

DocumentPowers == {{}, {1, 2}, {3}, {0, 1}, {1, 4}, {2, 3}}

Exchange == INSTANCE Params WITH
  FeltsMin <- 2, FeltsMax <- 4, HashFuncMin <- 1, HashFuncMax <- 3, ItemBitsMin <- 4,
  ItemBitsMax <- 8, Version <- 1, OtherVersion <- 2, Numbers <- DocumentNumbers,
  QueryPowers <- DocumentPowers

ASSUME ExchangeAssumption == Exchange!ParamsAssumption

NoEvaluation ==
  /\ params = "none" /\ phase = "none" /\ nodes = "none"
  /\ powers = "none" /\ degree = "none" /\ eval = "none"

NoExchange ==
  /\ document = "none" /\ mine = "none" /\ file = "none"
  /\ saved = "none" /\ theirs = "none" /\ thrown = "none"

InitUse ==
  \/ use = "evaluate" /\ Init /\ NoExchange
  \/ use = "exchange" /\ Exchange!Init /\ NoEvaluation

NextEvaluate == use = "evaluate" /\ Next /\ UNCHANGED <<use, exchange>>
NextExchange == use = "exchange" /\ Exchange!Next /\ UNCHANGED <<use, vars>>
NextUse == NextEvaluate \/ NextExchange

SpecUse == InitUse /\ [][NextUse]_allVars

-----------------------------------------------------------------------------
(* Properties; the two modules say what each of them is about.             *)

\* The evaluation adds up the terms of the polynomial, each once, and every
\* operation of it finds its operands as SEAL demands.
PolynomialEvaluated == use = "evaluate" => OperandsReady /\ EvaluatesPolynomial

\* The powers of parameters that are accepted can be planned, from operands
\* that are computed before, and no circuit computes one at a smaller depth;
\* and the items at the locations have the bins they need.
AcceptedAreUsable ==
  /\ use = "evaluate" => AcceptedParamsConfigure /\ DagIsValid /\ DepthOptimal
  /\ use = "exchange" => Exchange!LocationsFit

\* A side accepts what one of its version has, whether from a saved database
\* or from a response, and all use the same.
SidesAgree ==
  [][use = "exchange" =>
       /\ Exchange!LoadDb /\ (\E buffer \in file : Exchange!SameVersion(buffer))
            => mine' = {Exchange!Given(document)}
       /\ Exchange!LoadStream /\ (\E buffer \in saved : Exchange!SameVersion(buffer))
            => theirs' = mine /\ theirs' = {Exchange!Given(document)}]_allVars
=============================================================================
