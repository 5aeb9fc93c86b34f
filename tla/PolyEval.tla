------------------------------ MODULE PolyEval ------------------------------
(***************************************************************************)
(* From the query parameters to an evaluated matching polynomial:          *)
(* PowersDag::configure plans the powers, Receiver::ComputePowers computes *)
(* them and brings each to the form the evaluation wants, and              *)
(* Receiver::ProcessBinBundleCache evaluates the polynomial of one bin     *)
(* bundle with BatchedPlaintextPolyn::eval or eval_patstock.               *)
(*                                                                         *)
(* Ciphertexts are reduced to what SEAL checks of its operands: whether    *)
(* the NTT transform is applied and the level in the modulus chain.  An    *)
(* evaluation is reduced to the products it adds up: the pairs of a        *)
(* coefficient's index and the exponent of the query it is multiplied to.  *)
(* It is then exact for every polynomial and every field at once.          *)
(***************************************************************************)
EXTENDS PowersConfig

CONSTANTS
  MaxItemsPerBin,  \* bound on max_items_per_bin
  PsLowDegrees,    \* the values of ps_low_degree considered
  Unset            \* a ciphertext nothing was assigned to

ASSUME PolyEvalAssumption ==
  /\ MaxItemsPerBin \in Nat \ {0}
  /\ PsLowDegrees \subseteq Nat

VARIABLES
  params,     \* the query parameters and the length of the modulus chain
  phase,
  nodes,      \* pd_.nodes_ after configure
  powers,     \* all_powers[bundle_idx]: the form of each power of the query
  degree,     \* degree of the matching polynomial evaluated
  eval        \* what its evaluation did

vars == <<params, phase, nodes, powers, degree, eval>>

low == params.ps_low_degree
high == params.ps_low_degree + 1        \* ps_high_degree
Targets == CreatePowersSet(low, params.max_items_per_bin)

\* get_parms_id_for_chain_idx: the first data level if the chain is shorter.
Level(chain_idx) == Min({chain_idx, params.first_chain_idx})

-----------------------------------------------------------------------------
(* SEAL's checks of its operands.                                          *)

MultiplyPlainAccepts(ct, coeff) ==
  /\ ct # Unset
  /\ ct.ntt = coeff.ntt
  /\ coeff.ntt => ct.level = coeff.level

\* add_inplace and multiply_inplace want both operands in the same form.
SameForm(ct, other) == ct # Unset /\ ct = other

-----------------------------------------------------------------------------

\* BatchedPlaintextPolyn: the coefficient of x^i is transformed unless it is
\* the constant coefficient of the polynomial or of an inner polynomial.
Coeff(i) ==
  [ntt   |-> IF low = 0 THEN i # 0 ELSE i % high # 0,
   level |-> Level(IF low = 0 THEN 1 ELSE 2)]

\* The form ComputePowers leaves power p in.
PowerForm(p) ==
  CASE low = 0             -> [ntt |-> TRUE,  level |-> Level(1)]
    [] low # 0 /\ p <= low -> [ntt |-> TRUE,  level |-> Level(2)]
    [] low # 0 /\ p > low  -> [ntt |-> FALSE, level |-> Level(1)]

\* using_ps in ProcessBinBundleCache.
UsingPatstock == low > 1 /\ low < degree

(***************************************************************************)
(* eval: one product for each degree, added up in the form of the first    *)
(* power, and the constant coefficient added outside of NTT form.          *)
(***************************************************************************)
EvalTerms == {<<d, d>> : d \in 0..degree}

EvalAccepted ==
  /\ \A d \in 1..degree :
       /\ MultiplyPlainAccepts(powers[d], Coeff(d))
       /\ SameForm(powers[d], [ntt |-> TRUE, level |-> powers[1].level])
  /\ ~ Coeff(0).ntt

HighPowers == degree \div high          \* ps_high_degree_powers

\* Mutant: the last inner polynomial loses its highest term.
InnerPlacesShort ==
  ((1..(HighPowers - 1)) \X (1..(high - 1)))
    \union ({HighPowers} \X (1..((degree % high) - 1)))
    \union ({0} \X (1..(high - 1)))

(***************************************************************************)
(* eval_patstock: the inner polynomials without their constant terms, each *)
(* multiplied to its high power (none for the first); the last one is      *)
(* shorter.  The constant terms follow, multiplied to the high powers.     *)
(* InnerPlaces lists the pairs <<i, j>> of the loops over inner            *)
(* polynomials and over their terms.                                       *)
(***************************************************************************)
InnerPlaces ==
  ((1..(HighPowers - 1)) \X (1..(high - 1)))
    \union ({HighPowers} \X (1..(degree % high)))
    \union ({0} \X (1..(high - 1)))

PatstockTerms ==
  {<<ij[1] * high + ij[2], ij[1] * high + ij[2]>> : ij \in InnerPlaces}
    \union {<<i * high, i * high>> : i \in 1..HighPowers}
    \union {<<0, 0>>}

PatstockProducts == Cardinality(InnerPlaces) + HighPowers + 1

PatstockAccepted ==
  LET result == [ntt |-> FALSE, level |-> Level(1)]
  IN /\ \A ij \in InnerPlaces :
          /\ MultiplyPlainAccepts(powers[ij[2]], Coeff(ij[1] * high + ij[2]))
          /\ powers[ij[2]].ntt /\ powers[ij[2]].level >= result.level
          /\ ij[1] # 0 => SameForm(powers[ij[1] * high], result)
     /\ \A i \in 1..HighPowers :
          /\ MultiplyPlainAccepts(powers[i * high], Coeff(i * high))
          /\ SameForm(powers[i * high], result)
     /\ ~ Coeff(0).ntt

-----------------------------------------------------------------------------

(***************************************************************************)
(* Any parameters PSUParams::initialize accepts.                           *)
(***************************************************************************)
Init ==
  /\ \E m \in 2..MaxItemsPerBin, l \in PsLowDegrees, f \in 0..3 :
     \E q \in SUBSET (1..m) :
       /\ ValidQueryParams(m, l, q)
       /\ params = [max_items_per_bin |-> m, ps_low_degree |-> l,
                    query_powers |-> q, first_chain_idx |-> f]
  /\ phase = "configure"
  /\ nodes = <<>>
  /\ powers = [p \in 0..params.max_items_per_bin |-> Unset]
  /\ degree = 0
  /\ eval = [accepted |-> TRUE, terms |-> {}, products |-> 0]

\* PowersDag::configure, called by the Query constructor and by
\* Sender::reset_powers_dag.
Configure ==
  /\ phase = "configure"
  /\ IF Configurable(params.query_powers, Targets)
     THEN /\ nodes' = Nodes(params.query_powers, Targets)
          /\ phase' = "compute"
     ELSE /\ phase' = "not configured"
          /\ UNCHANGED nodes
  /\ UNCHANGED <<params, powers, degree, eval>>

\* Receiver::ComputePowers, for a bundle index that has a cache.
ComputePowers ==
  /\ phase = "compute"
  /\ powers' = [p \in DOMAIN powers |->
                  IF p \in DOMAIN nodes THEN PowerForm(p) ELSE Unset]
  /\ phase' = "evaluate"
  /\ UNCHANGED <<params, nodes, degree, eval>>

(***************************************************************************)
(* A bin holds fewer than max_items_per_bin items, so the polynomial of a  *)
(* bundle has at least one root and less than max_items_per_bin.  The      *)
(* bundles of a bundle index are evaluated one after another here: they    *)
(* only read the powers.                                                   *)
(***************************************************************************)
ChooseBundle(d) ==
  /\ phase \in {"evaluate", "done"}
  /\ d \in 1..(params.max_items_per_bin - 1)
  /\ degree' = d
  /\ phase' = "process"
  /\ eval' = [accepted |-> TRUE, terms |-> {}, products |-> 0]
  /\ UNCHANGED <<params, nodes, powers>>

ProcessBinBundleCache ==
  /\ phase = "process"
  /\ eval' = IF UsingPatstock
             THEN [accepted |-> PatstockAccepted, terms |-> PatstockTerms,
                   products |-> PatstockProducts]
             ELSE [accepted |-> EvalAccepted, terms |-> EvalTerms,
                   products |-> degree + 1]
  /\ phase' = "done"
  /\ UNCHANGED <<params, nodes, powers, degree>>

Next ==
  \/ Configure
  \/ ComputePowers
  \/ \E d \in 1..MaxItemsPerBin : ChooseBundle(d)
  \/ ProcessBinBundleCache

Spec == Init /\ [][Next]_vars

-----------------------------------------------------------------------------
(* Properties.                                                             *)

(***************************************************************************)
(* Parameters that PSUParams::initialize accepts can always be configured, *)
(* so neither Sender::reset_powers_dag throws nor does the receiver reject *)
(* the query of a well-behaved sender.                                     *)
(***************************************************************************)
AcceptedParamsConfigure == phase # "not configured"

(***************************************************************************)
(* The DAG is one parallel_apply can work on: "The parents are always      *)
(* found in target_powers_vec", they add up to the power of their node,    *)
(* and the sources are exactly the powers the query brings.                *)
(***************************************************************************)
DagIsValid ==
  nodes # <<>> =>
    /\ DOMAIN nodes = Targets
    /\ \A p \in Targets :
         IF p \in params.query_powers THEN nodes[p].parents = <<0, 0>>
         ELSE /\ nodes[p].parents \in Targets \X Targets
              /\ nodes[p].parents[1] + nodes[p].parents[2] = p

\* The powers that circuits of multiplicative depth at most k compute.
Reachable(k) ==
  LET reach[i \in 0..k] ==
        IF i = 0 THEN params.query_powers
        ELSE reach[i - 1] \union
               {p \in Targets : \E s, t \in reach[i - 1] : p = s + t}
  IN  reach[k]

(***************************************************************************)
(* The DAG is depth-optimal, as the class comment of PowersDag promises:   *)
(* no circuit over the target powers computes one of them at a smaller     *)
(* depth than configure found.  A deeper one exhausts the noise budget.    *)
(***************************************************************************)
DepthOptimal ==
  nodes # <<>> =>
    \A p \in Targets :
      /\ p \in Reachable(nodes[p].depth)
      /\ nodes[p].depth > 0 => p \notin Reachable(nodes[p].depth - 1)

(***************************************************************************)
(* Every operation of the evaluation finds its operands assigned, in the   *)
(* form and at the level SEAL demands, whichever algorithm and degree.     *)
(***************************************************************************)
OperandsReady == eval.accepted

(***************************************************************************)
(* The products an evaluation adds up are the terms of the polynomial:     *)
(* every coefficient once, with its own power of the query.                *)
(***************************************************************************)
EvaluatesPolynomial ==
  phase = "done" => /\ eval.terms = {<<d, d>> : d \in 0..degree}
                    /\ eval.products = degree + 1

(***************************************************************************)
(* psu_params.h on ps_low_degree: "If set to a non-zero value, signals     *)
(* that the Paterson-Stockmeyer algorithm should be used for evaluating    *)
(* the matching and label polynomials."  An accepted value must at least   *)
(* leave the polynomials evaluable.                                        *)
(***************************************************************************)
NonZeroLowDegreeEvaluates ==
  phase = "done" /\ low # 0 => eval.accepted

=============================================================================
