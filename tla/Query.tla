------------------------------- MODULE Query -------------------------------
(***************************************************************************)
(* Which queries the receiver works on: what a sender's query holds, and   *)
(* what the Query constructor makes of the message it arrives in, given    *)
(* the parameters of the receiver.                                         *)
(*                                                                         *)
(* A request is the validity of its keys and the ciphertexts of each power *)
(* of the query, in order of the bundle indices; a ciphertext is whether   *)
(* it is valid for the receiver's context.                                 *)
(***************************************************************************)
EXTENDS Integers, Sequences, FiniteSets, PowersConfig

\* Parameters: query_powers, ps_low_degree, max_items_per_bin,
\* bundle_idx_count, and whether SEAL's context supports key switching.

SourcePowers(params) == params.query_powers
TargetPowers(params) == CreatePowersSet(params.ps_low_degree, params.max_items_per_bin)

\* What create_query sends under its parameters.
CreatedRequest(params) ==
  [relin_keys |-> TRUE,
   data |-> [p \in SourcePowers(params) |-> [i \in 1 .. params.bundle_idx_count |-> TRUE]]]

\* Mutant: one ciphertext for each item of a bin is expected.
MatchesItems(data, params) ==
  /\ Cardinality(DOMAIN data) = Cardinality(SourcePowers(params))
  /\ \A p \in DOMAIN data : Len(data[p]) = params.max_items_per_bin /\ p \in SourcePowers(params)

Matches(data, params) ==
  /\ Cardinality(DOMAIN data) = Cardinality(SourcePowers(params))
  /\ \A p \in DOMAIN data : Len(data[p]) = params.bundle_idx_count /\ p \in SourcePowers(params)

\* The constructor returns early, leaving valid_ FALSE, at the first check
\* that fails.  The plan of the powers is left as it is by then.
Checks(request, params) ==
  <<params.using_keyswitching => request.relin_keys,
    \A p \in DOMAIN request.data : \A i \in DOMAIN request.data[p] : request.data[p][i],
    Configurable(SourcePowers(params), TargetPowers(params)),
    Matches(request.data, params)>>

Passed(request, params, n) == \A i \in 1 .. n : Checks(request, params)[i]

Plan(request, params) ==
  IF Passed(request, params, 3) THEN DagParents(SourcePowers(params), TargetPowers(params)) ELSE <<>>

Construct(request, params) ==
  [valid |-> Passed(request, params, 4),
   data |-> IF Passed(request, params, 2) THEN request.data ELSE <<>>,
   pd |-> Plan(request, params)]

=============================================================================
