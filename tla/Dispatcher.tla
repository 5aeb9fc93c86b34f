----------------------------- MODULE Dispatcher -----------------------------
(***************************************************************************)
(* The loop of ZMQReceiverDispatcher::run and the programs that talk to    *)
(* it.  A program asks for the parameters unless it has its own, and then  *)
(* sends a query made under the parameters it has; after each it waits,    *)
(* without a limit, for a response of the right type.                      *)
(*                                                                         *)
(* The channel is that of ZmqChannel, with messages that load; what        *)
(* follows the response to a query is UnionQuery and PeerSession.          *)
(***************************************************************************)
EXTENDS Integers, Sequences, FiniteSets, Query

CONSTANTS
  Sender,         \* the programs, each with one channel
  ReceiverParams, \* the parameters of the database
  OwnParams       \* parameters a program may come with

DispatcherAssumption ==
  \A params \in OwnParams \cup {ReceiverParams} :
    ValidQueryParams(params.max_items_per_bin, params.ps_low_degree, params.query_powers)

NoParams == <<>>
Types == {"rop_parms", "rop_oprf", "rop_query", "rop_response"}

VARIABLES
  stop,       \* the flag given to run
  running,    \* "loop", the state of run, or how it ended
  rop,        \* the operation being dispatched, <<>> if none
  requests,   \* on the way from each program
  responses,  \* and to it
  params_,    \* the parameters each program has
  awaits      \* the response it waits for, "nothing" or "done"

vars == <<stop, running, rop, requests, responses, params_, awaits>>

Init ==
  /\ stop = FALSE /\ running = "loop" /\ rop = <<>>
  /\ requests = [s \in Sender |-> <<>>]
  /\ responses = [s \in Sender |-> <<>>]
  /\ params_ \in [Sender -> OwnParams \cup {NoParams}]
  /\ awaits = [s \in Sender |-> "nothing"]

-----------------------------------------------------------------------------
(* The programs.                                                           *)

Send(s, request) ==
  /\ awaits[s] = "nothing"
  /\ requests' = [requests EXCEPT ![s] = Append(@, request)]
  /\ awaits' = [awaits EXCEPT ![s] = request.type]
  /\ UNCHANGED <<stop, running, rop, responses, params_>>

RequestParams(s) == params_[s] = NoParams /\ Send(s, [type |-> "rop_parms"])

RequestQuery(s) ==
  /\ params_[s] # NoParams
  /\ Send(s, [type |-> "rop_query", request |-> CreatedRequest(params_[s])])

\* Mutant: the types are mixed up.
ConvertsParms(response, type) == response.type = "rop_parms"

\* to_params_response, to_query_response: nullptr unless the type is right.
Converts(response, type) == response.type = type

\* The loop around receive_response.
ReceiveResponse(s) ==
  /\ awaits[s] \in Types
  /\ responses[s] # <<>>
  /\ responses' = [responses EXCEPT ![s] = Tail(@)]
  /\ LET response == Head(responses[s])
     IN  IF ~Converts(response, awaits[s]) THEN UNCHANGED <<params_, awaits>>
         ELSE /\ params_' = IF response.type = "rop_parms" THEN [params_ EXCEPT ![s] = response.params]
                            ELSE params_
              /\ awaits' = [awaits EXCEPT ![s] = IF response.type = "rop_query" THEN "done" ELSE "nothing"]
  /\ UNCHANGED <<stop, running, rop, requests>>

-----------------------------------------------------------------------------
(* The dispatcher.                                                         *)

WhileNotStopped == running = "loop" /\ rop = <<>> /\ ~stop

Stop == ~stop /\ stop' = TRUE /\ UNCHANGED <<running, rop, requests, responses, params_, awaits>>

SeeStop ==
  /\ running = "loop" /\ rop = <<>> /\ stop
  /\ running' = "stopped"
  /\ UNCHANGED <<stop, rop, requests, responses, params_, awaits>>

ReceiveOperation(s) ==
  /\ WhileNotStopped
  /\ requests[s] # <<>>
  /\ rop' = <<s, Head(requests[s])>>
  /\ requests' = [requests EXCEPT ![s] = Tail(@)]
  /\ UNCHANGED <<stop, running, responses, params_, awaits>>

Respond(s, response) == responses' = [responses EXCEPT ![s] = Append(@, response)]

DispatchParms ==
  /\ rop # <<>> /\ rop[2].type = "rop_parms"
  /\ Respond(rop[1], [type |-> "rop_parms", params |-> ReceiverParams])
  /\ rop' = <<>>
  /\ UNCHANGED <<stop, running, requests, params_, awaits>>

\* RunQuery throws if the query is not valid; the exception is only logged.
\* Either way run returns.
DispatchQuery ==
  /\ rop # <<>> /\ rop[2].type = "rop_query"
  /\ IF Construct(rop[2].request, ReceiverParams).valid
     THEN Respond(rop[1], [type |-> "rop_query"])
     ELSE UNCHANGED responses
  /\ rop' = <<>>
  /\ running' = "returned"
  /\ UNCHANGED <<stop, requests, params_, awaits>>

Next ==
  \/ \E s \in Sender : RequestParams(s) \/ RequestQuery(s) \/ ReceiveResponse(s) \/ ReceiveOperation(s)
  \/ Stop \/ SeeStop \/ DispatchParms \/ DispatchQuery

\* Programs and dispatcher go on by themselves; receive_network_operation is
\* fair to the channels of a ROUTER socket.
Fairness ==
  /\ \A s \in Sender : WF_vars(RequestParams(s)) /\ WF_vars(RequestQuery(s)) /\ WF_vars(ReceiveResponse(s))
  /\ \A s \in Sender : SF_vars(ReceiveOperation(s))
  /\ WF_vars(SeeStop) /\ WF_vars(DispatchParms) /\ WF_vars(DispatchQuery)

Spec == Init /\ [][Next]_vars /\ Fairness

-----------------------------------------------------------------------------
(* Properties.                                                             *)

Fits(s) == params_[s] = ReceiverParams
Ended == running # "loop"

\* A query that is worked on has a ciphertext for each power that is not
\* computed, for each bundle index: the products of the plan find operands.
OperandsPresent ==
  rop # <<>> /\ rop[2].type = "rop_query" =>
    LET query == Construct(rop[2].request, ReceiverParams)
    IN  query.valid =>
          \A p \in DOMAIN query.pd :
            \/ \E a, b \in DOMAIN query.pd : query.pd[p] = <<a, b>> /\ a + b = p
            \/ p \in DOMAIN query.data
               /\ DOMAIN query.data[p] = 1 .. ReceiverParams.bundle_idx_count

\* The parameters a program asks for make a query that is accepted: when run
\* has returned after its query, it has its answer.
FittingAccepted ==
  \A s \in Sender : rop # <<>> /\ rop[1] = s /\ Fits(s) /\ rop[2].type = "rop_query"
    => Construct(rop[2].request, ReceiverParams).valid

\* A program that asks for parameters gets them, or the dispatcher has ended.
ParamsArrive == \A s \in Sender : awaits[s] = "rop_parms" ~> (Fits(s) \/ Ended)

\* The first query of all, if made under the right parameters, is answered:
\* when run has ended without having been stopped, some program is done or
\* had parameters of its own.
FirstIsAnswered ==
  (Ended /\ ~stop) ~> \/ \E s \in Sender : awaits[s] = "done"
                      \/ \E s \in Sender : ~Fits(s) /\ awaits[s] = "rop_query"

\* "Run until stopped": nothing but the flag ends the loop.
RunsUntilStopped == Ended => stop

=============================================================================
