---------------------------- MODULE PeerSession ----------------------------
(***************************************************************************)
(* The two command-line programs, sender_cli and receiver_cli, run against *)
(* each other once, from the parameter request to the exit of either.      *)
(* They talk over three connections:                                       *)
(*                                                                         *)
(*   - the ZeroMQ channel: parameters, query, response, result parts;      *)
(*   - a NetIO TCP stream on port 59999, opened when the parts have been   *)
(*     exchanged: the equality test, and then a flag;                      *)
(*   - the oblivious transfer's session, on port 59999 as well, and        *)
(*     another NetIO stream on port 58888 for the sum of the cardinality   *)
(*     build, which the sender's program never connects to.                *)
(*                                                                         *)
(* What is said of it depends on the build: log.h defines APSU and CARDSUM *)
(* and the preprocessor picks the steps of the receiver accordingly.  The  *)
(* contents of the messages are the matter of UnionQuery; here only their  *)
(* order counts, and who waits for whom.                                   *)
(***************************************************************************)
EXTENDS Integers, Sequences

CONSTANTS
  Builds,    \* the builds considered, records of the flags APSU and CARDSUM
  MaxParts   \* bound on the result parts of a query

PeerSessionAssumption ==
  /\ Builds \subseteq [APSU : 0..1, CARDSUM : 0..1]
  /\ MaxParts \in Nat

VARIABLES
  build,
  \* the ZeroMQ channel
  requests,      \* on the way to the receiver
  responses,     \* on the way to the sender
  \* the port 59999 and the stream accepted on it
  listener,      \* who listens: nobody ("closed"), "NetIO" or "session"
  connected,     \* the sender's connect succeeded
  to_receiver,
  to_sender,
  \* the receiver
  rpc,
  parts,         \* result parts still to be sent
  ans,           \* RunQuery knows the matches
  union,         \* union.csv is written
  \* the sender
  spc,
  package_count  \* result parts still to be received

channel == <<requests, responses>>
stream == <<listener, connected, to_receiver, to_sender>>
receiver == <<rpc, parts, ans, union>>
sender == <<spc, package_count>>
vars == <<build, channel, stream, receiver, sender>>

Init ==
  /\ build \in Builds
  /\ requests = <<>>
  /\ responses = <<>>
  /\ listener = "closed"
  /\ connected = FALSE
  /\ to_receiver = <<>>
  /\ to_sender = <<>>
  /\ rpc = "dispatch"
  /\ parts \in 0..MaxParts
  /\ ans = FALSE
  /\ union = FALSE
  /\ spc = "start"
  /\ package_count = 0

-----------------------------------------------------------------------------
(* The sender: remote_query.                                               *)

RequestParams ==
  /\ spc = "start"
  /\ requests' = Append(requests, [type |-> "parms"])
  /\ spc' = "parms"
  /\ UNCHANGED <<build, responses, stream, receiver, package_count>>

\* Once there are parameters the query is made and sent.
SendQuery ==
  /\ spc = "parms"
  /\ responses # <<>>
  /\ responses' = Tail(responses)
  /\ requests' = Append(requests, [type |-> "query"])
  /\ spc' = "response"
  /\ UNCHANGED <<build, stream, receiver, package_count>>

\* The query file cannot be read, or create_query throws: return -1.
QueryFails ==
  /\ spc = "parms"
  /\ responses # <<>>
  /\ responses' = Tail(responses)
  /\ spc' = "exited"
  /\ UNCHANGED <<build, requests, stream, receiver, package_count>>

ReceiveResponse ==
  /\ spc = "response"
  /\ responses # <<>>
  /\ package_count' = Head(responses).package_count
  /\ responses' = Tail(responses)
  /\ spc' = "collect"
  /\ UNCHANGED <<build, requests, stream, receiver>>

ReceiveResult ==
  /\ spc = "collect"
  /\ package_count > 0
  /\ responses # <<>>
  /\ package_count' = package_count - 1
  /\ responses' = Tail(responses)
  /\ UNCHANGED <<build, requests, stream, receiver, spc>>

AllReceived == package_count = 0

\* NetIO client("client", "127.0.0.1", 59999) exits if nobody listens.
ConnectNetIO ==
  /\ spc = "collect"
  /\ AllReceived
  /\ IF listener = "closed"
     THEN spc' = "refused" /\ UNCHANGED connected
     ELSE spc' = "peqt" /\ connected' = TRUE
  /\ UNCHANGED <<build, channel, listener, to_receiver, to_sender, receiver,
                 package_count>>

\* Mutant: the answers in the other order.
AnswersSwapped == <<"permuted_mask_X", "permuted_Y">>

Answers == <<"permuted_Y", "permuted_mask_X">>

\* DDHPEQT::Send: answer the masked X with the permuted Y and masked X.
PeqtSend ==
  /\ spc = "peqt"
  /\ to_sender # <<>>
  /\ to_sender' = Tail(to_sender)
  /\ to_receiver' = to_receiver \o Answers
  /\ spc' = "flag"
  /\ UNCHANGED <<build, channel, listener, connected, receiver, package_count>>

\* client.ReceiveInteger(flag).  At the end of the stream fread returns 0
\* and ReceiveDataInternal tries again, for ever.
ReceiveFlag ==
  /\ spc = "flag"
  /\ to_sender # <<>>
  /\ to_sender' = Tail(to_sender)
  /\ spc' = "ot"
  /\ UNCHANGED <<build, channel, listener, connected, to_receiver, receiver,
                 package_count>>

(***************************************************************************)
(* ResponseOT opens a client session on port 59999, which keeps trying     *)
(* until somebody listens.  If it is RunOT's session, the transfer takes   *)
(* place; a NetIO that listens has accepted its one client already, and    *)
(* the session stays in its backlog.                                       *)
(***************************************************************************)
ResponseOT ==
  /\ spc = "ot"
  /\ listener # "closed"
  /\ IF listener = "session"
     THEN spc' = "exited" /\ rpc' = "transferred" /\ union' = TRUE
     ELSE spc' = "backlog" /\ UNCHANGED <<rpc, union>>
  /\ UNCHANGED <<build, channel, stream, parts, ans, package_count>>

SenderStep ==
  \/ RequestParams
  \/ SendQuery
  \/ QueryFails
  \/ ReceiveResponse
  \/ ReceiveResult
  \/ ConnectNetIO
  \/ PeqtSend
  \/ ReceiveFlag
  \/ ResponseOT

-----------------------------------------------------------------------------
(* The receiver: ZMQReceiverDispatcher::run and Receiver::RunQuery.        *)

NextRequest(type) ==
  /\ rpc = "dispatch"
  /\ requests # <<>>
  /\ Head(requests).type = type
  /\ requests' = Tail(requests)

DispatchParms ==
  /\ NextRequest("parms")
  /\ responses' = Append(responses, [type |-> "parms"])
  /\ UNCHANGED <<build, stream, receiver, sender>>

\* Mutant: announces one part too many.
OnePartTooMany == parts + 1

PartCount == parts

\* RunQuery answers with the number of parts, before it sends them.
DispatchQuery ==
  /\ NextRequest("query")
  /\ responses' = Append(responses,
                         [type |-> "response", package_count |-> PartCount])
  /\ rpc' = "fanout"
  /\ UNCHANGED <<build, stream, parts, ans, union, sender>>

\* A ProcessBinBundleCache task sends its part.
SendResult ==
  /\ rpc = "fanout"
  /\ parts > 0
  /\ parts' = parts - 1
  /\ responses' = Append(responses, [type |-> "part"])
  /\ UNCHANGED <<build, requests, stream, rpc, ans, union, sender>>

\* A task throws: f.get() rethrows it, dispatch_query logs it, run returns
\* and the program ends.
TaskThrows ==
  /\ rpc = "fanout"
  /\ parts > 0
  /\ rpc' = "threw"
  /\ UNCHANGED <<build, channel, stream, parts, ans, union, sender>>

\* NetIO server("server", "", 59999): bind and listen.
ListenNetIO ==
  /\ rpc = "fanout"
  /\ parts = 0
  /\ listener' = "NetIO"
  /\ rpc' = "accept"
  /\ UNCHANGED <<build, channel, connected, to_receiver, to_sender, parts, ans,
                 union, sender>>

\* accept, and the first message of DDHPEQT::Receive.
AcceptNetIO ==
  /\ rpc = "accept"
  /\ connected
  /\ to_sender' = Append(to_sender, "mask_X")
  /\ rpc' = "peqt"
  /\ UNCHANGED <<build, channel, listener, connected, to_receiver, parts, ans,
                 union, sender>>

AnswersRead == Tail(Tail(to_receiver))

\* The two answers of DDHPEQT::Receive, and what RunQuery does with them.
PeqtReceive ==
  /\ rpc = "peqt"
  /\ Len(to_receiver) >= 2
  /\ to_receiver' = AnswersRead
  /\ ans' = TRUE
  /\ rpc' = IF build.APSU = 1 THEN "union" ELSE "transferred"
  /\ UNCHANGED <<build, channel, listener, connected, to_sender, parts, union,
                 sender>>

\* RunOT opens a server session on port 59999 although the NetIO server still
\* listens there: it depends on the platform whether this works or throws.
RunOT ==
  /\ rpc = "union"
  /\ \/ listener' = "session" /\ rpc' = "ot"
     \/ listener' = "closed" /\ rpc' = "threw"
  /\ UNCHANGED <<build, channel, connected, to_receiver, to_sender, parts, ans,
                 union, sender>>

\* server.SendInteger(1), and on to Cardsum_receiver, which accepts on 58888.
SendFlag ==
  /\ rpc = "transferred"
  /\ build.CARDSUM = 1
  /\ to_sender' = Append(to_sender, "flag")
  /\ rpc' = "accept 58888"
  /\ UNCHANGED <<build, channel, listener, connected, to_receiver, parts, ans,
                 union, sender>>

\* Without CARDSUM, RunQuery returns, and so do run and main.
Return ==
  /\ rpc = "transferred"
  /\ build.CARDSUM = 0
  /\ listener' = "closed"
  /\ rpc' = "exited"
  /\ UNCHANGED <<build, channel, connected, to_receiver, to_sender, parts, ans,
                 union, sender>>

ReceiverStep ==
  \/ DispatchParms
  \/ DispatchQuery
  \/ SendResult
  \/ TaskThrows
  \/ ListenNetIO
  \/ AcceptNetIO
  \/ PeqtReceive
  \/ RunOT
  \/ SendFlag
  \/ Return

-----------------------------------------------------------------------------

Next == SenderStep \/ ReceiverStep

Spec == Init /\ [][Next]_vars

\* Neither program is stopped, and neither network loses what it was given.
FairSpec == Spec /\ WF_vars(SenderStep) /\ WF_vars(ReceiverStep)

-----------------------------------------------------------------------------
(* Properties.                                                             *)

(***************************************************************************)
(* The streams carry plain bytes: whoever reads takes what comes for what  *)
(* it expects.  What comes to the sender is the masked X while it is in    *)
(* the equality test and the flag when it is past it; what comes to the    *)
(* receiver are the two answers of the test, together and in their order.  *)
(* The receiver reaches its end, by return or by waiting on port 58888,    *)
(* only with the matches known, every part taken by the sender and nothing *)
(* of the equality test left unread in the stream.                         *)
(***************************************************************************)
StreamsInStep ==
  /\ to_sender # <<>> =>
       Head(to_sender) = IF spc = "peqt" THEN "mask_X" ELSE "flag"
  /\ to_receiver # <<>> =>
       /\ rpc = "peqt"
       /\ to_receiver = <<"permuted_Y", "permuted_mask_X">>
  /\ rpc \in {"exited", "accept 58888"} =>
       ans /\ package_count = 0 /\ responses = <<>> /\ to_receiver = <<>>

(***************************************************************************)
(* The sender's connect is refused in one window only: after the receiver  *)
(* has sent the last part and before it listens.  It is never refused by a *)
(* receiver that has listened already, nor made before the last part.      *)
(***************************************************************************)
RefusedInWindow ==
  [][spc # "refused" /\ spc' = "refused" =>
       parts = 0 /\ responses = <<>> /\ rpc = "fanout"]_vars

(***************************************************************************)
(* The receiver gets to know the matches, unless the sender gives up       *)
(* before its query, is refused, or a task of the receiver throws.         *)
(***************************************************************************)
AnsweredOrGivenUp ==
  <>(ans \/ spc \in {"exited", "refused"} \/ rpc = "threw")

(***************************************************************************)
(* tools/auto_test.py waits for the sender to end, outfile.wait(200), and  *)
(* goes on to compare the results.  A sender that is connected to a        *)
(* receiver which finishes the equality test should end.                   *)
(***************************************************************************)
SenderFinishes == ans ~> spc = "exited"

(***************************************************************************)
(* check_ans of tools/auto_test.py opens union.csv and asserts that it     *)
(* holds what the query adds.  In a build for the union, a receiver that   *)
(* knows the matches should get to write it, if it can open its session.   *)
(***************************************************************************)
UnionWritten == ans /\ build.APSU = 1 ~> union \/ rpc = "threw"

=============================================================================
