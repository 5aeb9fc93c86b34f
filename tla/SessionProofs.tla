--------------------------- MODULE SessionProofs ----------------------------
(***************************************************************************)
(* What the two programs can rely on when they talk to each other: they    *)
(* keep in step (PeerSession), the bytes of the NetIO stream arrive as     *)
(* they were sent (NetIO), answers find the channel that asked             *)
(* (ZmqChannel), a message that is refused costs no other one in a         *)
(* stream (StreamChannel), and what is loaded is what was saved (Wire).    *)
(* The five parts do not depend on each other.                             *)
(***************************************************************************)
EXTENDS PeerSession, NetIO, SequenceTheorems, FunctionTheorems, FiniteSetTheorems, TLAPS

-----------------------------------------------------------------------------
(***************************************************************************)
(* That the two programs keep in step, in every build and for every number *)
(* of result parts: whoever reads from the NetIO stream finds the message  *)
(* it expects, the receiver ends with everything taken, and the sender's   *)
(* connect is refused in one window only.                                  *)
(*                                                                         *)
(* The streams carry no types, so nothing but the places of both programs  *)
(* says what is in them.  The invariant gives the contents of the channel  *)
(* and of both streams for each pair of places the programs can be at; the *)
(* parts not yet sent, on the way and not yet counted down link the two    *)
(* while the receiver fans out.                                            *)
(***************************************************************************)

Parms == [type |-> "parms"]
Query == [type |-> "query"]

PlacesOK ==
  /\ build \in Builds
  /\ connected \in BOOLEAN /\ ans \in BOOLEAN
  /\ listener \in {"closed", "NetIO", "session"}
  /\ parts \in Nat /\ package_count \in Nat
  /\ rpc \in {"dispatch", "fanout", "threw", "accept", "peqt", "union", "ot",
              "transferred", "accept 58888", "exited"}
  /\ spc \in {"start", "parms", "response", "collect", "refused", "peqt",
              "flag", "ot", "backlog", "exited"}

\* One request or response is on its way, until the query is dispatched.
Asking ==
  rpc = "dispatch" =>
    /\ \/ spc \in {"start", "exited"} /\ requests = <<>> /\ responses = <<>>
       \/ spc = "parms" /\ requests = <<Parms>> /\ responses = <<>>
       \/ spc = "parms" /\ requests = <<>> /\ responses = <<Parms>>
       \/ spc = "response" /\ requests = <<Query>> /\ responses = <<>>
    /\ package_count = 0

\* The parts not yet received are those not yet sent and those on the way,
\* first as the response announces them and then as the sender counts.
Serving ==
  rpc # "dispatch" =>
    /\ requests = <<>>
    /\ \E S : responses \in Seq(S)
    /\ spc \in {"response", "collect", "refused", "peqt", "flag", "ot", "backlog"}
    /\ spc = "response" =>
         /\ responses # <<>>
         /\ Head(responses).package_count \in Nat
         /\ Head(responses).package_count + 1 = parts + Len(responses)
    /\ spc # "response" => package_count = parts + Len(responses)
    /\ spc \notin {"response", "collect"} => package_count = 0
    /\ rpc \notin {"fanout", "threw"} => parts = 0

Matched == {"union", "ot", "transferred", "accept 58888", "exited"}

\* Who listens, and whether the sender is connected.
Listening ==
  /\ rpc \in {"dispatch", "fanout", "threw", "exited"} => listener = "closed"
  /\ rpc \in {"accept", "peqt", "union", "transferred", "accept 58888"} =>
       listener = "NetIO"
  /\ rpc = "ot" => listener = "session"
  /\ connected <=> spc \in {"peqt", "flag", "ot", "backlog"}
  /\ rpc \in {"peqt"} \cup Matched => connected
  /\ connected => rpc \notin {"dispatch", "fanout"}
  /\ rpc = "threw" => connected \/ parts > 0

\* What is in the two streams.
InStreams ==
  /\ to_sender =
       IF rpc = "peqt" /\ spc = "peqt" THEN <<"mask_X">>
       ELSE IF rpc = "accept 58888" /\ spc = "flag" THEN <<"flag">> ELSE <<>>
  /\ to_receiver = IF rpc = "peqt" /\ spc # "peqt" THEN Answers ELSE <<>>
  /\ rpc = "peqt" => spc \in {"peqt", "flag"}
  /\ rpc \in Matched \cup {"threw"} => spc # "peqt"
  /\ spc = "flag" => rpc \notin {"accept"}
  /\ spc \in {"ot", "backlog"} => rpc = "accept 58888"
  /\ rpc \in Matched => ans

PInv ==
  /\ PlacesOK
  /\ Asking
  /\ Serving
  /\ Listening
  /\ InStreams

-----------------------------------------------------------------------------

\* A channel is a sequence of whatever was put into it.
LEMMA AppendMessage ==
  ASSUME NEW S, NEW s \in Seq(S), NEW m
  PROVE  /\ \E T : Append(s, m) \in Seq(T)
         /\ Append(s, m) # <<>>
         /\ Len(s) \in Nat
         /\ Len(Append(s, m)) = Len(s) + 1
         /\ s # <<>> => Head(Append(s, m)) = Head(s)
  <1>1. s \in Seq(S \union {m}) /\ m \in S \union {m} OBVIOUS
  <1>2. Append(s, m) \in Seq(S \union {m}) BY <1>1
  <1> QED BY <1>1, <1>2

\* Receiving shortens a channel by one message.
LEMMA ReceiveMessage ==
  ASSUME NEW S, NEW s \in Seq(S), s # <<>>
  PROVE  /\ Tail(s) \in Seq(S)
         /\ Len(s) \in Nat /\ Len(Tail(s)) \in Nat
         /\ Len(Tail(s)) = Len(s) - 1
  OBVIOUS

\* A channel that holds nothing is the empty one.
LEMMA NothingLeft ==
  ASSUME NEW S, NEW s \in Seq(S)
  PROVE  Len(s) \in Nat /\ (Len(s) = 0 => s = <<>>)
  OBVIOUS

\* Nothing to be received and nothing to be sent: nothing on the way.
LEMMA NothingToCome == \A n \in Nat : 0 = 0 + n => n = 0
  OBVIOUS

\* The two requests are told apart by their type.
LEMMA Kinds ==
  /\ Parms.type = "parms" /\ Query.type = "query"
  /\ Head(<<Parms>>) = Parms /\ Head(<<Query>>) = Query
  BY DEF Parms, Query

\* Both counts lose one.
LEMMA OneFewer ==
  \A c, p, n, m \in Nat : c + 1 = p + n /\ m = n - 1 => c = p + m
  OBVIOUS

\* One message in a stream, and the two answers, are what they look like.
LEMMA StreamMessages ==
  /\ \A m : /\ <<m>> # <<>>
            /\ Head(<<m>>) = m
            /\ Tail(<<m>>) = <<>>
            /\ Append(<<>>, m) = <<m>>
  /\ <<>> \o Answers = Answers
  /\ Answers # <<>>
  /\ Len(Answers) = 2
  /\ Tail(Tail(Answers)) = <<>>
  BY DEF Answers

\* Nobody has asked anything.
LEMMA InitPInv == ASSUME PeerSessionAssumption PROVE Init => PInv
  <1> SUFFICES ASSUME PeerSessionAssumption, Init PROVE PInv OBVIOUS
  <1> USE DEF Init
  <1>0. parts \in Nat BY DEF PeerSessionAssumption
  <1>1. PlacesOK BY <1>0 DEF PlacesOK
  <1>2. Asking BY DEF Asking
  <1>3. Serving BY DEF Serving
  <1>4. Listening BY DEF Listening, Matched
  <1>5. InStreams BY DEF InStreams, Matched
  <1> QED BY <1>1, <1>2, <1>3, <1>4, <1>5 DEF PInv

-----------------------------------------------------------------------------
(* The steps of the sender.                                                *)

\* The parameters are asked for: the receiver is still dispatching.
LEMMA RequestParamsPInv == PInv /\ RequestParams => PInv'
  <1> SUFFICES ASSUME PInv, RequestParams PROVE PInv' OBVIOUS
  <1> USE DEF PInv, PlacesOK, RequestParams
  <1>1. /\ rpc = "dispatch" /\ requests = <<>> /\ responses = <<>>
        /\ requests' = <<Parms>> /\ spc' = "parms"
        /\ UNCHANGED <<build, responses, listener, connected, to_receiver, to_sender,
                       rpc, parts, ans, package_count>>
    BY StreamMessages DEF Asking, Serving, Parms, stream, receiver
  <1>2. PlacesOK' BY <1>1
  <1>3. Asking' BY <1>1 DEF Asking
  <1>4. Serving' BY <1>1 DEF Serving
  <1>5. Listening' BY <1>1 DEF Listening, Matched
  <1>6. InStreams' BY <1>1 DEF InStreams, Matched
  <1> QED BY <1>2, <1>3, <1>4, <1>5, <1>6

\* The query is sent: the answer with the parameters was all there was.
LEMMA SendQueryPInv == PInv /\ SendQuery => PInv'
  <1> SUFFICES ASSUME PInv, SendQuery PROVE PInv' OBVIOUS
  <1> USE DEF PInv, PlacesOK, SendQuery
  <1>1. /\ rpc = "dispatch" /\ requests = <<>> /\ responses = <<Parms>>
        /\ spc = "parms" /\ spc' = "response"
        /\ requests' = <<Query>> /\ responses' = <<>>
        /\ UNCHANGED <<build, listener, connected, to_receiver, to_sender,
                       rpc, parts, ans, union, package_count>>
    BY StreamMessages DEF Asking, Serving, Query, stream, receiver
  <1>2. PlacesOK' BY <1>1 DEF PlacesOK
  <1>3. Asking' BY <1>1 DEF Asking
  <1>4. Serving' BY <1>1 DEF Serving
  <1>5. Listening' BY <1>1 DEF Listening, Matched
  <1>6. InStreams' BY <1>1 DEF InStreams, Matched
  <1> QED BY <1>2, <1>3, <1>4, <1>5, <1>6

\* The sender ends instead, and leaves nothing behind.
LEMMA QueryFailsPInv == PInv /\ QueryFails => PInv'
  <1> SUFFICES ASSUME PInv, QueryFails PROVE PInv' OBVIOUS
  <1> USE DEF PInv, PlacesOK, QueryFails
  <1>1. /\ rpc = "dispatch" /\ requests = <<>> /\ responses = <<Parms>>
        /\ spc = "parms" /\ spc' = "exited" /\ responses' = <<>>
        /\ UNCHANGED <<build, requests, listener, connected, to_receiver,
                       to_sender, rpc, parts, ans, union, package_count>>
    BY StreamMessages DEF Asking, Serving, stream, receiver
  <1>2. PlacesOK' BY <1>1 DEF PlacesOK
  <1>3. Asking' BY <1>1 DEF Asking
  <1>4. Serving' BY <1>1 DEF Serving
  <1>5. Listening' BY <1>1 DEF Listening, Matched
  <1>6. InStreams' BY <1>1 DEF InStreams, Matched
  <1> QED BY <1>2, <1>3, <1>4, <1>5, <1>6

\* The response says how many parts there are: those not yet received.
LEMMA ReceiveResponsePInv == PInv /\ ReceiveResponse => PInv'
  <1> SUFFICES ASSUME PInv, ReceiveResponse PROVE PInv' OBVIOUS
  <1> USE DEF PInv
  <1>1. /\ rpc # "dispatch" /\ spc = "response" /\ responses # <<>>
        /\ parts \in Nat /\ package_count \in Nat
    BY DEF Asking, PlacesOK, ReceiveResponse
  <1>2. /\ responses' = Tail(responses) /\ spc' = "collect"
        /\ package_count' = Head(responses).package_count
        /\ UNCHANGED <<build, requests, listener, connected, to_receiver,
                       to_sender, rpc, parts, ans, union>>
    BY DEF ReceiveResponse, stream, receiver
  <1>3. /\ package_count' \in Nat
        /\ package_count' + 1 = parts + Len(responses)
    BY <1>1, <1>2 DEF Serving
  <1>4. PICK S : responses \in Seq(S) BY <1>1 DEF Serving
  <1>5. /\ responses' \in Seq(S)
        /\ Len(responses) \in Nat /\ Len(responses') \in Nat
        /\ Len(responses') = Len(responses) - 1
    BY <1>1, <1>2, <1>4, ReceiveMessage
  <1>6. package_count' = parts + Len(responses')
    BY <1>1, <1>3, <1>5, OneFewer
  <1>7. PlacesOK' BY <1>1, <1>2, <1>3 DEF PlacesOK
  <1>8. Asking' BY <1>1, <1>2 DEF Asking
  <1>9. Serving' BY <1>1, <1>2, <1>5, <1>6 DEF Serving
  <1>10. Listening' BY <1>1, <1>2 DEF Listening, Matched
  <1>11. InStreams' BY <1>1, <1>2 DEF InStreams, Matched
  <1> QED BY <1>7, <1>8, <1>9, <1>10, <1>11

\* A part received is one less on the way and one less to come.
LEMMA ReceiveResultPInv == PInv /\ ReceiveResult => PInv'
  <1> SUFFICES ASSUME PInv, ReceiveResult PROVE PInv' OBVIOUS
  <1> USE DEF PInv
  <1>1. /\ rpc # "dispatch" /\ spc = "collect" /\ responses # <<>>
        /\ parts \in Nat /\ package_count \in Nat
    BY DEF Asking, PlacesOK, ReceiveResult
  <1>2. /\ responses' = Tail(responses)
        /\ package_count' = package_count - 1
        /\ UNCHANGED <<build, requests, listener, connected, to_receiver,
                       to_sender, rpc, parts, ans, union, spc>>
    BY DEF ReceiveResult, stream, receiver
  <1>3. /\ package_count' \in Nat
        /\ package_count' + 1 = parts + Len(responses)
    BY <1>1, <1>2 DEF Serving, ReceiveResult
  <1>4. PICK S : responses \in Seq(S) BY <1>1 DEF Serving
  <1>5. /\ responses' \in Seq(S)
        /\ Len(responses) \in Nat /\ Len(responses') \in Nat
        /\ Len(responses') = Len(responses) - 1
    BY <1>1, <1>2, <1>4, ReceiveMessage
  <1>6. package_count' = parts + Len(responses')
    BY <1>1, <1>3, <1>5, OneFewer
  <1>7. PlacesOK' BY <1>1, <1>2, <1>3 DEF PlacesOK
  <1>8. Asking' BY <1>1, <1>2 DEF Asking
  <1>9. Serving' BY <1>1, <1>2, <1>5, <1>6 DEF Serving
  <1>10. Listening' BY <1>1, <1>2 DEF Listening, Matched
  <1>11. InStreams' BY <1>1, <1>2 DEF InStreams, Matched
  <1> QED BY <1>7, <1>8, <1>9, <1>10, <1>11

\* The sender comes to connect with all parts taken: what it finds is a
\* receiver that does not listen yet, or one that waits to accept.
LEMMA ConnectFinds ==
  PInv /\ ConnectNetIO =>
    /\ parts = 0 /\ responses = <<>>
    /\ rpc = IF listener = "closed" THEN "fanout" ELSE "accept"
  <1> SUFFICES ASSUME PInv, ConnectNetIO
               PROVE  /\ parts = 0 /\ responses = <<>>
                      /\ rpc = IF listener = "closed" THEN "fanout"
                               ELSE "accept"
    OBVIOUS
  <1> USE DEF PInv, PlacesOK
  <1>1. rpc # "dispatch" /\ spc = "collect" /\ package_count = 0
    BY DEF Asking, ConnectNetIO, AllReceived
  <1>2. parts \in Nat /\ parts + Len(responses) = 0 BY <1>1 DEF Serving
  <1>3. PICK S : responses \in Seq(S) BY <1>1 DEF Serving
  <1>4. Len(responses) \in Nat /\ (Len(responses) = 0 => responses = <<>>)
    BY <1>3, NothingLeft
  <1> HIDE DEF PInv, PlacesOK
  <1>5. parts = 0 /\ Len(responses) = 0
    <2>1. ASSUME NEW p \in Nat, NEW n \in Nat, p + n = 0
          PROVE  p = 0 /\ n = 0
      BY <2>1
    <2> QED BY <1>2, <1>4, <2>1
  <1>6. rpc \notin {"peqt"} \cup Matched BY <1>1 DEF Listening, PInv
  <1>7. ~(parts > 0) BY <1>5
  <1>8. ~connected BY <1>1 DEF Listening, PInv
  <1>9. rpc # "threw" BY <1>7, <1>8 DEF Listening, PInv
  <1>10. rpc = IF listener = "closed" THEN "fanout" ELSE "accept"
    BY <1>1, <1>6, <1>9 DEF PInv, PlacesOK, Listening, Matched
  <1> QED BY <1>4, <1>5, <1>10

\* It is refused by the one and connected to the other.
LEMMA ConnectNetIOPInv == PInv /\ ConnectNetIO => PInv'
  <1> SUFFICES ASSUME PInv, ConnectNetIO PROVE PInv' OBVIOUS
  <1> USE DEF PInv, PlacesOK
  <1>1. /\ parts = 0 /\ package_count = 0 /\ spc = "collect"
        /\ rpc = IF listener = "closed" THEN "fanout" ELSE "accept"
        /\ spc' = IF listener = "closed" THEN "refused" ELSE "peqt"
        /\ connected' = IF listener = "closed" THEN connected ELSE TRUE
        /\ UNCHANGED <<build, requests, responses, listener, to_receiver,
                       to_sender, rpc, parts, ans, union, package_count>>
    BY ConnectFinds DEF ConnectNetIO, AllReceived, channel, receiver
  <1>2. PlacesOK' BY <1>1 DEF PlacesOK
  <1>3. Asking' BY <1>1 DEF Asking
  <1>4. Serving' BY <1>1 DEF Serving
  <1>5. Listening' BY <1>1 DEF Listening, Matched
  <1>6. InStreams' BY <1>1 DEF InStreams, Matched
  <1> QED BY <1>2, <1>3, <1>4, <1>5, <1>6

\* The masked X is taken and answered.
LEMMA PeqtSendPInv == PInv /\ PeqtSend => PInv'
  <1> SUFFICES ASSUME PInv, PeqtSend PROVE PInv' OBVIOUS
  <1> USE DEF PInv, PlacesOK
  <1>1. /\ rpc = "peqt" /\ spc = "peqt" /\ spc' = "flag"
        /\ to_sender' = <<>> /\ to_receiver' = Answers
        /\ UNCHANGED <<build, requests, responses, listener, connected, rpc,
                       parts, ans, union, package_count>>
    BY StreamMessages DEF InStreams, PeqtSend, channel, receiver
  <1>2. PlacesOK' BY <1>1 DEF PlacesOK
  <1>3. Asking' BY <1>1 DEF Asking
  <1>4. Serving' BY <1>1 DEF Serving
  <1>5. Listening' BY <1>1 DEF Listening, Matched
  <1>6. InStreams' BY <1>1 DEF InStreams, Matched
  <1> QED BY <1>2, <1>3, <1>4, <1>5, <1>6

\* A flag comes only from a receiver that goes on to port 58888.
LEMMA ReceiveFlagPInv == PInv /\ ReceiveFlag => PInv'
  <1> SUFFICES ASSUME PInv, ReceiveFlag PROVE PInv' OBVIOUS
  <1> USE DEF PInv, PlacesOK
  <1>1. /\ rpc = "accept 58888" /\ spc = "flag" /\ spc' = "ot"
        /\ to_sender' = <<>>
        /\ UNCHANGED <<build, requests, responses, listener, connected,
                       to_receiver, rpc, parts, ans, union, package_count>>
    BY StreamMessages DEF InStreams, ReceiveFlag, channel, receiver
  <1>2. PlacesOK' BY <1>1 DEF PlacesOK
  <1>3. Asking' BY <1>1 DEF Asking
  <1>4. Serving' BY <1>1 DEF Serving
  <1>5. Listening' BY <1>1 DEF Listening, Matched
  <1>6. InStreams' BY <1>1 DEF InStreams, Matched
  <1> QED BY <1>2, <1>3, <1>4, <1>5, <1>6

\* And that one listens with its NetIO server: there is no transfer.
LEMMA ResponseOTPInv == PInv /\ ResponseOT => PInv'
  <1> SUFFICES ASSUME PInv, ResponseOT PROVE PInv' OBVIOUS
  <1> USE DEF PInv, PlacesOK
  <1>1. /\ rpc = "accept 58888" /\ listener = "NetIO"
        /\ spc = "ot" /\ spc' = "backlog"
        /\ UNCHANGED <<build, requests, responses, listener, connected,
                       to_receiver, to_sender, rpc, parts, ans, union,
                       package_count>>
    BY DEF InStreams, Listening, ResponseOT, channel, stream
  <1>2. PlacesOK' BY <1>1 DEF PlacesOK
  <1>3. Asking' BY <1>1 DEF Asking
  <1>4. Serving' BY <1>1 DEF Serving
  <1>5. Listening' BY <1>1 DEF Listening, Matched
  <1>6. InStreams' BY <1>1 DEF InStreams, Matched
  <1> QED BY <1>2, <1>3, <1>4, <1>5, <1>6

-----------------------------------------------------------------------------
(* The steps of the receiver.                                              *)

\* The parameters are answered with; the sender waits for them.
LEMMA DispatchParmsPInv == PInv /\ DispatchParms => PInv'
  <1> SUFFICES ASSUME PInv, DispatchParms PROVE PInv' OBVIOUS
  <1> USE DEF PInv, PlacesOK
  <1>1. /\ rpc = "dispatch" /\ spc = "parms" /\ responses = <<>>
        /\ requests' = <<>> /\ responses' = <<Parms>>
        /\ UNCHANGED <<build, listener, connected, to_receiver, to_sender,
                       rpc, parts, ans, union, spc, package_count>>
    BY Kinds, StreamMessages
    DEF Asking, DispatchParms, NextRequest, Parms, stream, receiver, sender
  <1>2. PlacesOK' BY <1>1 DEF PlacesOK
  <1>3. Asking' BY <1>1 DEF Asking
  <1>4. Serving' BY <1>1 DEF Serving
  <1>5. Listening' BY <1>1 DEF Listening, Matched
  <1>6. InStreams' BY <1>1 DEF InStreams, Matched
  <1> QED BY <1>2, <1>3, <1>4, <1>5, <1>6

\* The response announces the parts, and none is sent yet.
LEMMA DispatchQueryPInv == PInv /\ DispatchQuery => PInv'
  <1> SUFFICES ASSUME PInv, DispatchQuery PROVE PInv' OBVIOUS
  <1> USE DEF PInv, PlacesOK
  <1> DEFINE response == [type |-> "response", package_count |-> PartCount]
  <1>1. /\ rpc = "dispatch" /\ spc = "response" /\ responses = <<>>
        /\ requests' = <<>> /\ responses' = <<response>> /\ rpc' = "fanout"
        /\ UNCHANGED <<build, listener, connected, to_receiver, to_sender,
                       parts, ans, union, spc, package_count>>
    BY Kinds, StreamMessages
    DEF Asking, DispatchQuery, NextRequest, stream, sender
  <1>2. response.package_count = parts BY DEF PartCount
  <1> HIDE DEF response
  <1>3. /\ responses' # <<>> /\ Head(responses') = response
        /\ Len(responses') = 1 /\ responses' \in Seq({response})
    BY <1>1
  <1>4. PlacesOK' BY <1>1 DEF PlacesOK
  <1>5. Asking' BY <1>1 DEF Asking
  <1>6. Serving' BY <1>1, <1>2, <1>3 DEF Serving
  <1>7. Listening' BY <1>1 DEF Listening, Matched
  <1>8. InStreams' BY <1>1 DEF InStreams, Matched
  <1> QED BY <1>4, <1>5, <1>6, <1>7, <1>8

\* A part sent is one less to be sent and one more on the way.
LEMMA SendResultPInv == PInv /\ SendResult => PInv'
  <1> SUFFICES ASSUME PInv, SendResult PROVE PInv' OBVIOUS
  <1> USE DEF PInv, PlacesOK
  <1> DEFINE part == [type |-> "part"]
  <1>1. /\ rpc = "fanout" /\ parts > 0 /\ parts' = parts - 1
        /\ responses' = Append(responses, part)
        /\ UNCHANGED <<build, requests, listener, connected, to_receiver,
                       to_sender, rpc, ans, union, spc, package_count>>
    BY DEF SendResult, stream, sender
  <1> HIDE DEF part
  <1>2. PICK S : responses \in Seq(S) BY <1>1 DEF Serving
  <1>3. /\ \E T : responses' \in Seq(T)
        /\ responses' # <<>>
        /\ Len(responses) \in Nat /\ Len(responses') = Len(responses) + 1
        /\ responses # <<>> => Head(responses') = Head(responses)
    BY <1>1, <1>2, AppendMessage
  <1>4. /\ parts' \in Nat
        /\ parts' + Len(responses') = parts + Len(responses)
    BY <1>1, <1>3
  <1>5. spc \in {"response", "collect"} BY <1>1, <1>3 DEF Serving
  <1>6. PlacesOK' BY <1>1, <1>4 DEF PlacesOK
  <1>7. Asking' BY <1>1 DEF Asking
  <1>8. Serving' BY <1>1, <1>3, <1>4, <1>5 DEF Serving
  <1>9. Listening' BY <1>1, <1>4 DEF Listening, Matched
  <1>10. InStreams' BY <1>1 DEF InStreams, Matched
  <1> QED BY <1>6, <1>7, <1>8, <1>9, <1>10

\* A task that throws leaves parts unsent, which the sender waits for.
LEMMA TaskThrowsPInv == PInv /\ TaskThrows => PInv'
  <1> SUFFICES ASSUME PInv, TaskThrows PROVE PInv' OBVIOUS
  <1> USE DEF PInv, PlacesOK
  <1>1. /\ rpc = "fanout" /\ rpc' = "threw" /\ parts > 0
        /\ UNCHANGED <<build, requests, responses, listener, connected,
                       to_receiver, to_sender, parts, ans, union, spc,
                       package_count>>
    BY DEF TaskThrows, channel, stream, sender
  <1>2. PlacesOK' BY <1>1 DEF PlacesOK
  <1>3. Asking' BY <1>1 DEF Asking
  <1>4. Serving' BY <1>1 DEF Serving
  <1>5. Listening' BY <1>1 DEF Listening, Matched
  <1>6. InStreams' BY <1>1 DEF InStreams, Listening, Matched
  <1> QED BY <1>2, <1>3, <1>4, <1>5, <1>6

\* The receiver listens when all parts are sent.
LEMMA ListenNetIOPInv == PInv /\ ListenNetIO => PInv'
  <1> SUFFICES ASSUME PInv, ListenNetIO PROVE PInv' OBVIOUS
  <1> USE DEF PInv, PlacesOK
  <1>1. /\ rpc = "fanout" /\ rpc' = "accept" /\ parts = 0 /\ listener' = "NetIO"
        /\ UNCHANGED <<build, requests, responses, connected, to_receiver,
                       to_sender, parts, ans, union, spc, package_count>>
    BY DEF ListenNetIO, channel, sender
  <1>2. PlacesOK' BY <1>1 DEF PlacesOK
  <1>3. Asking' BY <1>1 DEF Asking
  <1>4. Serving' BY <1>1 DEF Serving
  <1>5. Listening' BY <1>1 DEF Listening, Matched
  <1>6. InStreams' BY <1>1 DEF InStreams, Listening, Matched
  <1> QED BY <1>2, <1>3, <1>4, <1>5, <1>6

\* The sender, connected and not answered yet, is in the equality test.
LEMMA AcceptNetIOPInv == PInv /\ AcceptNetIO => PInv'
  <1> SUFFICES ASSUME PInv, AcceptNetIO PROVE PInv' OBVIOUS
  <1> USE DEF PInv, PlacesOK
  <1>1. /\ rpc = "accept" /\ rpc' = "peqt" /\ spc = "peqt"
        /\ to_sender' = <<"mask_X">>
        /\ UNCHANGED <<build, requests, responses, listener, connected,
                       to_receiver, parts, ans, union, spc, package_count>>
    BY StreamMessages DEF AcceptNetIO, InStreams, Listening, channel, sender
  <1>2. PlacesOK' BY <1>1 DEF PlacesOK
  <1>3. Asking' BY <1>1 DEF Asking
  <1>4. Serving' BY <1>1 DEF Serving
  <1>5. Listening' BY <1>1 DEF Listening, Matched
  <1>6. InStreams' BY <1>1 DEF InStreams, Matched
  <1> QED BY <1>2, <1>3, <1>4, <1>5, <1>6

\* Both answers are read, and nothing else was in the stream.
LEMMA PeqtReceivePInv == PInv /\ PeqtReceive => PInv'
  <1> SUFFICES ASSUME PInv, PeqtReceive PROVE PInv' OBVIOUS
  <1> USE DEF PInv, PlacesOK
  <1>1. /\ rpc = "peqt" /\ rpc' \in {"union", "transferred"} /\ spc = "flag"
        /\ to_receiver' = <<>> /\ ans' = TRUE
        /\ UNCHANGED <<build, requests, responses, listener, connected,
                       to_sender, parts, union, spc, package_count>>
    BY StreamMessages
    DEF PeqtReceive, AnswersRead, InStreams, channel, sender
  <1>2. PlacesOK' BY <1>1 DEF PlacesOK
  <1>3. Asking' BY <1>1 DEF Asking
  <1>4. Serving' BY <1>1 DEF Serving
  <1>5. Listening' BY <1>1 DEF Listening, Matched
  <1>6. InStreams' BY <1>1 DEF InStreams, Matched
  <1> QED BY <1>2, <1>3, <1>4, <1>5, <1>6

\* The second session on the port opens, or throws.
LEMMA RunOTPInv == PInv /\ RunOT => PInv'
  <1> SUFFICES ASSUME PInv, RunOT PROVE PInv' OBVIOUS
  <1> USE DEF PInv, PlacesOK
  <1>1. /\ rpc = "union" /\ spc = "flag"
        /\ \/ rpc' = "ot" /\ listener' = "session"
           \/ rpc' = "threw" /\ listener' = "closed"
        /\ UNCHANGED <<build, requests, responses, connected, to_receiver,
                       to_sender, parts, ans, union, spc, package_count>>
    BY DEF RunOT, InStreams, Listening, Matched, channel, sender
  <1>2. PlacesOK' BY <1>1 DEF PlacesOK
  <1>3. Asking' BY <1>1 DEF Asking
  <1>4. Serving' BY <1>1 DEF Serving
  <1>5. Listening' BY <1>1 DEF Listening, Matched
  <1>6. InStreams' BY <1>1 DEF InStreams, Matched
  <1> QED BY <1>2, <1>3, <1>4, <1>5, <1>6

\* The sender waits for the flag.
LEMMA SendFlagPInv == PInv /\ SendFlag => PInv'
  <1> SUFFICES ASSUME PInv, SendFlag PROVE PInv' OBVIOUS
  <1> USE DEF PInv, PlacesOK
  <1>1. /\ rpc = "transferred" /\ rpc' = "accept 58888" /\ spc = "flag"
        /\ to_sender' = <<"flag">>
        /\ UNCHANGED <<build, requests, responses, listener, connected,
                       to_receiver, parts, ans, union, spc, package_count>>
    BY StreamMessages
    DEF SendFlag, InStreams, Listening, Matched, channel, sender
  <1>2. PlacesOK' BY <1>1 DEF PlacesOK
  <1>3. Asking' BY <1>1 DEF Asking
  <1>4. Serving' BY <1>1 DEF Serving
  <1>5. Listening' BY <1>1 DEF Listening, Matched
  <1>6. InStreams' BY <1>1 DEF InStreams, Matched
  <1> QED BY <1>2, <1>3, <1>4, <1>5, <1>6

\* The sender waits for a flag that never comes.
LEMMA ReturnPInv == PInv /\ Return => PInv'
  <1> SUFFICES ASSUME PInv, Return PROVE PInv' OBVIOUS
  <1> USE DEF PInv, PlacesOK
  <1>1. /\ rpc = "transferred" /\ rpc' = "exited" /\ spc = "flag"
        /\ listener' = "closed"
        /\ UNCHANGED <<build, requests, responses, connected, to_receiver,
                       to_sender, parts, ans, union, spc, package_count>>
    BY DEF Return, InStreams, Listening, Matched, channel, sender
  <1>2. PlacesOK' BY <1>1 DEF PlacesOK
  <1>3. Asking' BY <1>1 DEF Asking
  <1>4. Serving' BY <1>1 DEF Serving
  <1>5. Listening' BY <1>1 DEF Listening, Matched
  <1>6. InStreams' BY <1>1 DEF InStreams, Matched
  <1> QED BY <1>2, <1>3, <1>4, <1>5, <1>6

-----------------------------------------------------------------------------

\* All steps, and those that are none.
LEMMA NextPInv == PInv /\ [Next]_vars => PInv'
  <1> SUFFICES ASSUME PInv, [Next]_vars PROVE PInv' OBVIOUS
  <1>1. CASE RequestParams BY <1>1, RequestParamsPInv
  <1>2. CASE SendQuery BY <1>2, SendQueryPInv
  <1>3. CASE QueryFails BY <1>3, QueryFailsPInv
  <1>4. CASE ReceiveResponse BY <1>4, ReceiveResponsePInv
  <1>5. CASE ReceiveResult BY <1>5, ReceiveResultPInv
  <1>6. CASE ConnectNetIO BY <1>6, ConnectNetIOPInv
  <1>7. CASE PeqtSend BY <1>7, PeqtSendPInv
  <1>8. CASE ReceiveFlag BY <1>8, ReceiveFlagPInv
  <1>9. CASE ResponseOT BY <1>9, ResponseOTPInv
  <1>10. CASE DispatchParms BY <1>10, DispatchParmsPInv
  <1>11. CASE DispatchQuery BY <1>11, DispatchQueryPInv
  <1>12. CASE SendResult BY <1>12, SendResultPInv
  <1>13. CASE TaskThrows BY <1>13, TaskThrowsPInv
  <1>14. CASE ListenNetIO BY <1>14, ListenNetIOPInv
  <1>15. CASE AcceptNetIO BY <1>15, AcceptNetIOPInv
  <1>16. CASE PeqtReceive BY <1>16, PeqtReceivePInv
  <1>17. CASE RunOT BY <1>17, RunOTPInv
  <1>18. CASE SendFlag BY <1>18, SendFlagPInv
  <1>19. CASE Return BY <1>19, ReturnPInv
  <1>20. CASE UNCHANGED vars
    <2> USE <1>20 DEF vars, channel, stream, receiver, sender, PInv
    <2>1. PlacesOK' BY DEF PlacesOK
    <2>2. Asking' BY DEF Asking
    <2>3. Serving' BY DEF Serving
    <2>4. Listening' BY DEF Listening
    <2>5. InStreams' BY DEF InStreams
    <2> QED BY <2>1, <2>2, <2>3, <2>4, <2>5
  <1> QED BY <1>1, <1>2, <1>3, <1>4, <1>5, <1>6, <1>7, <1>8, <1>9, <1>10,
             <1>11, <1>12, <1>13, <1>14, <1>15, <1>16, <1>17, <1>18, <1>19,
             <1>20
             DEF Next, SenderStep, ReceiverStep

(***************************************************************************)
(* Whoever reads from the NetIO stream of the equality test, which carries *)
(* bytes and no types, finds the message it expects; and the receiver ends *)
(* with the matches known and everything taken: in every build, for every  *)
(* number of result parts and in whatever order the two programs step.     *)
(***************************************************************************)
THEOREM InStep ==
  ASSUME PeerSessionAssumption
  PROVE  Spec => []StreamsInStep
  <1>1. PInv => StreamsInStep
    <2> SUFFICES ASSUME PInv PROVE StreamsInStep OBVIOUS
    <2> USE DEF PInv, InStreams
    <2>1. to_sender # <<>> =>
            Head(to_sender) = IF spc = "peqt" THEN "mask_X" ELSE "flag"
      BY StreamMessages
    <2>2. to_receiver # <<>> =>
            /\ rpc = "peqt"
            /\ to_receiver = <<"permuted_Y", "permuted_mask_X">>
      BY DEF Answers
    <2>3. ASSUME rpc \in {"exited", "accept 58888"}
          PROVE  /\ ans /\ package_count = 0 /\ responses = <<>>
                 /\ to_receiver = <<>>
      <3>1. ans /\ to_receiver = <<>> BY <2>3 DEF Matched
      <3>2. spc \notin {"response", "collect"}
        BY <2>3 DEF Listening, Matched
      <3>3. /\ package_count = 0 /\ package_count = parts + Len(responses)
            /\ parts = 0
        BY <2>3, <3>2 DEF Serving
      <3>4. PICK S : responses \in Seq(S) BY <2>3 DEF Serving
      <3>5. Len(responses) \in Nat /\ (Len(responses) = 0 => responses = <<>>)
        BY <3>4, NothingLeft
      <3>6. responses = <<>>
        <4> HIDE DEF PInv, InStreams
        <4>1. 0 = 0 + Len(responses) BY <3>3
        <4>2. Len(responses) = 0 BY <3>5, <4>1, NothingToCome
        <4> QED BY <3>5, <4>2
      <3> QED BY <3>1, <3>3, <3>6
    <2> QED BY <2>1, <2>2, <2>3 DEF StreamsInStep
  <1> QED BY <1>1, InitPInv, NextPInv, PTL DEF Spec

(***************************************************************************)
(* The sender's connect is refused in one window only: by a receiver that  *)
(* has sent its last part, which the sender has taken, and that does not   *)
(* listen yet; never by one that has listened, or whose task threw.        *)
(***************************************************************************)
THEOREM Refused ==
  ASSUME PeerSessionAssumption
  PROVE  Spec => RefusedInWindow
  <1>1. ASSUME PInv, [Next]_vars, spc # "refused", spc' = "refused"
        PROVE  parts = 0 /\ responses = <<>> /\ rpc = "fanout"
    <2>1. ConnectNetIO
      BY <1>1 DEF Next, SenderStep, ReceiverStep, vars, sender, RequestParams,
        SendQuery, QueryFails, ReceiveResponse, ReceiveResult, PeqtSend,
        ReceiveFlag, ResponseOT, DispatchParms, DispatchQuery, SendResult,
        TaskThrows, ListenNetIO, AcceptNetIO, PeqtReceive, RunOT, SendFlag,
        Return
    <2>2. listener = "closed" BY <1>1, <2>1 DEF ConnectNetIO
    <2> QED BY <1>1, <2>1, <2>2, ConnectFinds
  <1> QED BY <1>1, InitPInv, NextPInv, PTL DEF Spec, RefusedInWindow

-----------------------------------------------------------------------------
(***************************************************************************)
(* That what a party receives is what the other has sent, for all sizes of *)
(* points, buffers and kernel, however the stream is cut, and also when a  *)
(* party ends in the middle: NetIOSpec => []BytesArrive.                   *)
(*                                                                         *)
(* The scripts mirror each other, so that a byte's place in the stream     *)
(* says which message it is of.  What is ahead of a party, what is on its  *)
(* way and what its peer has not flushed follow one another in the stream, *)
(* and are all that was sent and not taken.  A party that is to send has   *)
(* taken all that its peer can have sent by then: nothing can be ahead.    *)
(*                                                                         *)
(* All this is of a receiver's first query, as receiver_cli makes no other *)
(* (for a second one the sizes of the scripts differ).                     *)
(***************************************************************************)

Size == PointLen * Points
Byte == {"mask_X", "permuted_Y", "permuted_mask_X", "flag"} \X Nat

\* The n-th byte that p sends.
ByteAt(p, n) ==
  IF n <= Size THEN <<IF p = "server" THEN "mask_X" ELSE "permuted_Y", n>>
  ELSE <<IF p = "server" THEN "flag" ELSE "permuted_mask_X", n - Size>>

\* How many bytes p sends in the steps before k.
Before(p, k) ==
  IF p = "server"
  THEN IF k = 1 THEN 0 ELSE IF k < 5 THEN Size ELSE Size + FlagLen
  ELSE IF k <= 2 THEN 0 ELSE IF k = 3 THEN Size ELSE Size + Size

Sends(p, k) == IF p = "server" THEN k \in {1, 4} ELSE k \in {2, 3}
Receives(p, k) == IF p = "server" THEN k \in {2, 3} ELSE k \in {1, 4}

Written(p) == Before(p, pos[p]) + IF Sends(p, pos[p]) THEN have[p] ELSE 0
Taken(p) == Before(Peer(p), pos[p]) + IF Receives(p, pos[p]) THEN have[p] ELSE 0

Typed ==
  /\ pc \in [Party -> {"new", "up", "exit", "closed", "killed", "aborted", "reported"}]
  /\ pos \in [Party -> 1 .. 5] /\ have \in [Party -> Nat]
  /\ \A p \in Party : have[p] <= IF pos[p] = 5 THEN 0 ELSE Step(p).len
  /\ unsent \in [Party -> Seq(Byte)]
  /\ ahead \in [Party -> Seq(Byte)]
  /\ net \in [Party -> Seq(Byte)]
  /\ got \in [Party -> [1 .. 4 -> Seq(Byte)]]

\* What is ahead, a, and on its way, n, after the first t of w bytes from p.
Arrived(p, t, a, n, w) ==
  /\ \A i \in 1 .. Len(a) : a[i] = ByteAt(p, t + i)
  /\ \A i \in 1 .. Len(n) : n[i] = ByteAt(p, t + Len(a) + i)
  /\ t + Len(a) + Len(n) <= w

\* What p has not flushed, u, is the rest of the w bytes.
Rest(p, t, a, n, u, w) ==
  /\ t + Len(a) + Len(n) + Len(u) = w
  /\ \A i \in 1 .. Len(u) : u[i] = ByteAt(p, t + Len(a) + Len(n) + i)

\* From p to q.
Piped(p, q) ==
  /\ Arrived(p, Taken(q), ahead[q], net[q], Written(p))
  /\ ~Gone(p) => Rest(p, Taken(q), ahead[q], net[q], unsent[p], Written(p))

\* The FILE of a party has input only while it receives, and output only while
\* it sends.
Switched(p) ==
  /\ ~Receives(p, pos[p]) => ahead[p] = <<>>
  /\ ~Gone(p) /\ unsent[p] # <<>> => Doing(p, "send")
  /\ pc[p] = "closed" => pos[p] = 5 /\ unsent[p] = <<>>

\* The messages of the steps p is past are there, and of the one it is at what
\* it has taken.
Gotten(p) ==
  \A k \in 1 .. 4 : Receives(p, k) =>
    /\ k < pos[p] => Len(got[p][k]) = Script(p)[k].len
    /\ k = pos[p] => Len(got[p][k]) = have[p]
    /\ k > pos[p] => got[p][k] = <<>>
    /\ \A i \in 1 .. Len(got[p][k]) : got[p][k][i] = <<Script(p)[k].msg, i>>

NInv ==
  /\ Typed
  /\ \A p \in Party : Switched(p) /\ Gotten(p)
  /\ \A p, q \in Party : p # q => Piped(p, q)

-----------------------------------------------------------------------------
(* The stream, whoever writes or reads it.                                 *)

LEMMA PipeWrite ==
  ASSUME NEW p, NEW t \in Nat, NEW w \in Nat,
         NEW a \in Seq(Byte), NEW n \in Seq(Byte), NEW u \in Seq(Byte), NEW v \in Seq(Byte),
         Arrived(p, t, a, n, w), Rest(p, t, a, n, u, w),
         \A i \in 1 .. Len(v) : v[i] = ByteAt(p, w + i)
  PROVE  Arrived(p, t, a, n, w + Len(v)) /\ Rest(p, t, a, n, u \o v, w + Len(v))
  <1> DEFINE b == t + Len(a) + Len(n)
             lu == Len(u)
             lv == Len(v)
             uv == u \o v
  <1>1. b \in Nat /\ lu \in Nat /\ lv \in Nat BY LenProperties
  <1>2. b + lu = w /\ \A i \in 1 .. lu : u[i] = ByteAt(p, b + i) BY DEF Rest
  <1>3. /\ Len(uv) = lu + lv
        /\ \A i \in 1 .. lu + lv : uv[i] = IF i <= lu THEN u[i] ELSE v[i - lu]
    BY ConcatProperties
  <1>4. \A i \in 1 .. lv : v[i] = ByteAt(p, w + i) OBVIOUS
  <1> HIDE DEF b, lu, lv, uv
  <1>5. \A i \in 1 .. Len(uv) : uv[i] = ByteAt(p, b + i)
    <2> SUFFICES ASSUME NEW i \in 1 .. lu + lv PROVE uv[i] = ByteAt(p, b + i) BY <1>3
    <2>1. CASE i <= lu
      <3>1. i \in 1 .. lu /\ uv[i] = u[i] BY <1>1, <1>3, <2>1
      <3>2. u[i] = ByteAt(p, b + i) BY <1>2, <3>1
      <3> QED BY <3>1, <3>2
    <2>2. CASE ~(i <= lu)
      <3>1. i - lu \in 1 .. lv /\ w + (i - lu) = b + i BY <1>1, <1>2, <2>2
      <3>2. v[i - lu] = ByteAt(p, w + (i - lu)) BY <1>4, <3>1
      <3> QED BY <1>3, <2>2, <3>1, <3>2
    <2> QED BY <2>1, <2>2
  <1>6. b + Len(uv) = w + lv BY <1>1, <1>2, <1>3
  <1>7. b <= w + lv BY <1>1, <1>2
  <1> QED BY <1>5, <1>6, <1>7 DEF Arrived, Rest, b, lv, uv

LEMMA PipePush ==
  ASSUME NEW p, NEW t \in Nat, NEW w \in Nat,
         NEW a \in Seq(Byte), NEW n \in Seq(Byte), NEW u \in Seq(Byte), u # <<>>,
         Arrived(p, t, a, n, w), Rest(p, t, a, n, u, w)
  PROVE  /\ Append(n, Head(u)) \in Seq(Byte) /\ Tail(u) \in Seq(Byte)
         /\ Arrived(p, t, a, Append(n, Head(u)), w)
         /\ Rest(p, t, a, Append(n, Head(u)), Tail(u), w)
  <1> DEFINE m == Append(n, Head(u))
             b == t + Len(a)
  <1>1. b \in Nat /\ Len(u) \in Nat \ {0} /\ Len(n) \in Nat BY LenProperties, EmptySeq
  <1>11. b + Len(n) + Len(u) = w BY DEF Rest
  <1>2. /\ \A i \in 1 .. Len(n) : n[i] = ByteAt(p, b + i)
        /\ \A i \in 1 .. Len(u) : u[i] = ByteAt(p, b + Len(n) + i)
        /\ \A i \in 1 .. Len(a) : a[i] = ByteAt(p, t + i)
    BY DEF Arrived, Rest
  <1>3. Head(u) = u[1] /\ Head(u) \in Byte BY HeadTailProperties
  <1>4. /\ m \in Seq(Byte) /\ Len(m) = Len(n) + 1
        /\ \A i \in 1 .. Len(n) : m[i] = n[i]
        /\ m[Len(n) + 1] = u[1]
    BY <1>3, AppendProperties
  <1>5. /\ Tail(u) \in Seq(Byte) /\ Len(Tail(u)) = Len(u) - 1
        /\ \A i \in 1 .. Len(Tail(u)) : Tail(u)[i] = u[i + 1]
    BY HeadTailProperties
  <1> HIDE DEF m, b
  <1>6. \A i \in 1 .. Len(m) : m[i] = ByteAt(p, b + i)
    <2> SUFFICES ASSUME NEW i \in 1 .. Len(m) PROVE m[i] = ByteAt(p, b + i) OBVIOUS
    <2>1. b + Len(n) + 1 = b + (Len(n) + 1) BY <1>1
    <2>2. u[1] = ByteAt(p, b + Len(n) + 1) BY <1>1, <1>2
    <2>3. CASE i = Len(n) + 1 BY <1>4, <2>1, <2>2, <2>3
    <2>4. CASE i # Len(n) + 1
      <3>1. i \in 1 .. Len(n) BY <1>1, <1>4, <2>4
      <3> QED BY <1>2, <1>4, <3>1
    <2> QED BY <2>3, <2>4
  <1>7. \A i \in 1 .. Len(Tail(u)) : Tail(u)[i] = ByteAt(p, b + Len(m) + i)
    <2> SUFFICES ASSUME NEW i \in 1 .. Len(Tail(u))
                 PROVE  Tail(u)[i] = ByteAt(p, b + Len(m) + i)
      OBVIOUS
    <2>1. i + 1 \in 1 .. Len(u) /\ b + Len(n) + (i + 1) = b + Len(m) + i BY <1>1, <1>4, <1>5
    <2> QED BY <1>2, <1>5, <2>1
  <1>8. b + Len(m) + Len(Tail(u)) = w /\ b + Len(m) <= w
    <2>1. Len(m) = Len(n) + 1 /\ Len(Tail(u)) = Len(u) - 1 BY <1>4, <1>5
    <2> QED BY <1>1, <1>11, <2>1
  <1>9. Arrived(p, t, a, m, w) BY <1>2, <1>6, <1>8 DEF Arrived, b
  <1>10. Rest(p, t, a, m, Tail(u), w) BY <1>7, <1>8 DEF Rest, b
  <1> QED BY <1>4, <1>5, <1>9, <1>10 DEF m

LEMMA PipeFill ==
  ASSUME NEW p, NEW t \in Nat, NEW w \in Nat,
         NEW n \in Seq(Byte), NEW len \in 1 .. Len(n), Arrived(p, t, <<>>, n, w)
  PROVE  /\ SubSeq(n, 1, len) \in Seq(Byte) /\ SubSeq(n, len + 1, Len(n)) \in Seq(Byte)
         /\ Arrived(p, t, SubSeq(n, 1, len), SubSeq(n, len + 1, Len(n)), w)
         /\ \A u : Rest(p, t, <<>>, n, u, w)
                     => Rest(p, t, SubSeq(n, 1, len), SubSeq(n, len + 1, Len(n)), u, w)
  <1> DEFINE a == SubSeq(n, 1, len)
             m == SubSeq(n, len + 1, Len(n))
  <1>1. Len(n) \in Nat /\ len \in Nat /\ len >= 1 /\ len <= Len(n) /\ Len(<<>>) = 0
    BY LenProperties, EmptySeq
  <1>2. \A i \in 1 .. Len(n) : n[i] = ByteAt(p, t + i) BY <1>1 DEF Arrived
  <1>3. t + Len(n) <= w BY <1>1 DEF Arrived
  <1>4. a \in Seq(Byte) /\ Len(a) = len /\ \A i \in 1 .. len : a[i] = n[i]
    <2>1. \A i \in 1 .. len : n[i] \in Byte BY <1>1, ElementOfSeq
    <2> QED BY <1>1, <2>1, SubSeqProperties
  <1>5. /\ m \in Seq(Byte) /\ Len(m) = Len(n) - len
        /\ \A i \in 1 .. Len(n) - len : m[i] = n[len + i]
    <2>1. \A i \in len + 1 .. Len(n) : n[i] \in Byte BY <1>1, ElementOfSeq
    <2>2. /\ m \in Seq(Byte)
          /\ Len(m) = IF len + 1 <= Len(n) THEN Len(n) - (len + 1) + 1 ELSE 0
          /\ \A i \in 1 .. Len(n) - (len + 1) + 1 : m[i] = n[(len + 1) + i - 1]
      BY <1>1, <2>1, SubSeqProperties
    <2> QED BY <1>1, <2>2
  <1> HIDE DEF a, m
  <1>6. \A i \in 1 .. Len(a) : a[i] = ByteAt(p, t + i)
    <2> SUFFICES ASSUME NEW i \in 1 .. Len(a) PROVE a[i] = ByteAt(p, t + i) OBVIOUS
    <2>1. i \in 1 .. len /\ i \in 1 .. Len(n) BY <1>1, <1>4
    <2> QED BY <1>2, <1>4, <2>1
  <1>7. \A i \in 1 .. Len(m) : m[i] = ByteAt(p, t + Len(a) + i)
    <2> SUFFICES ASSUME NEW i \in 1 .. Len(m) PROVE m[i] = ByteAt(p, t + Len(a) + i)
      OBVIOUS
    <2>1. len + i \in 1 .. Len(n) /\ t + (len + i) = t + Len(a) + i BY <1>1, <1>4, <1>5
    <2> QED BY <1>2, <1>5, <2>1
  <1>8. t + Len(a) + Len(m) = t + Len(<<>>) + Len(n) BY <1>1, <1>4, <1>5
  <1>9. Arrived(p, t, a, m, w) BY <1>1, <1>3, <1>6, <1>7, <1>8 DEF Arrived
  <1>10. \A u : Rest(p, t, <<>>, n, u, w) => Rest(p, t, a, m, u, w) BY <1>8 DEF Rest
  <1> QED BY <1>4, <1>5, <1>9, <1>10 DEF a, m

LEMMA PipeTake ==
  ASSUME NEW p, NEW t \in Nat, NEW w \in Nat,
         NEW a \in Seq(Byte), NEW n \in Seq(Byte), NEW len \in 1 .. Len(a),
         Arrived(p, t, a, n, w)
  PROVE  /\ SubSeq(a, len + 1, Len(a)) \in Seq(Byte)
         /\ Arrived(p, t + len, SubSeq(a, len + 1, Len(a)), n, w)
         /\ \A u : Rest(p, t, a, n, u, w)
                     => Rest(p, t + len, SubSeq(a, len + 1, Len(a)), n, u, w)
  <1> DEFINE m == SubSeq(a, len + 1, Len(a))
  <1>1. Len(a) \in Nat /\ len \in Nat /\ len <= Len(a) /\ Len(n) \in Nat BY LenProperties
  <1>2. /\ m \in Seq(Byte) /\ Len(m) = Len(a) - len
        /\ \A i \in 1 .. Len(a) - len : m[i] = a[len + i]
    <2>1. \A i \in len + 1 .. Len(a) : a[i] \in Byte BY <1>1, ElementOfSeq
    <2>2. /\ m \in Seq(Byte)
          /\ Len(m) = IF len + 1 <= Len(a) THEN Len(a) - (len + 1) + 1 ELSE 0
          /\ \A i \in 1 .. Len(a) - (len + 1) + 1 : m[i] = a[(len + 1) + i - 1]
      BY <1>1, <2>1, SubSeqProperties
    <2>3. Len(m) = Len(a) - len BY <1>1, <2>2
    <2>4. ASSUME NEW i \in 1 .. Len(a) - len PROVE m[i] = a[len + i]
      <3>1. i \in 1 .. Len(a) - (len + 1) + 1 /\ (len + 1) + i - 1 = len + i BY <1>1
      <3> QED BY <2>2, <3>1
    <2> QED BY <2>2, <2>3, <2>4
  <1> HIDE DEF m
  <1>3. \A i \in 1 .. Len(m) : m[i] = ByteAt(p, t + len + i)
    <2> SUFFICES ASSUME NEW i \in 1 .. Len(m) PROVE m[i] = ByteAt(p, t + len + i)
      OBVIOUS
    <2>1. len + i \in 1 .. Len(a) /\ t + (len + i) = t + len + i BY <1>1, <1>2
    <2> QED BY <1>2, <2>1 DEF Arrived
  <1>4. t + len + Len(m) = t + Len(a) BY <1>1, <1>2
  <1>5. Arrived(p, t + len, m, n, w) BY <1>3, <1>4 DEF Arrived
  <1>6. \A u : Rest(p, t, a, n, u, w) => Rest(p, t + len, m, n, u, w) BY <1>4 DEF Rest
  <1> QED BY <1>2, <1>5, <1>6 DEF m

\* What is lost on its way is the end of what arrives.
LEMMA PipeCut ==
  ASSUME NEW p, NEW t \in Nat, NEW w \in Nat,
         NEW a \in Seq(Byte), NEW n \in Seq(Byte), Arrived(p, t, a, n, w)
  PROVE  Arrived(p, t, a, <<>>, w)
  <1>1. Len(a) \in Nat /\ Len(n) \in Nat /\ Len(<<>>) = 0 BY LenProperties, EmptySeq
  <1> QED BY <1>1 DEF Arrived

\* What a party got stays the same when it does not move.
LEMMA SameGotten ==
  ASSUME NEW p, Gotten(p), got'[p] = got[p], have'[p] = have[p], pos'[p] = pos[p]
  PROVE  Gotten(p)'
  BY DEF Gotten

LEMMA MinOfTwo ==
  ASSUME NEW x \in Nat, NEW y \in Nat
  PROVE  Min({x, y}) \in {x, y} /\ Min({x, y}) \in Nat /\ Min({x, y}) <= x /\ Min({x, y}) <= y
  BY DEF Min

-----------------------------------------------------------------------------
(* The scripts.                                                            *)

LEMMA Sizes ==
  ASSUME NetIOAssumption
  PROVE  Size \in Nat \ {0} /\ FlagLen \in Nat \ {0} /\ BufferSize \in Nat \ {0}
  <1>1. PointLen \in Nat \ {0} /\ Points \in Nat \ {0} BY DEF NetIOAssumption
  <1>2. \A x, y \in Nat \ {0} : x * y \in Nat \ {0} OBVIOUS
  <1> QED BY <1>1, <1>2 DEF NetIOAssumption, Size

LEMMA Scripts ==
  ASSUME NetIOAssumption, QueriesServed = 1, NEW p \in Party
  PROVE  /\ Len(Script(p)) = 4
         /\ Peer(p) \in Party /\ Peer(Peer(p)) = p
         /\ \A k \in 1 .. 4 :
              /\ Script(p)[k].op = IF Sends(p, k) THEN "send" ELSE "receive"
              /\ Script(p)[k].len = IF k = 4 THEN FlagLen ELSE Size
              /\ Script(p)[k].msg = << "mask_X", "permuted_Y", "permuted_mask_X", "flag" >>[k]
              /\ Sends(p, k) <=> ~Receives(p, k)
              /\ Sends(p, k) <=> Receives(Peer(p), k)
         /\ ~Sends(p, 5) /\ ~Receives(p, 5)
  <1>1. Matrix(p) = Size
    <2>1. PointLen \in Nat /\ Points \in Nat BY DEF NetIOAssumption
    <2>2. \A x, y \in Nat : x * y * 1 = x * y OBVIOUS
    <2> QED BY <2>1, <2>2 DEF Matrix, Size
  <1>2. CASE p = "server"
    <2>1. Script(p) = << Send("mask_X", Size), Receive("permuted_Y", Size),
                         Receive("permuted_mask_X", Size), Send("flag", FlagLen) >>
      BY <1>1, <1>2 DEF Script
    <2> QED BY <1>2, <2>1 DEF Send, Receive, Sends, Receives, Peer, Party
  <1>3. CASE p = "client"
    <2>1. Script(p) = << Receive("mask_X", Size), Send("permuted_Y", Size),
                         Send("permuted_mask_X", Size), Receive("flag", FlagLen) >>
      BY <1>1, <1>3 DEF Script
    <2> QED BY <1>3, <2>1 DEF Send, Receive, Sends, Receives, Peer, Party
  <1> QED BY <1>2, <1>3 DEF Party

\* The bytes of a step follow those of the steps before.
LEMMA BytesOfStep ==
  ASSUME NetIOAssumption, QueriesServed = 1, NEW p \in Party, NEW k \in 1 .. 4
  PROVE  /\ Before(p, k) \in Nat /\ Before(p, k + 1) \in Nat
         /\ Before(p, k + 1) = Before(p, k) + IF Sends(p, k) THEN Script(p)[k].len ELSE 0
         /\ Sends(p, k) => \A i \in 1 .. Script(p)[k].len :
              ByteAt(p, Before(p, k) + i) = <<Script(p)[k].msg, i>>
  <1> DEFINE len == Script(p)[k].len
             msg == Script(p)[k].msg
  <1>1. /\ len = IF k = 4 THEN FlagLen ELSE Size
        /\ msg = << "mask_X", "permuted_Y", "permuted_mask_X", "flag" >>[k]
    BY Scripts
  <1>2. Size \in Nat \ {0} /\ FlagLen \in Nat \ {0} BY Sizes
  <1> HIDE DEF len, msg
  <1>3. /\ Before(p, k) \in Nat /\ Before(p, k + 1) \in Nat
        /\ Before(p, k + 1) = Before(p, k) + IF Sends(p, k) THEN len ELSE 0
    <2>1. CASE p = "server"
      <3>1. CASE k = 1 BY <1>1, <1>2, <2>1, <3>1 DEF Before, Sends
      <3>2. CASE k \in {2, 3} BY <1>1, <1>2, <2>1, <3>2 DEF Before, Sends
      <3>3. CASE k = 4 BY <1>1, <1>2, <2>1, <3>3 DEF Before, Sends
      <3> QED BY <3>1, <3>2, <3>3
    <2>2. CASE p = "client"
      <3>1. CASE k \in {1, 4} BY <1>1, <1>2, <2>2, <3>1 DEF Before, Sends
      <3>2. CASE k = 2 BY <1>1, <1>2, <2>2, <3>2 DEF Before, Sends
      <3>3. CASE k = 3 BY <1>1, <1>2, <2>2, <3>3 DEF Before, Sends
      <3> QED BY <3>1, <3>2, <3>3
    <2> QED BY <2>1, <2>2 DEF Party
  <1>4. ASSUME Sends(p, k), NEW i \in 1 .. len
        PROVE  ByteAt(p, Before(p, k) + i) = <<msg, i>>
    <2>1. i \in Nat \ {0} /\ i <= len BY <1>1, <1>2
    <2>2. CASE p = "server" /\ k = 1
      <3>1. msg = "mask_X" /\ Before(p, k) + i = i /\ i <= Size
        BY <1>1, <2>1, <2>2 DEF Before
      <3> QED BY <2>2, <3>1 DEF ByteAt
    <2>3. CASE p = "server" /\ k = 4
      <3>1. msg = "flag" BY <1>1, <2>3
      <3>2. PICK n \in Nat : Before(p, k) + i = n /\ ~(n <= Size) /\ n - Size = i
        BY <1>2, <2>1, <2>3 DEF Before
      <3>3. ByteAt(p, n) = <<msg, n - Size>> BY <2>3, <3>1, <3>2 DEF ByteAt
      <3> QED BY <3>2, <3>3
    <2>4. CASE p # "server" /\ k = 2
      <3>1. msg = "permuted_Y" BY <1>1, <2>4
      <3>2. Before(p, k) + i = i /\ i <= Size BY <1>1, <2>1, <2>4 DEF Before
      <3> QED BY <2>4, <3>1, <3>2 DEF ByteAt
    <2>5. CASE p # "server" /\ k = 3
      <3>1. msg = "permuted_mask_X" BY <1>1, <2>5
      <3>2. PICK n \in Nat : Before(p, k) + i = n /\ ~(n <= Size) /\ n - Size = i
        BY <1>2, <2>1, <2>5 DEF Before
      <3>3. ByteAt(p, n) = <<msg, n - Size>> BY <2>5, <3>1, <3>2 DEF ByteAt
      <3> QED BY <3>2, <3>3
    <2> QED BY <1>4, <2>2, <2>3, <2>4, <2>5 DEF Sends
  <1> QED BY <1>3, <1>4 DEF len, msg

-----------------------------------------------------------------------------
(* The steps.                                                              *)

\* Two parties and what they are at, for the lemmas that follow.
Pair(p, q) == p \in Party /\ q \in Party /\ p # q

LEMMA PairFacts ==
  ASSUME NetIOAssumption, QueriesServed = 1, NEW p, NEW q, Pair(p, q)
  PROVE  /\ p \in Party /\ q \in Party /\ Peer(p) = q /\ Peer(q) = p
         /\ \A r \in Party : r = p \/ r = q
         /\ \A k \in 1 .. 4 : Receives(q, k) <=> Sends(p, k)
  <1>1. p \in Party /\ q \in Party /\ Peer(p) = q /\ Peer(q) = p
    BY DEF Pair, Party, Peer
  <1>2. \A r \in Party : r = p \/ r = q BY DEF Pair, Party
  <1>3. \A k \in 1 .. 4 : Receives(q, k) <=> Sends(p, k) BY <1>1, Scripts
  <1> QED BY <1>1, <1>2, <1>3

LEMMA AtStep ==
  ASSUME NetIOAssumption, QueriesServed = 1, Typed, NEW p \in Party
  PROVE  /\ pos[p] \in 1 .. 5 /\ have[p] \in Nat
         /\ Written(p) \in Nat /\ Taken(p) \in Nat
         /\ Doing(p, "send") => pc[p] = "up" /\ pos[p] \in 1 .. 4 /\ Sends(p, pos[p])
         /\ Doing(p, "receive") => pc[p] = "up" /\ pos[p] \in 1 .. 4 /\ Receives(p, pos[p])
         /\ pc[p] = "up" /\ Sends(p, pos[p]) => Doing(p, "send")
  <1>1. pos[p] \in 1 .. 5 /\ have[p] \in Nat BY DEF Typed
  <1>2. Size \in Nat /\ FlagLen \in Nat BY Sizes
  <1>3. \A r \in Party, k \in 1 .. 5 : Before(r, k) \in Nat
    BY <1>2 DEF Before
  <1>4. Peer(p) \in Party BY DEF Party, Peer
  <1>5. Written(p) \in Nat /\ Taken(p) \in Nat BY <1>1, <1>3, <1>4 DEF Written, Taken
  <1>6. Doing(p, "send") => pc[p] = "up" /\ pos[p] \in 1 .. 4 /\ Sends(p, pos[p])
    BY <1>1, Scripts DEF Doing, Step
  <1>7. Doing(p, "receive") => pc[p] = "up" /\ pos[p] \in 1 .. 4 /\ Receives(p, pos[p])
    BY <1>1, Scripts DEF Doing, Step
  <1>8. pc[p] = "up" /\ Sends(p, pos[p]) => Doing(p, "send")
    <2>1. Sends(p, pos[p]) => pos[p] \in 1 .. 4 BY <1>1, Scripts
    <2> QED BY <2>1, Scripts DEF Doing, Step
  <1> QED BY <1>1, <1>5, <1>6, <1>7, <1>8

LEMMA InitNInv ==
  ASSUME NetIOAssumption, QueriesServed = 1, NetIOInit
  PROVE  NInv
  <1> USE DEF NetIOInit
  <1>1. \A p \in Party : Len(Script(p)) = 4 /\ 1 \in 1 .. 4 /\ Step(p).len \in Nat
    BY Scripts, Sizes DEF Step
  <1>2. <<>> \in Seq(Byte) /\ Len(<<>>) = 0 BY EmptySeq
  <1>3. Typed
    <2>1. got \in [Party -> [1 .. 4 -> Seq(Byte)]] BY <1>1, <1>2
    <2> QED BY <1>1, <1>2, <2>1 DEF Typed
  <1>4. \A p \in Party : Switched(p) BY DEF Switched
  <1>5. \A p \in Party : Gotten(p)
    <2>1. \A p \in Party, k \in 1 .. 4 : got[p][k] = <<>> BY <1>1
    <2> QED BY <1>2, <2>1 DEF Gotten
  <1>6. \A p, q \in Party : Piped(p, q)
    <2>1. \A p \in Party : Written(p) = 0 /\ Taken(p) = 0
      BY DEF Written, Taken, Before
    <2> QED BY <1>2, <2>1 DEF Piped, Arrived, Rest
  <1> QED BY <1>3, <1>4, <1>5, <1>6 DEF NInv

\* A party connects, or ends; then what is on its way to its peer may be lost.
LEMMA ComesOrGoes ==
  ASSUME NetIOAssumption, QueriesServed = 1, NInv, NEW p, NEW q, Pair(p, q), ~Gone(p),
         NEW to \in {"up", "exit", "closed", "killed", "aborted"},
         pc' = [pc EXCEPT ![p] = to],
         to = "closed" => pos[p] = 5,
         net' = net \/ (to # "up" /\ net' = [net EXCEPT ![q] = <<>>]),
         UNCHANGED <<unsent, ahead, pos, have, got>>
  PROVE  NInv'
  <1>1. /\ Typed /\ Switched(p) /\ Switched(q) /\ Gotten(p) /\ Gotten(q)
        /\ Piped(p, q) /\ Piped(q, p)
        /\ p \in Party /\ q \in Party /\ p # q
    BY DEF NInv, Pair
  <1>2. pc'[p] = to /\ pc'[q] = pc[q] BY <1>1 DEF Typed
  <1>3. Typed'
    <2>1. net' \in [Party -> Seq(Byte)]
      <3>1. <<>> \in Seq(Byte) /\ net \in [Party -> Seq(Byte)] BY <1>1, EmptySeq DEF Typed
      <3> QED BY <3>1
    <2>2. pc' \in [Party -> {"new", "up", "exit", "closed", "killed", "aborted", "reported"}]
      BY <1>1 DEF Typed
    <2> QED BY <1>1, <2>1, <2>2 DEF Typed, Step
  <1>4. /\ Written(p)' = Written(p) /\ Written(q)' = Written(q)
        /\ Taken(p)' = Taken(p) /\ Taken(q)' = Taken(q)
    BY DEF Written, Taken
  <1>5. Switched(p)'
    <2>1. unsent[p] # <<>> => pc[p] = "up" /\ pos[p] # 5
      BY <1>1, AtStep DEF Switched, Doing, Gone
    <2>2. Doing(p, "send") /\ to = "up" => Doing(p, "send")'
      BY <1>2 DEF Doing, Step
    <2>3. unsent[p] # <<>> => Doing(p, "send") BY <1>1 DEF Switched
    <2> QED BY <1>1, <1>2, <2>1, <2>2, <2>3 DEF Switched, Gone
  <1>6. Switched(q)' BY <1>1, <1>2 DEF Switched, Gone, Doing, Step
  <1>7. Gotten(p)' /\ Gotten(q)' BY <1>1 DEF Gotten
  <1>8. Piped(q, p)'
    <2>1. net'[p] = net[p] BY <1>1 DEF Typed
    <2> QED BY <1>1, <1>2, <1>4, <2>1 DEF Piped, Gone
  <1>9. Piped(p, q)'
    <2>1. CASE net' = net BY <1>1, <1>2, <1>4, <2>1 DEF Piped, Gone
    <2>2. CASE to # "up" /\ net' = [net EXCEPT ![q] = <<>>]
      <3>1. Written(p) \in Nat /\ Taken(q) \in Nat BY <1>1, AtStep
      <3>2. ahead[q] \in Seq(Byte) /\ net[q] \in Seq(Byte) BY <1>1 DEF Typed
      <3>3. Arrived(p, Taken(q), ahead[q], net[q], Written(p)) BY <1>1 DEF Piped
      <3>4. Arrived(p, Taken(q), ahead[q], <<>>, Written(p)) BY <3>1, <3>2, <3>3, PipeCut
      <3>5. net'[q] = <<>> /\ Gone(p)' BY <1>1, <1>2, <2>2 DEF Typed, Gone
      <3> QED BY <1>4, <3>4, <3>5 DEF Piped
    <2> QED BY <2>1, <2>2
  <1> QED BY <1>1, <1>3, <1>5, <1>6, <1>7, <1>8, <1>9, PairFacts DEF NInv

LEMMA WriteNInv ==
  ASSUME NetIOAssumption, QueriesServed = 1, NInv, NEW p, NEW q, Pair(p, q), Write(p)
  PROVE  NInv'
  <1> DEFINE k == pos[p]
             h == have[p]
             c == Min({Step(p).len - h, BufferSize - Len(unsent[p])})
             v == SubSeq(Bytes(Step(p)), h + 1, h + c)
  <1>1. /\ Typed /\ Switched(p) /\ Switched(q) /\ Gotten(p) /\ Gotten(q)
        /\ Piped(p, q) /\ Piped(q, p)
        /\ p \in Party /\ q \in Party /\ p # q
    BY DEF NInv, Pair
  <1>2. /\ pc[p] = "up" /\ k \in 1 .. 4 /\ Sends(p, k) /\ ~Receives(p, k)
        /\ h \in Nat /\ Doing(p, "send")
    BY <1>1, AtStep, Scripts DEF Write
  <1>3. ahead[p] = <<>> BY <1>1, <1>2 DEF Switched
  <1>4. /\ unsent' = [unsent EXCEPT ![p] = @ \o v]
        /\ have' = [have EXCEPT ![p] = @ + c]
        /\ UNCHANGED <<ahead, net, pc, pos, got>>
        /\ h < Step(p).len /\ Len(unsent[p]) < BufferSize
    <2>1. ahead' = ahead BY <1>1, <1>3 DEF Write, Typed
    <2> QED BY <2>1 DEF Write
  <1>5. c \in Nat \ {0} /\ h + c <= Step(p).len
    <2>1. /\ Step(p).len \in Nat /\ BufferSize \in Nat /\ Len(unsent[p]) \in Nat
          /\ Step(p).len = Script(p)[k].len
      <3>1. unsent[p] \in Seq(Byte) BY <1>1 DEF Typed
      <3> QED BY <1>1, <1>2, <3>1, Scripts, Sizes, LenProperties DEF Step
    <2>2. PICK x \in Nat \ {0} : x = Step(p).len - h BY <1>2, <1>4, <2>1
    <2>3. PICK y \in Nat \ {0} : y = BufferSize - Len(unsent[p]) BY <1>4, <2>1
    <2>4. c = Min({x, y}) BY <2>2, <2>3
    <2> HIDE DEF c
    <2>5. c \in {x, y} /\ c <= x BY <2>4 DEF Min
    <2> QED BY <1>2, <2>1, <2>2, <2>3, <2>5
  <1>6. /\ v \in Seq(Byte) /\ Len(v) = c
        /\ \A i \in 1 .. c : v[i] = ByteAt(p, Written(p) + i)
    <2> DEFINE len == Step(p).len
               msg == Step(p).msg
               b == Bytes(Step(p))
               f == Before(p, k)
    <2>1. /\ len \in Nat /\ f \in Nat /\ Written(p) = f + h
          /\ \A i \in 1 .. len : ByteAt(p, f + i) = <<msg, i>>
      BY <1>1, <1>2, Scripts, Sizes, BytesOfStep DEF Step, Written
    <2>2. \A i \in 1 .. len : b[i] = <<msg, i>> /\ b[i] \in Byte
      <3>1. msg \in {"mask_X", "permuted_Y", "permuted_mask_X", "flag"}
        BY <1>1, <1>2, Scripts DEF Step
      <3> QED BY <2>1, <3>1 DEF Bytes, Byte
    <2> HIDE DEF c, len, b, msg, f
    <2>3. h + c <= len BY <1>5 DEF len
    <2> DEFINE x == h + 1
               y == h + c
    <2>4. /\ v \in Seq(Byte)
          /\ Len(v) = IF x <= y THEN y - x + 1 ELSE 0
          /\ \A i \in 1 .. y - x + 1 : v[i] = b[x + i - 1]
      <3>1. \A i \in x .. y : b[i] \in Byte BY <1>2, <1>5, <2>1, <2>2, <2>3
      <3>2. x \in Int /\ y \in Int BY <1>2, <1>5
      <3>3. v = SubSeq(b, x, y) BY DEF v, b
      <3> HIDE DEF v, x, y
      <3>4. /\ SubSeq(b, x, y) \in Seq(Byte)
            /\ Len(SubSeq(b, x, y)) = IF x <= y THEN y - x + 1 ELSE 0
            /\ \A i \in 1 .. y - x + 1 : SubSeq(b, x, y)[i] = b[x + i - 1]
        BY <3>1, <3>2, SubSeqProperties
      <3> QED BY <3>3, <3>4
    <2> HIDE DEF v, h
    <2>5. v \in Seq(Byte) /\ Len(v) = c /\ \A i \in 1 .. c : v[i] = b[h + i]
      BY <1>2, <1>5, <2>4
    <2>6. ASSUME NEW i \in 1 .. c PROVE v[i] = ByteAt(p, Written(p) + i)
      <3>1. h + i \in 1 .. len /\ Written(p) + i = f + (h + i)
        BY <1>2, <1>5, <2>1, <2>3
      <3> QED BY <2>1, <2>2, <2>5, <3>1
    <2> QED BY <2>5, <2>6
  <1> HIDE DEF c, v
  <1>7. /\ have'[p] = h + c /\ have'[q] = have[q] /\ unsent'[p] = unsent[p] \o v
        /\ unsent'[q] = unsent[q]
    BY <1>1, <1>4 DEF Typed
  <1>8. /\ Taken(p)' = Taken(p) /\ Taken(q)' = Taken(q) /\ Written(q)' = Written(q)
        /\ Written(p)' = Written(p) + c
    <2>1. Written(p)' = Before(p, k) + (h + c) /\ Written(p) = Before(p, k) + h
      BY <1>2, <1>4, <1>7 DEF Written
    <2>2. Before(p, k) \in Nat BY <1>2, <1>1, BytesOfStep
    <2>3. Written(p)' = Written(p) + c BY <1>2, <1>5, <2>1, <2>2
    <2> QED BY <1>2, <1>4, <1>7, <2>3 DEF Taken, Written
  <1>9. ahead[q] \in Seq(Byte) /\ net[q] \in Seq(Byte) /\ unsent[p] \in Seq(Byte)
    BY <1>1 DEF Typed
  <1>10. unsent'[p] \in Seq(Byte) BY <1>6, <1>7, <1>9, ConcatProperties
  <1>11. Typed'
    <2>1. have' \in [Party -> Nat]
      <3>1. have \in [Party -> Nat] BY <1>1 DEF Typed
      <3>2. have' = [have EXCEPT ![p] = h + c] BY <1>4
      <3> HIDE DEF h
      <3>3. h + c \in Nat BY <1>2, <1>5
      <3> QED BY <1>1, <3>1, <3>2, <3>3
    <2>2. unsent' \in [Party -> Seq(Byte)] BY <1>1, <1>4, <1>7, <1>10 DEF Typed
    <2>3. \A r \in Party : have'[r] <= IF pos'[r] = 5 THEN 0 ELSE Step(r)'.len
      <3>1. Step(p)' = Step(p) /\ Step(q)' = Step(q) BY <1>4 DEF Step
      <3>2. have'[p] <= IF pos'[p] = 5 THEN 0 ELSE Step(p)'.len
        BY <1>2, <1>4, <1>5, <1>7, <3>1
      <3>3. have'[q] <= IF pos'[q] = 5 THEN 0 ELSE Step(q)'.len
        BY <1>1, <1>4, <1>7, <3>1 DEF Typed
      <3> QED BY <3>2, <3>3, PairFacts
    <2> QED BY <1>1, <1>4, <2>1, <2>2, <2>3 DEF Typed
  <1>12. Switched(p)' /\ Switched(q)'
    <2>1. Doing(p, "send")' BY <1>2, <1>4 DEF Doing, Step
    <2> QED BY <1>1, <1>2, <1>4, <1>7, <2>1 DEF Switched, Gone, Doing, Step
  <1>13. Gotten(p)' /\ Gotten(q)' BY <1>1, <1>2, <1>4, <1>7 DEF Gotten
  <1>14. Piped(q, p)' BY <1>1, <1>4, <1>7, <1>8 DEF Piped, Gone
  <1>15. Piped(p, q)'
    <2>1. Written(p) \in Nat /\ Taken(q) \in Nat BY <1>1, AtStep
    <2>2. /\ Arrived(p, Taken(q), ahead[q], net[q], Written(p))
          /\ Rest(p, Taken(q), ahead[q], net[q], unsent[p], Written(p))
      BY <1>1, <1>2 DEF Piped, Gone
    <2>3. /\ Arrived(p, Taken(q), ahead[q], net[q], Written(p) + Len(v))
          /\ Rest(p, Taken(q), ahead[q], net[q], unsent[p] \o v, Written(p) + Len(v))
      BY <1>6, <1>9, <2>1, <2>2, PipeWrite
    <2> QED BY <1>4, <1>6, <1>7, <1>8, <2>3 DEF Piped, Gone
  <1> QED BY <1>1, <1>11, <1>12, <1>13, <1>14, <1>15, PairFacts DEF NInv

LEMMA PushNInv ==
  ASSUME NetIOAssumption, QueriesServed = 1, NInv, NEW p, NEW q, Pair(p, q), Push(p)
  PROVE  NInv'
  <1>1. /\ Typed /\ Switched(p) /\ Switched(q) /\ Gotten(p) /\ Gotten(q)
        /\ Piped(p, q) /\ Piped(q, p)
        /\ p \in Party /\ q \in Party /\ p # q /\ Peer(p) = q
    BY PairFacts DEF NInv, Pair
  <1>2. pc[p] = "up" /\ Doing(p, "send") /\ unsent[p] # <<>>
    BY <1>1, AtStep DEF Push
  <1>3. CASE Gone(q)
    <2>1. pc' = [pc EXCEPT ![p] = "killed"] /\ UNCHANGED <<unsent, net, ahead, pos, have, got>>
      BY <1>1, <1>3 DEF Push
    <2> QED BY <1>2, <2>1, ComesOrGoes DEF Gone
  <1>4. CASE ~Gone(q)
    <2> DEFINE u == Tail(unsent[p])
               n == Append(net[q], Head(unsent[p]))
    <2>1. /\ unsent' = [unsent EXCEPT ![p] = u] /\ net' = [net EXCEPT ![q] = n]
          /\ UNCHANGED <<pc, ahead, pos, have, got>>
      BY <1>1, <1>4 DEF Push
    <2>2. /\ Written(p) \in Nat /\ Taken(q) \in Nat
          /\ ahead[q] \in Seq(Byte) /\ net[q] \in Seq(Byte) /\ unsent[p] \in Seq(Byte)
      BY <1>1, AtStep DEF Typed
    <2>3. /\ Arrived(p, Taken(q), ahead[q], net[q], Written(p))
          /\ Rest(p, Taken(q), ahead[q], net[q], unsent[p], Written(p))
      BY <1>1, <1>2 DEF Piped, Gone
    <2>4. /\ n \in Seq(Byte) /\ u \in Seq(Byte)
          /\ Arrived(p, Taken(q), ahead[q], n, Written(p))
          /\ Rest(p, Taken(q), ahead[q], n, u, Written(p))
      BY <1>2, <2>2, <2>3, PipePush
    <2> HIDE DEF u, n
    <2>5. unsent'[p] = u /\ unsent'[q] = unsent[q] /\ net'[q] = n /\ net'[p] = net[p]
      BY <1>1, <2>1 DEF Typed
    <2>6. /\ Written(p)' = Written(p) /\ Written(q)' = Written(q)
          /\ Taken(p)' = Taken(p) /\ Taken(q)' = Taken(q)
      BY <2>1 DEF Written, Taken
    <2>7. Typed'
      <3>1. unsent' \in [Party -> Seq(Byte)] /\ net' \in [Party -> Seq(Byte)]
        BY <1>1, <2>1, <2>4 DEF Typed
      <3> QED BY <1>1, <2>1, <3>1 DEF Typed, Step
    <2>8. Switched(p)'
      <3>1. Doing(p, "send")' BY <1>2, <2>1 DEF Doing, Step
      <3> QED BY <1>1, <1>2, <2>1, <3>1 DEF Switched
    <2>9. Switched(q)' BY <1>1, <2>1, <2>5 DEF Switched, Gone, Doing, Step
    <2>10. Gotten(p)' /\ Gotten(q)' BY <1>1, <2>1 DEF Gotten
    <2>11. Piped(q, p)' BY <1>1, <2>1, <2>5, <2>6 DEF Piped, Gone
    <2>12. Piped(p, q)' BY <2>1, <2>4, <2>5, <2>6 DEF Piped
    <2> QED BY <1>1, <2>7, <2>8, <2>9, <2>10, <2>11, <2>12, PairFacts DEF NInv
  <1> QED BY <1>3, <1>4

LEMMA FillNInv ==
  ASSUME NetIOAssumption, QueriesServed = 1, NInv, NEW p, NEW q, Pair(p, q), Fill(p)
  PROVE  NInv'
  <1>1. /\ Typed /\ Switched(p) /\ Switched(q) /\ Gotten(p) /\ Gotten(q)
        /\ Piped(p, q) /\ Piped(q, p)
        /\ p \in Party /\ q \in Party /\ p # q
    BY DEF NInv, Pair
  <1>2. pc[p] = "up" /\ Receives(p, pos[p]) /\ ahead[p] = <<>> /\ net[p] # <<>>
    BY <1>1, AtStep DEF Fill
  <1>3. /\ Written(q) \in Nat /\ Taken(p) \in Nat /\ net[p] \in Seq(Byte)
    BY <1>1, AtStep DEF Typed
  <1>4. PICK len \in 1 .. Min({Len(net[p]), BufferSize}) :
          /\ ahead' = [ahead EXCEPT ![p] = SubSeq(net[p], 1, len)]
          /\ net' = [net EXCEPT ![p] = SubSeq(@, len + 1, Len(@))]
    BY DEF Fill
  <1>5. UNCHANGED <<unsent, pc, pos, have, got>> BY DEF Fill
  <1>6. len \in 1 .. Len(net[p])
    <2>1. Len(net[p]) \in Nat /\ BufferSize \in Nat BY <1>3, Sizes, LenProperties
    <2>2. Min({Len(net[p]), BufferSize}) \in Nat /\ Min({Len(net[p]), BufferSize}) <= Len(net[p])
      BY <2>1, MinOfTwo
    <2> QED BY <2>1, <2>2
  <1> DEFINE a == SubSeq(net[p], 1, len)
             n == SubSeq(net[p], len + 1, Len(net[p]))
  <1>7. Arrived(q, Taken(p), <<>>, net[p], Written(q)) BY <1>1, <1>2 DEF Piped
  <1>8. /\ a \in Seq(Byte) /\ n \in Seq(Byte)
        /\ Arrived(q, Taken(p), a, n, Written(q))
        /\ \A u : Rest(q, Taken(p), <<>>, net[p], u, Written(q))
                    => Rest(q, Taken(p), a, n, u, Written(q))
    BY <1>3, <1>6, <1>7, PipeFill
  <1>9. ahead' = [ahead EXCEPT ![p] = a] /\ net' = [net EXCEPT ![p] = n] BY <1>4
  <1> HIDE DEF a, n
  <1>10. ahead'[p] = a /\ net'[p] = n /\ ahead'[q] = ahead[q] /\ net'[q] = net[q]
    BY <1>1, <1>9 DEF Typed
  <1>11. /\ Written(p)' = Written(p) /\ Written(q)' = Written(q)
         /\ Taken(p)' = Taken(p) /\ Taken(q)' = Taken(q)
    BY <1>5 DEF Written, Taken
  <1>12. Typed'
    <2>1. ahead' \in [Party -> Seq(Byte)] /\ net' \in [Party -> Seq(Byte)]
      BY <1>1, <1>8, <1>9 DEF Typed
    <2> QED BY <1>1, <1>5, <2>1 DEF Typed, Step
  <1>13. Switched(p)' BY <1>1, <1>2, <1>5 DEF Switched, Gone, Doing, Step
  <1>14. Switched(q)' BY <1>1, <1>5, <1>10 DEF Switched, Gone, Doing, Step
  <1>15. Gotten(p)' /\ Gotten(q)' BY <1>1, <1>5 DEF Gotten
  <1>16. Piped(p, q)' BY <1>1, <1>5, <1>10, <1>11 DEF Piped, Gone
  <1>17. Piped(q, p)' BY <1>1, <1>2, <1>5, <1>8, <1>10, <1>11 DEF Piped, Gone
  <1> QED BY <1>1, <1>12, <1>13, <1>14, <1>15, <1>16, <1>17, PairFacts DEF NInv

LEMMA TakeNInv ==
  ASSUME NetIOAssumption, QueriesServed = 1, NInv, NEW p, NEW q, Pair(p, q), Take(p)
  PROVE  NInv'
  <1> DEFINE k == pos[p]
             h == have[p]
             c == Min({Step(p).len - h, Len(ahead[p])})
             v == SubSeq(ahead[p], 1, c)
             a == SubSeq(ahead[p], c + 1, Len(ahead[p]))
  <1>1. /\ Typed /\ Switched(p) /\ Switched(q) /\ Gotten(p) /\ Gotten(q)
        /\ Piped(p, q) /\ Piped(q, p)
        /\ p \in Party /\ q \in Party /\ p # q
    BY DEF NInv, Pair
  <1>2. /\ pc[p] = "up" /\ k \in 1 .. 4 /\ Receives(p, k) /\ ~Sends(p, k) /\ Sends(q, k)
        /\ h \in Nat /\ Doing(p, "receive") /\ ahead[p] # <<>> /\ h < Step(p).len
    BY <1>1, AtStep, PairFacts, Scripts DEF Take
  <1>3. /\ got' = [got EXCEPT ![p][pos[p]] = @ \o v]
        /\ ahead' = [ahead EXCEPT ![p] = a]
        /\ have' = [have EXCEPT ![p] = h + c]
        /\ UNCHANGED <<net, unsent, pc, pos>>
    BY DEF Take, socket
  <1>4. /\ Written(q) \in Nat /\ Taken(p) \in Nat /\ net[p] \in Seq(Byte)
        /\ ahead[p] \in Seq(Byte) /\ Len(ahead[p]) \in Nat \ {0}
        /\ got[p][k] \in Seq(Byte)
    BY <1>1, <1>2, AtStep, LenProperties, EmptySeq DEF Typed
  <1>5. c \in 1 .. Len(ahead[p]) /\ h + c <= Step(p).len
    <2>1. Step(p).len \in Nat /\ Step(p).len = Script(p)[k].len
      BY <1>1, <1>2, Scripts, Sizes DEF Step
    <2>2. PICK x \in Nat \ {0} : x = Step(p).len - h BY <1>2, <2>1
    <2>3. PICK y \in Nat \ {0} : y = Len(ahead[p]) BY <1>4
    <2>4. c = Min({x, y}) BY <2>2, <2>3
    <2> HIDE DEF c
    <2>5. c \in {x, y} /\ c <= x /\ c <= y BY <2>4, MinOfTwo
    <2> QED BY <1>2, <2>1, <2>2, <2>3, <2>5
  <1> HIDE DEF c
  <1>6. v \in Seq(Byte) /\ Len(v) = c /\ \A i \in 1 .. c : v[i] = ahead[p][i]
    <2> DEFINE b == ahead[p]
    <2>1. b \in Seq(Byte) /\ c \in Nat /\ c >= 1 /\ c <= Len(b) /\ Len(b) \in Nat
      BY <1>4, <1>5
    <2>2. v = SubSeq(b, 1, c) OBVIOUS
    <2> HIDE DEF b, v
    <2>3. \A i \in 1 .. c : b[i] \in Byte BY <2>1, ElementOfSeq
    <2>4. /\ SubSeq(b, 1, c) \in Seq(Byte)
          /\ Len(SubSeq(b, 1, c)) = IF 1 <= c THEN c - 1 + 1 ELSE 0
          /\ \A i \in 1 .. c - 1 + 1 : SubSeq(b, 1, c)[i] = b[1 + i - 1]
      BY <2>1, <2>3, SubSeqProperties
    <2>5. \A i \in 1 .. c : SubSeq(b, 1, c)[i] = b[i] BY <2>1, <2>4
    <2> QED BY <2>1, <2>2, <2>4, <2>5 DEF b
  <1>7. Arrived(q, Taken(p), ahead[p], net[p], Written(q)) BY <1>1 DEF Piped
  <1>8. /\ a \in Seq(Byte)
        /\ Arrived(q, Taken(p) + c, a, net[p], Written(q))
        /\ \A u : Rest(q, Taken(p), ahead[p], net[p], u, Written(q))
                    => Rest(q, Taken(p) + c, a, net[p], u, Written(q))
    BY <1>4, <1>5, <1>7, PipeTake
  <1>9. \A i \in 1 .. c : v[i] = <<Script(p)[k].msg, h + i>>
    <2> SUFFICES ASSUME NEW i \in 1 .. c PROVE v[i] = <<Script(p)[k].msg, h + i>> OBVIOUS
    <2> DEFINE f == Before(q, k)
               t == Taken(p)
               len == Step(p).len
    <2>1. Peer(p) = q /\ t = f + h BY <1>2, PairFacts DEF Taken
    <2>2. f \in Nat /\ \A j \in 1 .. len : ByteAt(q, f + j) = <<Script(q)[k].msg, j>>
      <3>1. Script(q)[k].len = Script(p)[k].len BY <1>1, <1>2, Scripts
      <3> QED BY <1>1, <1>2, <3>1, BytesOfStep DEF Step
    <2>3. Script(q)[k].msg = Script(p)[k].msg BY <1>1, <1>2, Scripts
    <2>4. ahead[p][i] = ByteAt(q, t + i)
      <3>1. i \in 1 .. Len(ahead[p]) BY <1>4, <1>5
      <3> QED BY <1>7, <3>1 DEF Arrived
    <2>5. len \in Nat BY <1>1, <1>2, Scripts, Sizes DEF Step
    <2>6. h + c <= len BY <1>5
    <2> HIDE DEF h, len, f, t
    <2>7. h + i \in 1 .. len /\ t + i = f + (h + i) BY <1>2, <1>5, <2>1, <2>2, <2>5, <2>6
    <2> QED BY <1>6, <2>2, <2>3, <2>4, <2>7
  <1> HIDE DEF v, a
  <1>10. /\ ahead'[p] = a /\ ahead'[q] = ahead[q]
         /\ have'[p] = h + c /\ have'[q] = have[q]
         /\ got'[q] = got[q]
         /\ got'[p] = [got[p] EXCEPT ![k] = got[p][k] \o v]
    BY <1>1, <1>2, <1>3 DEF Typed
  <1>11. /\ Written(p)' = Written(p) /\ Written(q)' = Written(q)
         /\ Taken(q)' = Taken(q) /\ Taken(p)' = Taken(p) + c
    <2>1. Taken(p)' = Before(q, k) + (h + c) /\ Taken(p) = Before(q, k) + h
      BY <1>2, <1>3, <1>10, PairFacts DEF Taken
    <2>2. Before(q, k) \in Nat BY <1>2, <1>1, BytesOfStep
    <2>3. c \in Nat BY <1>4, <1>5
    <2> DEFINE f == Before(q, k)
               t == Taken(p)
    <2> HIDE DEF h, f, t
    <2>4. f + (h + c) = t + c
      <3>1. t = f + h BY <2>1 DEF f, t
      <3>2. f \in Nat /\ h \in Nat BY <1>2, <2>2 DEF f
      <3> QED BY <2>3, <3>1, <3>2
    <2>5. Taken(p)' = Taken(p) + c BY <2>1, <2>4 DEF f, t
    <2> QED BY <1>2, <1>3, <1>10, <2>5 DEF Taken, Written
  <1>12. got[p][k] \o v \in Seq(Byte) BY <1>4, <1>6, ConcatProperties
  <1>13. h + c \in Nat BY <1>2, <1>4, <1>5
  <1>14. Typed'
    <2>1. have' \in [Party -> Nat]
      <3>1. have \in [Party -> Nat] BY <1>1 DEF Typed
      <3> HIDE DEF h
      <3> QED BY <1>1, <1>3, <1>13, <3>1
    <2>2. ahead' \in [Party -> Seq(Byte)] BY <1>1, <1>3, <1>8 DEF Typed
    <2>3. got' \in [Party -> [1 .. 4 -> Seq(Byte)]]
      <3>1. got \in [Party -> [1 .. 4 -> Seq(Byte)]] BY <1>1 DEF Typed
      <3>2. got' = [got EXCEPT ![p] = got'[p]]
        BY <1>1, <1>3, <3>1
      <3>3. got'[p] \in [1 .. 4 -> Seq(Byte)] BY <1>1, <1>2, <1>10, <1>12, <3>1
      <3> QED BY <1>1, <3>1, <3>2, <3>3
    <2>4. \A r \in Party : have'[r] <= IF pos'[r] = 5 THEN 0 ELSE Step(r)'.len
      <3>1. Step(p)' = Step(p) /\ Step(q)' = Step(q) BY <1>3 DEF Step
      <3>2. have'[p] <= IF pos'[p] = 5 THEN 0 ELSE Step(p)'.len
        BY <1>2, <1>3, <1>5, <1>10, <3>1
      <3>3. have'[q] <= IF pos'[q] = 5 THEN 0 ELSE Step(q)'.len
        BY <1>1, <1>3, <1>10, <3>1 DEF Typed
      <3> QED BY <3>2, <3>3, PairFacts
    <2> QED BY <1>1, <1>3, <2>1, <2>2, <2>3, <2>4 DEF Typed
  <1>15. Switched(p)'
    <2>1. unsent[p] = <<>> BY <1>1, <1>2, AtStep, Scripts DEF Switched, Gone
    <2> QED BY <1>1, <1>2, <1>3, <2>1 DEF Switched
  <1>16. Switched(q)' BY <1>1, <1>3, <1>10 DEF Switched, Gone, Doing, Step
  <1>17. Gotten(q)'
    <2>1. got'[q] = got[q] /\ have'[q] = have[q] /\ pos'[q] = pos[q] BY <1>1, <1>3, <1>10
    <2> QED BY <1>1, <2>1, SameGotten
  <1>18. Gotten(p)'
    <2> SUFFICES ASSUME NEW j \in 1 .. 4, Receives(p, j)
                 PROVE  /\ j < k => Len(got'[p][j]) = Script(p)[j].len
                        /\ j = k => Len(got'[p][j]) = h + c
                        /\ j > k => got'[p][j] = <<>>
                        /\ \A i \in 1 .. Len(got'[p][j]) : got'[p][j][i] = <<Script(p)[j].msg, i>>
      BY <1>3, <1>10 DEF Gotten
    <2>1. CASE j # k
      <3>1. got'[p][j] = got[p][j] BY <1>1, <1>10, <2>1 DEF Typed
      <3> QED BY <1>1, <2>1, <3>1 DEF Gotten
    <2>2. CASE j = k
      <3> DEFINE g == got[p][k]
                 gv == g \o v
                 msg == Script(p)[k].msg
      <3>1. got'[p][j] = gv BY <1>1, <1>2, <1>10, <2>2 DEF Typed
      <3>2. Len(g) = h /\ \A i \in 1 .. h : g[i] = <<msg, i>> BY <1>1, <1>2 DEF Gotten
      <3>3. /\ Len(gv) = Len(g) + Len(v)
            /\ \A i \in 1 .. Len(g) + Len(v) : gv[i] = IF i <= Len(g) THEN g[i] ELSE v[i - Len(g)]
        <4>1. g \in Seq(Byte) /\ v \in Seq(Byte) BY <1>4, <1>6
        <4> HIDE DEF g
        <4> QED BY <4>1, ConcatProperties
      <3>4. c \in Nat /\ h \in Nat BY <1>2, <1>4, <1>5
      <3>5. Len(v) = c BY <1>6
      <3> HIDE DEF g, gv, h, msg
      <3>6. Len(gv) = h + c /\ \A i \in 1 .. h + c : gv[i] = IF i <= h THEN g[i] ELSE v[i - h]
        BY <3>2, <3>3, <3>5
      <3>7. \A i \in 1 .. c : v[i] = <<msg, h + i>> BY <1>9 DEF msg
      <3>8. ASSUME NEW i \in 1 .. h + c PROVE gv[i] = <<msg, i>>
        <4>1. CASE i <= h
          <5>1. i \in 1 .. h BY <3>4, <4>1
          <5> QED BY <3>2, <3>6, <4>1, <5>1
        <4>2. CASE ~(i <= h)
          <5>1. i - h \in 1 .. c /\ h + (i - h) = i BY <3>4, <4>2
          <5>2. v[i - h] = <<msg, h + (i - h)>> BY <3>7, <5>1
          <5> QED BY <3>6, <4>2, <5>1, <5>2
        <4> QED BY <4>1, <4>2
      <3>9. \A i \in 1 .. Len(gv) : gv[i] = <<msg, i>> BY <3>6, <3>8
      <3>10. ~(k < k) /\ ~(k > k) BY <1>2
      <3> QED BY <2>2, <3>1, <3>6, <3>9, <3>10 DEF msg
    <2> QED BY <2>1, <2>2
  <1>19. Piped(p, q)' BY <1>1, <1>3, <1>10, <1>11 DEF Piped, Gone
  <1>20. Piped(q, p)' BY <1>1, <1>3, <1>8, <1>10, <1>11 DEF Piped, Gone
  <1> QED BY <1>1, <1>14, <1>15, <1>16, <1>17, <1>18, <1>19, <1>20, PairFacts DEF NInv

\* At the end of the stream only the FILE's flag changes.
LEMMA ReadEndNInv ==
  ASSUME NetIOAssumption, QueriesServed = 1, NInv, NEW p, NEW q, Pair(p, q), ReadEnd(p)
  PROVE  NInv'
  <1>1. UNCHANGED <<unsent, ahead, net, pc, pos, got>> BY DEF ReadEnd, socket
  <1>2. have' = have
    <2>1. p \in Party /\ have \in [Party -> Nat] BY PairFacts DEF NInv, Typed
    <2>2. have' = [have EXCEPT ![p] = @ + 0] BY DEF ReadEnd
    <2>3. have[p] + 0 = have[p] BY <2>1
    <2> QED BY <2>1, <2>2, <2>3
  <1>3. Typed' BY <1>1, <1>2 DEF NInv, Typed, Step
  <1>4. \A r \in Party : Switched(r)' /\ Gotten(r)'
    BY <1>1, <1>2 DEF NInv, Switched, Gotten, Gone, Doing, Step
  <1>5. \A r \in Party : Written(r)' = Written(r) /\ Taken(r)' = Taken(r)
    BY <1>1, <1>2 DEF Written, Taken
  <1>6. \A r, s \in Party : r # s => Piped(r, s)'
    BY <1>1, <1>5 DEF NInv, Piped, Gone
  <1> QED BY <1>3, <1>4, <1>6 DEF NInv

\* A party that goes on to its next step; it has taken all that its peer can
\* have sent by then, if it does not receive.
LEMMA StepNInv ==
  ASSUME NetIOAssumption, QueriesServed = 1, NInv, NEW p, NEW q, Pair(p, q),
         pc[p] = "up", pos[p] \in 1 .. 4, have[p] = Step(p).len, NextStep(p),
         unsent[p] = <<>>,
         ~Receives(p, pos[p] + 1) => ahead[p] = <<>>,
         UNCHANGED <<unsent, ahead, net, pc, got>>
  PROVE  NInv'
  <1> DEFINE k == pos[p]
  <1>1. /\ Typed /\ Switched(p) /\ Switched(q) /\ Gotten(p) /\ Gotten(q)
        /\ Piped(p, q) /\ Piped(q, p)
        /\ p \in Party /\ q \in Party /\ p # q /\ Peer(p) = q
    BY PairFacts DEF NInv, Pair
  <1>2. k \in 1 .. 4 /\ k + 1 \in 1 .. 5 /\ have[p] = Script(p)[k].len BY DEF Step
  <1>3. /\ pos'[p] = k + 1 /\ pos'[q] = pos[q] /\ have'[p] = 0 /\ have'[q] = have[q]
        /\ pos' \in [Party -> 1 .. 5] /\ have' \in [Party -> Nat]
    BY <1>1, <1>2 DEF NextStep, Typed
  <1>4. /\ Written(p)' = Written(p) /\ Written(q)' = Written(q)
        /\ Taken(p)' = Taken(p) /\ Taken(q)' = Taken(q)
    <2>1. Script(q)[k].len = Script(p)[k].len /\ have[p] \in Nat
      <3>1. have[p] \in Nat BY <1>1, AtStep
      <3> QED BY <1>1, <1>2, <3>1, Scripts
    <2>2. /\ Before(p, k) \in Nat /\ Before(p, k + 1) \in Nat
          /\ Before(p, k + 1) = Before(p, k) + IF Sends(p, k) THEN have[p] ELSE 0
      BY <1>1, <1>2, BytesOfStep
    <2>3. /\ Before(q, k) \in Nat /\ Before(q, k + 1) \in Nat
          /\ Before(q, k + 1) = Before(q, k) + IF Receives(p, k) THEN have[p] ELSE 0
      <3>1. Sends(q, k) <=> Receives(p, k) BY <1>1, <1>2, Scripts
      <3> QED BY <1>1, <1>2, <2>1, <3>1, BytesOfStep
    <2>4. Written(p)' = Before(p, k + 1) /\ Taken(p)' = Before(q, k + 1)
      <3>1. Written(p)' = Before(p, k + 1) + 0 BY <1>3 DEF Written
      <3>2. Taken(p)' = Before(q, k + 1) + 0 BY <1>1, <1>3 DEF Taken
      <3> QED BY <2>2, <2>3, <3>1, <3>2
    <2>5. Written(p) = Before(p, k + 1) BY <2>2 DEF Written
    <2>6. Taken(p) = Before(q, k + 1) BY <1>1, <2>3 DEF Taken
    <2>7. Written(q)' = Written(q) /\ Taken(q)' = Taken(q) BY <1>3 DEF Written, Taken
    <2> QED BY <2>4, <2>5, <2>6, <2>7
  <1>5. Typed'
    <2>1. \A r \in Party : have'[r] <= IF pos'[r] = 5 THEN 0 ELSE Step(r)'.len
      <3>1. have'[q] <= IF pos'[q] = 5 THEN 0 ELSE Step(q)'.len
        BY <1>1, <1>3 DEF Typed, Step
      <3>2. have'[p] <= IF pos'[p] = 5 THEN 0 ELSE Step(p)'.len
        <4>1. CASE pos'[p] = 5 BY <1>3, <4>1
        <4>2. CASE pos'[p] # 5
          <5>1. k + 1 \in 1 .. 4 BY <1>2, <1>3, <4>2
          <5>2. Script(p)[k + 1].len \in Nat BY <1>1, <5>1, Scripts, Sizes
          <5>3. Step(p)'.len = Script(p)[k + 1].len BY <1>3 DEF Step
          <5> QED BY <1>3, <5>2, <5>3
        <4> QED BY <4>1, <4>2
      <3> QED BY <3>1, <3>2, PairFacts
    <2> QED BY <1>1, <1>3, <2>1 DEF Typed
  <1>6. Switched(p)' BY <1>3 DEF Switched
  <1>7. Switched(q)' BY <1>1, <1>3 DEF Switched, Gone, Doing, Step
  <1>8. Gotten(q)' BY <1>1, <1>3, SameGotten
  <1>9. Gotten(p)'
    <2> SUFFICES ASSUME NEW j \in 1 .. 4, Receives(p, j)
                 PROVE  /\ j < k + 1 => Len(got[p][j]) = Script(p)[j].len
                        /\ j = k + 1 => Len(got[p][j]) = 0
                        /\ j > k + 1 => got[p][j] = <<>>
                        /\ \A i \in 1 .. Len(got[p][j]) : got[p][j][i] = <<Script(p)[j].msg, i>>
      BY SMTT(30), <1>3 DEF Gotten
    <2>1. /\ j < k => Len(got[p][j]) = Script(p)[j].len
          /\ j = k => Len(got[p][j]) = have[p]
          /\ j > k => got[p][j] = <<>>
          /\ \A i \in 1 .. Len(got[p][j]) : got[p][j][i] = <<Script(p)[j].msg, i>>
      BY <1>1 DEF Gotten
    <2>2. got[p][j] = <<>> => Len(got[p][j]) = 0 BY EmptySeq
    <2>3. j < k + 1 => j < k \/ j = k BY <1>2
    <2>4. (j = k + 1 => j > k) /\ (j > k + 1 => j > k) BY <1>2
    <2> QED BY <1>2, <2>1, <2>2, <2>3, <2>4
  <1>10. Piped(p, q)' BY <1>1, <1>4 DEF Piped, Gone
  <1>11. Piped(q, p)' BY <1>1, <1>4 DEF Piped, Gone
  <1> QED BY <1>1, <1>5, <1>6, <1>7, <1>8, <1>9, <1>10, <1>11, PairFacts DEF NInv

LEMMA SentNInv ==
  ASSUME NetIOAssumption, QueriesServed = 1, NInv, NEW p, NEW q, Pair(p, q), Sent(p)
  PROVE  NInv'
  <1>1. Typed /\ Switched(p) /\ p \in Party BY PairFacts DEF NInv
  <1>2. pc[p] = "up" /\ pos[p] \in 1 .. 4 /\ Sends(p, pos[p]) BY <1>1, AtStep DEF Sent
  <1>3. ahead[p] = <<>> BY <1>1, <1>2, Scripts DEF Switched
  <1>4. UNCHANGED <<unsent, ahead, net, pc, got>> BY DEF Sent, socket, file
  <1> QED BY <1>2, <1>3, <1>4, StepNInv DEF Sent

LEMMA ReceivedNInv ==
  ASSUME NetIOAssumption, QueriesServed = 1, NInv, NEW p, NEW q, Pair(p, q), Received(p)
  PROVE  NInv'
  <1> DEFINE k == pos[p]
  <1>1. /\ Typed /\ Switched(p) /\ Piped(q, p) /\ Piped(p, q)
        /\ p \in Party /\ q \in Party /\ Peer(p) = q /\ Peer(q) = p
    BY PairFacts DEF NInv, Pair
  <1>2. pc[p] = "up" /\ k \in 1 .. 4 /\ Receives(p, k) /\ ~Sends(p, k)
    BY <1>1, AtStep, Scripts DEF Received
  <1>3. unsent[p] = <<>>
    <2>1. ~Doing(p, "send") BY <1>1, <1>2, AtStep
    <2> QED BY <1>1, <1>2, <2>1 DEF Switched, Gone
  <1>4. Taken(p) = Before(q, k) + (IF k = 4 THEN FlagLen ELSE Size)
    BY <1>1, <1>2, Scripts DEF Received, Step, Taken
  <1>5. Written(p) = Before(p, k) + 0 BY <1>2 DEF Written
  <1>6. /\ Size \in Nat \ {0} /\ FlagLen \in Nat \ {0} BY Sizes
  <1>7. /\ pos[q] \in 1 .. 5 /\ have[q] \in Nat
        /\ pos[q] # 5 => have[q] <= IF pos[q] = 4 THEN FlagLen ELSE Size
        /\ Written(q) \in Nat /\ Taken(p) \in Nat /\ Taken(q) \in Nat
    <2>1. pos[q] # 5 => have[q] <= Script(q)[pos[q]].len BY <1>1 DEF Typed, Step
    <2> QED BY <1>1, <2>1, AtStep, Scripts
  <1>8. ASSUME ~Receives(p, k + 1) PROVE Written(q) <= Taken(p)
    <2>1. CASE p = "server"
      <3>1. q = "client" /\ k = 3 BY <1>1, <1>2, <1>8, <2>1 DEF Peer, Receives
      <3>2. Taken(p) = Size + Size BY <1>4, <3>1 DEF Before
      <3>3. Written(q) <= Size + Size BY <1>6, <1>7, <3>1 DEF Written, Before, Sends
      <3> QED BY <3>2, <3>3
    <2>2. CASE p = "client" /\ k = 1
      <3>1. q = "server" BY <1>1, <2>2 DEF Peer
      <3>2. Taken(p) = Size BY <1>4, <1>6, <2>2, <3>1 DEF Before
      <3>3. Written(p) = 0 BY <1>5, <2>2 DEF Before
      <3>4. Taken(q) <= Written(p)
        <4>1. /\ ahead[q] \in Seq(Byte) /\ net[q] \in Seq(Byte)
              /\ Arrived(p, Taken(q), ahead[q], net[q], Written(p))
          BY <1>1 DEF Piped, Typed
        <4>2. Len(ahead[q]) \in Nat /\ Len(net[q]) \in Nat BY <4>1, LenProperties
        <4>3. Taken(q) + Len(ahead[q]) + Len(net[q]) <= Written(p) BY <4>1 DEF Arrived
        <4> QED BY <1>7, <3>3, <4>2, <4>3
      <3>5. pos[q] \notin {4, 5}
        <4>1. pos[q] \in {4, 5} => Taken(q) >= Size + Size
          <5>1. pos[q] \in {4, 5} => Taken(q) = Size + Size
            BY <1>1, <1>6, <2>2, <3>1 DEF Taken, Before, Receives
          <5> QED BY <1>6, <5>1
        <4> QED BY <1>6, <1>7, <3>3, <3>4, <4>1
      <3>6. Written(q) <= Size BY <1>6, <1>7, <3>1, <3>5 DEF Written, Before, Sends
      <3> QED BY <3>2, <3>6
    <2>3. CASE p = "client" /\ k = 4
      <3>1. q = "server" BY <1>1, <2>3 DEF Peer
      <3>2. Taken(p) = Size + FlagLen BY <1>4, <2>3, <3>1 DEF Before
      <3>3. Written(q) <= Size + FlagLen BY <1>6, <1>7, <3>1 DEF Written, Before, Sends
      <3> QED BY <3>2, <3>3
    <2> QED BY <1>1, <1>2, <2>1, <2>2, <2>3 DEF Party, Receives
  <1>9. ~Receives(p, k + 1) => ahead[p] = <<>>
    <2> SUFFICES ASSUME ~Receives(p, k + 1) PROVE ahead[p] = <<>> OBVIOUS
    <2>1. /\ ahead[p] \in Seq(Byte) /\ net[p] \in Seq(Byte)
          /\ Arrived(q, Taken(p), ahead[p], net[p], Written(q))
      BY <1>1 DEF Piped, Typed
    <2>2. Len(ahead[p]) \in Nat /\ Len(net[p]) \in Nat BY <2>1, LenProperties
    <2>3. Taken(p) + Len(ahead[p]) + Len(net[p]) <= Written(q) BY <2>1 DEF Arrived
    <2>4. Written(q) <= Taken(p) BY <1>8
    <2>5. Len(ahead[p]) = 0 BY <1>7, <2>2, <2>3, <2>4
    <2> QED BY <2>1, <2>5, EmptySeq
  <1>10. UNCHANGED <<unsent, ahead, net, pc, got>> BY DEF Received, socket, file
  <1> QED BY <1>2, <1>3, <1>9, <1>10, StepNInv DEF Received

LEMMA CloseNInv ==
  ASSUME NetIOAssumption, QueriesServed = 1, NInv, NEW p, NEW q, Pair(p, q),
         Destruct(p) \/ Abort(p)
  PROVE  NInv'
  <1> DEFINE to == IF Destruct(p) THEN "closed" ELSE "aborted"
  <1>1. /\ p \in Party /\ Peer(p) = q /\ Typed
        /\ pc[p] = "up" /\ ~Gone(p)
    BY PairFacts DEF NInv, Destruct, AtEnd, Abort, Gone
  <1>2. pc' = [pc EXCEPT ![p] = to]
    BY DEF Destruct, Abort
  <1>3. to = "closed" => pos[p] = 5
    <2>1. to = "closed" => pos[p] > Len(Script(p)) BY DEF Destruct, AtEnd
    <2>2. pos[p] \in 1 .. 5 /\ Len(Script(p)) = 4 BY <1>1, Scripts DEF Typed
    <2> QED BY <2>1, <2>2
  <1>4. UNCHANGED <<unsent, ahead, pos, have, got>> BY DEF Destruct, Abort, file
  <1>5. net' = net \/ net' = [net EXCEPT ![q] = <<>>]
    <2>1. CloseSocket(p) BY DEF Destruct, Abort
    <2>2. PICK arriving \in {net[q]} \cup {<<>>} : net' = [net EXCEPT ![q] = arriving]
      BY <1>1, <2>1 DEF CloseSocket
    <2>3. [net EXCEPT ![q] = net[q]] = net BY <1>1 DEF Typed
    <2> QED BY <2>2, <2>3
  <1>6. to \in {"up", "exit", "closed", "killed", "aborted"} /\ to # "up" OBVIOUS
  <1> HIDE DEF to
  <1> QED BY <1>1, <1>2, <1>3, <1>4, <1>5, <1>6, ComesOrGoes

LEMMA OpenNInv ==
  ASSUME NetIOAssumption, QueriesServed = 1, NInv, Listen \/ Connect \/ Accept
  PROVE  NInv'
  <1>1. Pair("server", "client") /\ Pair("client", "server") BY DEF Pair, Party
  <1>2. net' = net /\ UNCHANGED <<unsent, ahead, pos, have, got>>
    BY DEF Listen, Connect, Accept, socket, file
  <1>3. pc[IF Connect THEN "client" ELSE "server"] = "new" BY DEF Listen, Connect, Accept
  <1>4. CASE Connect
    <2> DEFINE to == IF port = "listening" THEN "up" ELSE "exit"
    <2>1. pc' = [pc EXCEPT !["client"] = to] BY <1>4 DEF Connect
    <2>2. ~Gone("client") BY <1>3, <1>4 DEF Gone
    <2>3. to \in {"up", "exit", "closed", "killed", "aborted"} /\ to # "closed" OBVIOUS
    <2> HIDE DEF to
    <2> QED BY <1>1, <1>2, <2>1, <2>2, <2>3, ComesOrGoes
  <1>5. CASE Listen \/ Accept
    <2>1. ~Gone("server") BY <1>5 DEF Listen, Accept, Gone
    <2>2. \/ pc' = pc
          \/ \E to \in {"up", "exit"} : pc' = [pc EXCEPT !["server"] = to]
      BY <1>5 DEF Listen, Accept
    <2>3. CASE pc' = pc
      <3>1. UNCHANGED <<pc, net, unsent, ahead, pos, have, got>> BY <1>2, <2>3
      <3>2. Typed' BY <3>1 DEF NInv, Typed, Step
      <3>3. \A r \in Party : Switched(r)' /\ Gotten(r)'
        BY <3>1 DEF NInv, Switched, Gotten, Gone, Doing, Step
      <3>4. \A r \in Party : Written(r)' = Written(r) /\ Taken(r)' = Taken(r)
        BY <3>1 DEF Written, Taken
      <3>5. \A r, s \in Party : r # s => Piped(r, s)' BY <3>1, <3>4 DEF NInv, Piped, Gone
      <3> QED BY <3>2, <3>3, <3>5 DEF NInv
    <2>4. CASE \E to \in {"up", "exit"} : pc' = [pc EXCEPT !["server"] = to]
      <3>1. PICK to \in {"up", "exit"} : pc' = [pc EXCEPT !["server"] = to] BY <2>4
      <3>2. to \in {"up", "exit", "closed", "killed", "aborted"} /\ to # "closed" BY <3>1
      <3> QED BY <1>1, <1>2, <2>1, <3>1, <3>2, ComesOrGoes
    <2> QED BY <2>2, <2>3, <2>4
  <1> QED BY <1>4, <1>5

LEMMA NextNInv ==
  ASSUME NetIOAssumption, QueriesServed = 1, NInv, [NetIONext]_netIOVars
  PROVE  NInv'
  <1>1. CASE Listen \/ Connect \/ Accept BY <1>1, OpenNInv
  <1>2. ASSUME NEW p \in Party, PartyStep(p) \/ Abort(p) PROVE NInv'
    <2>1. PICK q : Pair(p, q) BY DEF Pair, Party
    <2>2. CASE Write(p) BY <2>1, <2>2, WriteNInv
    <2>3. CASE Push(p) BY <2>1, <2>3, PushNInv
    <2>4. CASE Sent(p) BY <2>1, <2>4, SentNInv
    <2>5. CASE Fill(p) BY <2>1, <2>5, FillNInv
    <2>6. CASE Take(p) BY <2>1, <2>6, TakeNInv
    <2>7. CASE ReadEnd(p) BY <2>1, <2>7, ReadEndNInv
    <2>8. CASE Received(p) BY <2>1, <2>8, ReceivedNInv
    <2>9. CASE Destruct(p) \/ Abort(p) BY <2>1, <2>9, CloseNInv
    <2> QED BY <1>2, <2>2, <2>3, <2>4, <2>5, <2>6, <2>7, <2>8, <2>9 DEF PartyStep
  <1>3. CASE UNCHANGED netIOVars
    <2>1. UNCHANGED <<pc, net, unsent, ahead, pos, have, got>>
      BY <1>3 DEF netIOVars, socket, file
    <2>2. Typed' BY <2>1 DEF NInv, Typed, Step
    <2>3. \A r \in Party : Switched(r)' /\ Gotten(r)'
      BY <2>1 DEF NInv, Switched, Gotten, Gone, Doing, Step
    <2>4. \A r \in Party : Written(r)' = Written(r) /\ Taken(r)' = Taken(r)
      BY <2>1 DEF Written, Taken
    <2>5. \A r, s \in Party : r # s => Piped(r, s)' BY <2>1, <2>4 DEF NInv, Piped, Gone
    <2> QED BY <2>2, <2>3, <2>5 DEF NInv
  <1> QED BY <1>1, <1>2, <1>3 DEF NetIONext

-----------------------------------------------------------------------------
(* What follows from it.                                                   *)

LEMMA IntactNow ==
  ASSUME NetIOAssumption, QueriesServed = 1, NInv
  PROVE  Intact
  <1> SUFFICES ASSUME NEW p \in Party, NEW k \in 1 .. pos[p] - 1,
                      Script(p)[k].op = "receive"
               PROVE  got[p][k] = Bytes(Script(p)[k])
    BY DEF Intact
  <1>1. Typed /\ Gotten(p) BY DEF NInv
  <1>2. k \in 1 .. 4 /\ k < pos[p]
    <2>1. pos[p] \in 1 .. 5 BY <1>1 DEF Typed
    <2> QED BY <2>1
  <1>3. Receives(p, k) BY <1>2, Scripts
  <1> DEFINE g == got[p][k]
             len == Script(p)[k].len
             b == Bytes(Script(p)[k])
  <1>4. g \in Seq(Byte) BY <1>1, <1>2 DEF Typed
  <1>5. Len(g) = len /\ \A i \in 1 .. len : g[i] = <<Script(p)[k].msg, i>>
    BY <1>1, <1>2, <1>3 DEF Gotten
  <1>6. len \in Nat BY <1>2, Scripts, Sizes
  <1>7. b = [i \in 1 .. len |-> <<Script(p)[k].msg, i>>] BY DEF Bytes
  <1>8. g = [i \in 1 .. Len(g) |-> g[i]] /\ DOMAIN g = 1 .. Len(g) BY <1>4
  <1> HIDE DEF g, b, len
  <1>9. g = b BY <1>5, <1>7, <1>8
  <1> QED BY <1>9 DEF g, b

\* A party that has closed has taken all that its peer ever sends.
LEMMA NothingLeftNow ==
  ASSUME NetIOAssumption, QueriesServed = 1, NInv
  PROVE  NothingLeftAtClose
  <1> SUFFICES ASSUME NEW p \in Party, pc[p] = "closed"
               PROVE  unsent[p] = <<>> /\ ahead[p] = <<>> /\ net[p] = <<>>
    BY DEF NothingLeftAtClose
  <1>1. PICK q : Pair(p, q) BY DEF Pair, Party
  <1>2. /\ Typed /\ Switched(p) /\ Piped(q, p) /\ p \in Party /\ q \in Party
        /\ Peer(p) = q
    BY <1>1, PairFacts DEF NInv, Pair
  <1>3. pos[p] = 5 /\ unsent[p] = <<>> BY <1>2 DEF Switched
  <1>4. ahead[p] = <<>> BY <1>2, <1>3, Scripts DEF Switched
  <1>5. Size \in Nat /\ FlagLen \in Nat BY Sizes
  <1>6. Taken(p) = Before(q, 5) BY <1>2, <1>3, <1>5, Scripts DEF Taken, Before
  <1>7. Written(q) <= Before(q, 5)
    <2>1. pos[q] \in 1 .. 5 /\ have[q] \in Nat BY <1>2, AtStep
    <2>2. pos[q] # 5 => have[q] <= IF pos[q] = 4 THEN FlagLen ELSE Size
      <3>1. pos[q] # 5 => have[q] <= Script(q)[pos[q]].len BY <1>2 DEF Typed, Step
      <3> QED BY <1>2, <2>1, <3>1, Scripts
    <2>3. CASE q = "server" BY <1>5, <2>1, <2>2, <2>3 DEF Written, Before, Sends
    <2>4. CASE q = "client" BY <1>5, <2>1, <2>2, <2>4 DEF Written, Before, Sends
    <2> QED BY <1>2, <2>3, <2>4 DEF Party
  <1>8. /\ net[p] \in Seq(Byte) /\ Len(net[p]) \in Nat /\ Taken(p) \in Nat
        /\ Written(q) \in Nat /\ Len(<<>>) = 0
    BY <1>2, AtStep, LenProperties, EmptySeq DEF Typed
  <1>9. Taken(p) + 0 + Len(net[p]) <= Written(q)
    BY <1>2, <1>4, <1>8 DEF Piped, Arrived
  <1>10. Len(net[p]) = 0 BY <1>6, <1>7, <1>8, <1>9
  <1> QED BY <1>3, <1>4, <1>8, <1>10, EmptySeq

LEMMA NInvBytes ==
  ASSUME NetIOAssumption, QueriesServed = 1, NInv
  PROVE  BytesArrive
  <1>1. NothingReadAhead
    <2> SUFFICES ASSUME NEW p \in Party, Doing(p, "send") PROVE ahead[p] = <<>>
      BY DEF NothingReadAhead
    <2>1. Typed /\ Switched(p) BY DEF NInv
    <2>2. pos[p] \in 1 .. 4 /\ Sends(p, pos[p]) BY <2>1, AtStep
    <2> QED BY <2>1, <2>2, Scripts DEF Switched
  <1> QED BY <1>1, IntactNow, NothingLeftNow DEF BytesArrive

(***************************************************************************)
(* For all sizes of points, flag, buffer and kernel, and whether or not a  *)
(* party may end in the middle: what a party has received of a step it is  *)
(* past is what the other has sent in it, nothing is ever read ahead of a  *)
(* write, and a NetIO that is destroyed has nothing left in its FILE or    *)
(* socket.  This is of a receiver's first query, the only one that         *)
(* receiver_cli makes of a Receiver.                                       *)
(***************************************************************************)
THEOREM Arrive ==
  ASSUME NetIOAssumption, QueriesServed = 1
  PROVE  NetIOSpec => []BytesArrive
  <1>1. NetIOInit => NInv BY InitNInv
  <1>2. NInv /\ [NetIONext]_netIOVars => NInv' BY NextNInv
  <1>3. NInv => BytesArrive BY NInvBytes
  <1> QED BY <1>1, <1>2, <1>3, PTL DEF NetIOSpec

-----------------------------------------------------------------------------
(***************************************************************************)
(* That answers find their channel, for every number of programs, of       *)
(* channels they open one after the other and of operations, whatever      *)
(* messages are faulty or foreign.                                         *)
(*                                                                         *)
(* An operation carries the routing id of the channel that has sent it.    *)
(* The invariant follows each one: on its way it is new to the receiver    *)
(* and no other has its number; what is pending has been taken from the    *)
(* socket and is there once; and as long as its response is to be sent,    *)
(* nothing for it is on the way, so that no package can overtake it.       *)
(***************************************************************************)
CONSTANTS Sender, MaxChannels, MaxSends, SentTypes, Packages, BadMessages, ForeignParts, BindMayFail

VARIABLES end_point_, bound, used, toReceiver, toChannel, sent, pending, outcome, seen, answered

Zmq == INSTANCE ZmqChannel WITH channel <- used

\* What is sent: an operation of a channel, and what it may be answered with.
Numbers == Zmq!Channel \X Nat
Operations ==
  [kind : {"operation"}, type : SentTypes, of : Numbers, parts : {2, 3}, fault : Zmq!Faults]
ChannelAnswers ==
  [kind : {"response", "package"}, type : Zmq!ResponseTypes, of : Numbers, parts : {1, 2}, fault : Zmq!Faults]
Pending == [client_id : Zmq!Channel, type : Zmq!ResponseTypes, of : Numbers, left : {-1} \cup 1 .. Packages]

\* Channels and sockets hold what they should.
Channels ==
  /\ end_point_ \in [Zmq!Sides -> BOOLEAN]
  /\ bound \in BOOLEAN /\ (bound => end_point_[Zmq!Receiver])
  /\ used \in [Sender -> 1 .. MaxChannels]
  /\ outcome \in [Zmq!Sides -> Zmq!Outcomes]
  /\ sent \in [Zmq!Channel -> Nat]
  /\ toReceiver \in [Zmq!Channel -> Seq(Operations)]
  /\ toChannel \in [Zmq!Channel -> Seq(ChannelAnswers)]
  /\ answered \in [Zmq!Channel -> Seq(ChannelAnswers)]
  /\ seen \subseteq Numbers
  /\ pending \subseteq Pending

\* An operation on its way is its channel's, not taken yet, and there once.
OperationsSent ==
  \A x \in Zmq!Channel :
    /\ \A i \in DOMAIN toReceiver[x] :
         toReceiver[x][i].of[1] = x /\ toReceiver[x][i].of[2] <= sent[x] /\ toReceiver[x][i].of \notin seen
    /\ \A i, j \in DOMAIN toReceiver[x] : toReceiver[x][i].of = toReceiver[x][j].of => i = j

\* One that was taken has been sent, and is pending once.
TakenOnce ==
  /\ \A o \in seen : o[2] <= sent[o[1]]
  /\ \A rop \in pending : rop.client_id = rop.of[1] /\ rop.of \in seen
  /\ \A rop, other \in pending : rop.of = other.of => rop = other

\* What is on the way to a channel is for it, and comes after the response.
AnswersOwn ==
  \A x \in Zmq!Channel : \A i \in DOMAIN toChannel[x] :
    /\ toChannel[x][i].of[1] = x /\ toChannel[x][i].of \in seen
    /\ \A rop \in pending : rop.left = -1 => toChannel[x][i].of # rop.of

ZInv == Channels /\ OperationsSent /\ TakenOnce /\ AnswersOwn /\ Zmq!ResponseFirst /\ Zmq!OwnAnswers

\* The receiver is no channel, and a program's channel is one.
LEMMA ChannelFacts ==
  /\ Zmq!Receiver \in Zmq!Sides /\ Zmq!Receiver \notin Zmq!Channel /\ Zmq!Channel \subseteq Zmq!Sides
  /\ \A s \in Sender, m \in [Sender -> 1 .. MaxChannels] : <<s, m[s]>> \in Zmq!Channel
  BY DEF Zmq!Receiver, Zmq!Sides, Zmq!Channel

\* At first nothing was sent.
LEMMA InitZInv ==
  ASSUME Zmq!ZmqChannelAssumption, Zmq!Init
  PROVE  ZInv
  <1>1. Channels
    <2>1. 1 \in 1 .. MaxChannels BY DEF Zmq!ZmqChannelAssumption
    <2>2. <<>> \in Seq(Operations) /\ <<>> \in Seq(ChannelAnswers) OBVIOUS
    <2> QED BY <2>1, <2>2 DEF Zmq!Init, Channels, Zmq!Outcomes
  <1>2. \A x \in Zmq!Channel : /\ toReceiver[x] = <<>> /\ toChannel[x] = <<>> /\ answered[x] = <<>>
    BY DEF Zmq!Init
  <1>3. DOMAIN <<>> = {} OBVIOUS
  <1>4. seen = {} /\ pending = {} BY DEF Zmq!Init
  <1> QED BY <1>1, <1>2, <1>3, <1>4 DEF ZInv, OperationsSent, TakenOnce, AnswersOwn, Zmq!ResponseFirst, Zmq!OwnAnswers

\* What goes on between sockets and programs that takes nothing and sends
\* nothing: a channel that is closed loses what was on its way to it.
LEMMA ConnectionsKeep ==
  ASSUME ZInv, Channels',
         UNCHANGED <<toReceiver, sent, pending, seen, answered>>,
         \A x \in Zmq!Channel : toChannel'[x] = toChannel[x] \/ toChannel'[x] = <<>>
  PROVE  ZInv'
  <1>1. DOMAIN <<>> = {} OBVIOUS
  <1>2. OperationsSent' /\ TakenOnce' /\ Zmq!OwnAnswers' BY DEF ZInv, OperationsSent, TakenOnce, Zmq!OwnAnswers
  <1>3. AnswersOwn' BY <1>1 DEF ZInv, AnswersOwn
  <1>4. Zmq!ResponseFirst' BY <1>1 DEF ZInv, Zmq!ResponseFirst
  <1> QED BY <1>2, <1>3, <1>4 DEF ZInv

\* A side notes how its call has ended.
LEMMA OutcomeSet ==
  ASSUME Channels, NEW side \in Zmq!Sides, NEW how \in Zmq!Outcomes, Zmq!Ends(side, how)
  PROVE  outcome' \in [Zmq!Sides -> Zmq!Outcomes]
  BY DEF Channels, Zmq!Ends

\* The receiver binds its socket.
LEMMA BindZInv ==
  ASSUME ZInv, Zmq!Bind
  PROVE  ZInv'
  <1>1. "ok" \in Zmq!Outcomes /\ "throws" \in Zmq!Outcomes BY DEF Zmq!Outcomes
  <1>2. outcome' \in [Zmq!Sides -> Zmq!Outcomes] BY <1>1, ChannelFacts, OutcomeSet DEF ZInv, Zmq!Bind
  <1>3. UNCHANGED <<used, toReceiver, toChannel, sent, pending, seen, answered>> BY DEF Zmq!Bind
  <1>4. /\ end_point_' \in [Zmq!Sides -> BOOLEAN] /\ bound' \in BOOLEAN
        /\ bound' => end_point_'[Zmq!Receiver]
    BY ChannelFacts DEF ZInv, Channels, Zmq!Bind, Zmq!throw_if_connected
  <1>5. Channels' BY <1>2, <1>3, <1>4 DEF ZInv, Channels
  <1> QED BY <1>3, <1>5, ConnectionsKeep

\* A channel is connected, closed, replaced by a new one, or does nothing.
LEMMA ConnectionZInv ==
  ASSUME Zmq!ZmqChannelAssumption, ZInv, NEW s \in Sender,
         Zmq!Connect(s) \/ Zmq!Disconnect(s) \/ Zmq!NewChannel(s) \/ Zmq!ReceiveUnconnected(s)
  PROVE  ZInv'
  <1> DEFINE x == Zmq!Current(s)
  <1>1. x \in Zmq!Channel /\ x \in Zmq!Sides /\ x # Zmq!Receiver
    BY ChannelFacts DEF ZInv, Channels, Zmq!Current
  <1>2. {"ok", "throws", "closed"} \subseteq Zmq!Outcomes BY DEF Zmq!Outcomes
  <1>3. outcome' \in [Zmq!Sides -> Zmq!Outcomes]
    <2>1. CASE Zmq!Connect(s) BY <1>1, <1>2, <2>1, OutcomeSet DEF ZInv, Zmq!Connect
    <2>2. CASE Zmq!Disconnect(s) BY <1>1, <1>2, <2>2, OutcomeSet DEF ZInv, Zmq!Disconnect
    <2>3. CASE Zmq!NewChannel(s) BY <2>3 DEF ZInv, Channels, Zmq!NewChannel
    <2>4. CASE Zmq!ReceiveUnconnected(s) BY <1>1, <1>2, <2>4, OutcomeSet DEF ZInv, Zmq!ReceiveUnconnected
    <2> QED BY <2>1, <2>2, <2>3, <2>4
  <1>4. UNCHANGED <<bound, toReceiver, sent, pending, seen, answered>>
    BY DEF Zmq!Connect, Zmq!Disconnect, Zmq!NewChannel, Zmq!ReceiveUnconnected
  <1>5. /\ end_point_' \in [Zmq!Sides -> BOOLEAN] /\ end_point_'[Zmq!Receiver] = end_point_[Zmq!Receiver]
    BY <1>1, ChannelFacts
    DEF ZInv, Channels, Zmq!Connect, Zmq!Disconnect, Zmq!NewChannel, Zmq!ReceiveUnconnected
  <1>6. used' \in [Sender -> 1 .. MaxChannels]
    <2>1. CASE Zmq!NewChannel(s)
      <3>1. used[s] \in 1 .. MaxChannels /\ used[s] < MaxChannels /\ used' = [used EXCEPT ![s] = @ + 1]
        BY <2>1 DEF ZInv, Channels, Zmq!NewChannel
      <3>2. MaxChannels \in Nat BY DEF Zmq!ZmqChannelAssumption
      <3>3. used[s] + 1 \in 1 .. MaxChannels BY <3>1, <3>2
      <3> QED BY <3>1, <3>3 DEF ZInv, Channels
    <2>2. CASE used' = used BY <2>2 DEF ZInv, Channels
    <2> QED BY <2>1, <2>2 DEF Zmq!Connect, Zmq!Disconnect, Zmq!ReceiveUnconnected
  <1>7. toChannel' = toChannel \/ toChannel' = [toChannel EXCEPT ![x] = <<>>]
    BY DEF Zmq!Connect, Zmq!Disconnect, Zmq!NewChannel, Zmq!ReceiveUnconnected
  <1> HIDE DEF x
  <1>8. toChannel' \in [Zmq!Channel -> Seq(ChannelAnswers)] /\
        \A y \in Zmq!Channel : toChannel'[y] = toChannel[y] \/ toChannel'[y] = <<>>
    <2>1. <<>> \in Seq(ChannelAnswers) OBVIOUS
    <2> QED BY <1>1, <1>7, <2>1 DEF ZInv, Channels
  <1>9. Channels' BY <1>3, <1>4, <1>5, <1>6, <1>8 DEF ZInv, Channels
  <1> QED BY <1>4, <1>8, <1>9, ConnectionsKeep

\* A program sends an operation, with a number of its own.
LEMMA SendZInv ==
  ASSUME ZInv, NEW s \in Sender, NEW type \in SentTypes, Zmq!SendOperation(s, type)
  PROVE  ZInv'
  <1>1. PICK x : x = Zmq!Current(s) OBVIOUS
  <1>2. x \in Zmq!Channel /\ x \in Zmq!Sides
    BY <1>1, ChannelFacts DEF ZInv, Channels, Zmq!Current
  <1>3. UNCHANGED <<end_point_, bound, used, toChannel, pending, seen, answered>> BY DEF Zmq!SendOperation
  <1>4. outcome' \in [Zmq!Sides -> Zmq!Outcomes]
    <2>1. "ok" \in Zmq!Outcomes /\ "throws" \in Zmq!Outcomes BY DEF Zmq!Outcomes
    <2> QED BY <1>1, <1>2, <2>1, OutcomeSet DEF ZInv, Zmq!SendOperation
  <1>5. CASE UNCHANGED <<toReceiver, sent>>
    <2>1. Channels' BY <1>3, <1>4, <1>5 DEF ZInv, Channels
    <2> QED BY <1>3, <1>5, <2>1, ConnectionsKeep
  <1>6. CASE ~UNCHANGED <<toReceiver, sent>>
    <2>1. PICK fault \in Zmq!Faults, frames \in Zmq!Parts(2) :
            toReceiver' = [toReceiver EXCEPT ![x] =
              Append(@, Zmq!Frame("operation", type, <<x, sent[x] + 1>>, frames, fault))]
      BY <1>1, <1>6 DEF Zmq!SendOperation
    <2>2. sent' = [sent EXCEPT ![x] = @ + 1] BY <1>1, <1>6 DEF Zmq!SendOperation
    <2>3. PICK op : op = Zmq!Frame("operation", type, <<x, sent[x] + 1>>, frames, fault) OBVIOUS
    <2>4. sent \in [Zmq!Channel -> Nat] /\ toReceiver \in [Zmq!Channel -> Seq(Operations)]
      BY DEF ZInv, Channels
    <2>5. op.of = <<x, sent[x] + 1>> BY <2>3 DEF Zmq!Frame
    <2>6. op \in Operations
      <3>1. frames \in {2, 3} BY DEF Zmq!Parts
      <3>2. <<x, sent[x] + 1>> \in Numbers BY <1>2, <2>4 DEF Numbers
      <3> QED BY <2>3, <3>1, <3>2 DEF Operations, Zmq!Frame
    <2>7. PICK old : old = toReceiver[x] OBVIOUS
    <2>8. PICK n \in Nat : n = Len(old) /\ DOMAIN old = 1 .. n
      BY <1>2, <2>4, <2>7, LenProperties
    <2>9. old \in Seq(Operations) BY <1>2, <2>4, <2>7
    <2>10. PICK new : new = Append(old, op) OBVIOUS
    <2>11. /\ new \in Seq(Operations) /\ DOMAIN new = 1 .. n + 1
           /\ \A i \in 1 .. n : new[i] = old[i]
           /\ new[n + 1] = op
      BY <2>6, <2>8, <2>9, <2>10, AppendProperties
    <2>12. toReceiver' = [toReceiver EXCEPT ![x] = new] BY <2>1, <2>3, <2>7, <2>10
    <2>13. toReceiver' \in [Zmq!Channel -> Seq(Operations)] /\ sent' \in [Zmq!Channel -> Nat]
      BY <1>2, <2>2, <2>4, <2>11, <2>12
    <2>14. Channels' BY <1>3, <1>4, <2>13 DEF ZInv, Channels
    <2>15. \A y \in Zmq!Channel : sent[y] <= sent'[y] BY <1>2, <2>2, <2>4
    <2>16. op.of \notin seen
      <3>1. \A o \in seen : o \in Numbers /\ o[2] <= sent[o[1]] BY DEF ZInv, Channels, TakenOnce
      <3>2. \A o \in Numbers : o[1] = x /\ o[2] = sent[x] + 1 => ~(o[2] <= sent[o[1]])
        BY <1>2, <2>4 DEF Numbers
      <3> QED BY <2>5, <3>1, <3>2
    <2>17. \A i \in 1 .. n : /\ old[i] \in Operations /\ old[i].of[1] = x /\ old[i].of[2] <= sent[x]
                             /\ old[i].of \notin seen
      <3>1. \A i \in 1 .. n : old[i] \in Operations BY <2>8, <2>9, ElementOfSeq
      <3> QED BY <1>2, <2>7, <2>8, <3>1 DEF ZInv, OperationsSent
    <2>18. \A i, j \in 1 .. n : old[i].of = old[j].of => i = j BY <1>2, <2>7, <2>8 DEF ZInv, OperationsSent
    <2>19. \A i \in 1 .. n : old[i].of # op.of
      <3>1. \A i \in 1 .. n : old[i].of \in Numbers BY <2>17 DEF Operations
      <3> QED BY <1>2, <2>4, <2>5, <2>17, <3>1 DEF Numbers
    <2>20. \A i \in 1 .. n + 1 : new[i].of[1] = x /\ new[i].of[2] <= sent[x] + 1 /\ new[i].of \notin seen
      <3>1. ASSUME NEW i \in 1 .. n PROVE new[i].of[1] = x /\ new[i].of[2] <= sent[x] + 1 /\ new[i].of \notin seen
        <4>1. old[i].of[2] \in Nat BY <2>17 DEF Operations, Numbers
        <4>2. sent[x] \in Nat BY <1>2, <2>4
        <4> QED BY <2>11, <2>17, <4>1, <4>2
      <3>2. op.of[1] = x /\ op.of[2] = sent[x] + 1 /\ sent[x] \in Nat BY <1>2, <2>4, <2>5
      <3> QED BY <2>11, <2>16, <3>1, <3>2
    <2>21. \A i, j \in 1 .. n + 1 : new[i].of = new[j].of => i = j
      <3>1. \A i \in 1 .. n + 1 : i \in 1 .. n \/ i = n + 1 OBVIOUS
      <3> QED BY <2>11, <2>18, <2>19, <3>1
    <2>22. OperationsSent'
      <3>1. ASSUME NEW y \in Zmq!Channel, y # x
            PROVE  /\ \A i \in DOMAIN toReceiver'[y] :
                        /\ toReceiver'[y][i].of[1] = y /\ toReceiver'[y][i].of[2] <= sent'[y]
                        /\ toReceiver'[y][i].of \notin seen
                   /\ \A i, j \in DOMAIN toReceiver'[y] : toReceiver'[y][i].of = toReceiver'[y][j].of => i = j
        <4>1. toReceiver'[y] = toReceiver[y] /\ sent'[y] = sent[y] BY <2>2, <2>4, <2>12, <3>1
        <4> QED BY <3>1, <4>1 DEF ZInv, OperationsSent
      <3>2. toReceiver'[x] = new /\ sent'[x] = sent[x] + 1 BY <1>2, <2>2, <2>4, <2>12
      <3> QED BY <1>3, <2>11, <2>20, <2>21, <3>1, <3>2 DEF OperationsSent
    <2>23. TakenOnce'
      <3>1. ASSUME NEW o \in seen PROVE o[2] <= sent'[o[1]]
        <4>1. o \in Numbers /\ o[2] <= sent[o[1]] BY DEF ZInv, Channels, TakenOnce
        <4>2. o[1] \in Zmq!Channel /\ o[2] \in Nat BY <4>1 DEF Numbers
        <4> QED BY <2>4, <2>13, <2>15, <4>1, <4>2
      <3> QED BY <1>3, <3>1 DEF ZInv, TakenOnce
    <2>24. AnswersOwn' /\ Zmq!ResponseFirst' /\ Zmq!OwnAnswers'
      BY <1>3 DEF ZInv, AnswersOwn, Zmq!ResponseFirst, Zmq!OwnAnswers
    <2> QED BY <2>14, <2>22, <2>23, <2>24 DEF ZInv
  <1> QED BY <1>5, <1>6

\* A sequence without its first element.
LEMMA RestOf ==
  ASSUME NEW S, NEW s \in Seq(S), s # <<>>
  PROVE  /\ Head(s) = s[1] /\ Tail(s) \in Seq(S)
         /\ 1 \in DOMAIN s
         /\ \A i \in DOMAIN Tail(s) : i + 1 \in DOMAIN s /\ i + 1 # 1 /\ i \in Nat /\ Tail(s)[i] = s[i + 1]
  <1>1. /\ Head(s) \in S /\ Tail(s) \in Seq(S) /\ Len(Tail(s)) = Len(s) - 1
        /\ \A i \in 1 .. Len(Tail(s)) : Tail(s)[i] = s[i + 1]
    BY HeadTailProperties
  <1>2. Len(s) \in Nat /\ DOMAIN s = 1 .. Len(s) /\ DOMAIN Tail(s) = 1 .. Len(Tail(s))
    BY <1>1, LenProperties
  <1>3. Len(s) # 0 BY EmptySeq
  <1> QED BY <1>1, <1>2, <1>3

\* The receiver takes the first operation of a channel: it drops it, or has
\* it pending.
LEMMA TakeZInv ==
  ASSUME ZInv, NEW x \in Zmq!Channel, NEW validContext \in BOOLEAN,
         NEW expected, Zmq!ReceiveFrom(x, "nullptr", validContext, expected)
  PROVE  ZInv'
  <1>1. UNCHANGED <<end_point_, bound, used, toChannel, sent, answered>> BY DEF Zmq!ReceiveFrom
  <1>2. PICK old : old = toReceiver[x] OBVIOUS
  <1>3. PICK msg : msg = Head(old) OBVIOUS
  <1>4. old \in Seq(Operations) /\ old # <<>> BY <1>2 DEF ZInv, Channels, Zmq!ReceiveFrom, Zmq!TakesFrom
  <1>5. PICK new : new = Tail(old) OBVIOUS
  <1>6. /\ msg = old[1] /\ new \in Seq(Operations) /\ 1 \in DOMAIN old
        /\ \A i \in DOMAIN new : i + 1 \in DOMAIN old /\ i + 1 # 1 /\ i \in Nat /\ new[i] = old[i + 1]
    BY <1>3, <1>4, <1>5, RestOf
  <1>7. msg \in Operations BY <1>4, <1>6, ElementOfSeq, LenProperties
  <1>8. toReceiver' = [toReceiver EXCEPT ![x] = new] /\ seen' = seen \cup {msg.of}
    BY <1>2, <1>3, <1>5 DEF Zmq!ReceiveFrom, Zmq!TakesFrom
  <1>9. PICK rop : rop = [client_id |-> x, type |-> msg.type, of |-> msg.of, left |-> -1] OBVIOUS
  <1>10. pending' = pending \/ (pending' = pending \cup {rop} /\ msg.type \in Zmq!ResponseTypes)
    BY <1>2, <1>3, <1>9 DEF Zmq!ReceiveFrom, Zmq!TakesFrom
  <1>11. \E how \in {"throws", "nullptr", "ok"} : Zmq!Ends(Zmq!Receiver, how)
    BY <1>2, <1>3 DEF Zmq!ReceiveFrom, Zmq!TakesFrom
  <1>12. outcome' \in [Zmq!Sides -> Zmq!Outcomes]
    <2>1. {"throws", "nullptr", "ok"} \subseteq Zmq!Outcomes BY DEF Zmq!Outcomes
    <2> QED BY <1>11, <2>1, ChannelFacts, OutcomeSet DEF ZInv
  <1>13. msg.of \in Numbers /\ msg.of[1] = x /\ msg.of[2] <= sent[x] /\ msg.of \notin seen
    BY <1>2, <1>6, <1>7 DEF ZInv, OperationsSent, Operations
  <1>14. toReceiver' \in [Zmq!Channel -> Seq(Operations)] BY <1>6, <1>8 DEF ZInv, Channels
  <1>15. seen' \subseteq Numbers BY <1>8, <1>13 DEF ZInv, Channels
  <1>16. pending' \subseteq Pending
    <2>1. msg.type \in Zmq!ResponseTypes => rop \in Pending BY <1>9, <1>13 DEF Pending
    <2> QED BY <1>10, <2>1 DEF ZInv, Channels
  <1>17. Channels' BY <1>1, <1>12, <1>14, <1>15, <1>16 DEF ZInv, Channels
  <1>18. rop.of = msg.of /\ rop.client_id = x /\ rop.left = -1 BY <1>9
  <1>19. OperationsSent'
    <2>1. ASSUME NEW y \in Zmq!Channel, y # x
          PROVE  /\ \A i \in DOMAIN toReceiver'[y] :
                      /\ toReceiver'[y][i].of[1] = y /\ toReceiver'[y][i].of[2] <= sent[y]
                      /\ toReceiver'[y][i].of \notin seen'
                 /\ \A i, j \in DOMAIN toReceiver'[y] : toReceiver'[y][i].of = toReceiver'[y][j].of => i = j
      <3>1. toReceiver'[y] = toReceiver[y] BY <1>8, <2>1 DEF ZInv, Channels
      <3> QED BY <1>8, <1>13, <2>1, <3>1 DEF ZInv, OperationsSent
    <2>2. toReceiver'[x] = new BY <1>8 DEF ZInv, Channels
    <2>3. \A i \in DOMAIN old : old[i].of[1] = x /\ old[i].of[2] <= sent[x] /\ old[i].of \notin seen
      BY <1>2 DEF ZInv, OperationsSent
    <2>4. \A i, j \in DOMAIN old : old[i].of = old[j].of => i = j BY <1>2 DEF ZInv, OperationsSent
    <2>5. \A i \in DOMAIN new : /\ new[i].of[1] = x /\ new[i].of[2] <= sent[x]
                                /\ new[i].of \notin seen /\ new[i].of # msg.of
      BY ONLY <1>6, <2>3, <2>4
    <2>6. \A i, j \in DOMAIN new : new[i].of = new[j].of => i = j
      <3>1. ASSUME NEW i \in DOMAIN new, NEW j \in DOMAIN new, new[i].of = new[j].of PROVE i = j
        <4>1. i + 1 = j + 1 BY <1>6, <2>4, <3>1
        <4> QED BY <1>6, <4>1
      <3> QED BY <3>1
    <2> QED BY <1>1, <1>8, <2>1, <2>2, <2>5, <2>6 DEF OperationsSent
  <1>20. TakenOnce'
    <2>1. \A o \in seen' : o[2] <= sent[o[1]] BY <1>8, <1>13 DEF ZInv, TakenOnce
    <2>2. \A r \in pending' : r.client_id = r.of[1] /\ r.of \in seen'
      BY <1>8, <1>10, <1>13, <1>18 DEF ZInv, TakenOnce
    <2>3. \A r, other \in pending' : r.of = other.of => r = other
      <3>1. \A r \in pending : r.of # rop.of BY <1>13, <1>18 DEF ZInv, TakenOnce
      <3> QED BY <1>10, <3>1 DEF ZInv, TakenOnce
    <2> QED BY <1>1, <2>1, <2>2, <2>3 DEF TakenOnce
  <1>21. AnswersOwn' BY <1>1, <1>8, <1>10, <1>13, <1>18 DEF ZInv, AnswersOwn
  <1>22. Zmq!ResponseFirst' /\ Zmq!OwnAnswers' BY <1>1, <1>8 DEF ZInv, Zmq!ResponseFirst, Zmq!OwnAnswers
  <1> QED BY <1>17, <1>19, <1>20, <1>21, <1>22 DEF ZInv

\* The receiver sends a response, or a package after it, to the channel whose
\* operation it answers, unless that is closed.
LEMMA DeliverZInv ==
  ASSUME ZInv, NEW rop \in pending, NEW n \in 0 .. Packages, NEW msg \in ChannelAnswers,
         msg.of = rop.of, msg.kind = "response" => rop.left = -1,
         Zmq!Deliver(Zmq!Route(rop), msg), pending' = Zmq!Left(rop, n), Zmq!Ends(Zmq!Receiver, "ok"),
         UNCHANGED <<end_point_, bound, used, toReceiver, sent, seen, answered>>
  PROVE  ZInv'
  <1>1. PICK x : x = rop.client_id OBVIOUS
  <1>2. rop \in Pending /\ x \in Zmq!Channel /\ x = rop.of[1] /\ rop.of \in seen
    BY <1>1 DEF ZInv, Channels, TakenOnce, Pending
  <1>3. PICK old : old = toChannel[x] OBVIOUS
  <1>4. old \in Seq(ChannelAnswers) BY <1>2, <1>3 DEF ZInv, Channels
  <1>5. PICK k \in Nat : DOMAIN old = 1 .. k /\ Len(old) = k BY <1>4, LenProperties
  <1>6. PICK new : new = Append(old, msg) OBVIOUS
  <1>7. /\ new \in Seq(ChannelAnswers) /\ DOMAIN new = 1 .. k + 1
        /\ \A i \in 1 .. k : new[i] = old[i]
        /\ new[k + 1] = msg
    BY <1>4, <1>5, <1>6, AppendProperties
  <1>8. toChannel' = toChannel \/ toChannel' = [toChannel EXCEPT ![x] = new]
    BY <1>1, <1>3, <1>6 DEF Zmq!Deliver, Zmq!Route
  <1>9. toChannel' \in [Zmq!Channel -> Seq(ChannelAnswers)] BY <1>7, <1>8 DEF ZInv, Channels
  <1>10. outcome' \in [Zmq!Sides -> Zmq!Outcomes]
    <2>1. "ok" \in Zmq!Outcomes BY DEF Zmq!Outcomes
    <2> QED BY <2>1, ChannelFacts, OutcomeSet DEF ZInv
  <1>11. PICK rest : rest = [rop EXCEPT !.left = n] OBVIOUS
  <1>12. /\ rest.of = rop.of /\ rest.client_id = rop.client_id /\ rest.left = n
         /\ n # 0 => rest \in Pending
    BY <1>2, <1>11 DEF Pending
  <1>13. pending' \subseteq (pending \ {rop}) \cup {rest} /\ (rest \in pending' /\ n = 0 => rest \in pending \ {rop})
    BY <1>11 DEF Zmq!Left
  <1>14. pending' = pending \ {rop} \/ (n # 0 /\ pending' = (pending \ {rop}) \cup {rest})
    BY <1>11 DEF Zmq!Left
  <1>15. pending' \subseteq Pending BY <1>12, <1>14 DEF ZInv, Channels
  <1>16. Channels' BY <1>9, <1>10, <1>15 DEF ZInv, Channels
  <1>17. OperationsSent' BY DEF ZInv, OperationsSent
  <1>18. \A r \in pending \ {rop} : r.of # rop.of BY DEF ZInv, TakenOnce
  <1>19. TakenOnce'
    <2>1. \A r \in pending' : r.client_id = r.of[1] /\ r.of \in seen
      BY <1>1, <1>2, <1>12, <1>14 DEF ZInv, TakenOnce
    <2>2. \A r, other \in pending' : r.of = other.of => r = other
      BY <1>12, <1>14, <1>18 DEF ZInv, TakenOnce
    <2> QED BY <2>1, <2>2 DEF ZInv, TakenOnce
  <1>20. \A r \in pending' : r.left = -1 => r \in pending \ {rop}
    <2>1. n # -1 OBVIOUS
    <2> QED BY <1>12, <1>14, <2>1
  <1>21. \A i \in 1 .. k : old[i].of[1] = x /\ old[i].of \in seen /\
           \A r \in pending : r.left = -1 => old[i].of # r.of
    BY <1>2, <1>3, <1>5 DEF ZInv, AnswersOwn
  <1>22. \A i, j \in 1 .. k : old[i].kind = "package" /\ old[j].kind = "response" /\ old[i].of = old[j].of => j < i
    BY <1>2, <1>3, <1>5 DEF ZInv, Zmq!ResponseFirst
  <1>23. \A i \in 1 .. k + 1 : i \in 1 .. k \/ i = k + 1 OBVIOUS
  <1>24. \A i \in 1 .. k + 1 : new[i].of[1] = x /\ new[i].of \in seen /\
           \A r \in pending' : r.left = -1 => new[i].of # r.of
    <2>1. ASSUME NEW i \in 1 .. k
          PROVE new[i].of[1] = x /\ new[i].of \in seen /\ \A r \in pending' : r.left = -1 => new[i].of # r.of
      BY <1>7, <1>20, <1>21
    <2>2. msg.of[1] = x /\ msg.of \in seen /\ \A r \in pending' : r.left = -1 => msg.of # r.of
      BY <1>2, <1>18, <1>20
    <2> QED BY <1>7, <1>23, <2>1, <2>2
  <1>25. \A i, j \in 1 .. k + 1 :
           new[i].kind = "package" /\ new[j].kind = "response" /\ new[i].of = new[j].of => j < i
    <2> SUFFICES ASSUME NEW i \in 1 .. k + 1, NEW j \in 1 .. k + 1,
                        new[i].kind = "package", new[j].kind = "response", new[i].of = new[j].of
                 PROVE  j < i
      OBVIOUS
    <2>1. CASE i \in 1 .. k /\ j \in 1 .. k BY <1>7, <1>22, <2>1
    <2>2. CASE i = k + 1
      <3>1. j # i BY <1>7, <2>2
      <3> QED BY <1>5, <2>2, <3>1
    <2>3. CASE i \in 1 .. k /\ j = k + 1
      <3>1. new[j] = msg /\ new[i] = old[i] BY <1>7, <2>3
      <3>2. rop.left = -1 BY <3>1
      <3> QED BY <1>21, <2>3, <3>1, <3>2
    <2> QED BY <1>23, <2>1, <2>2, <2>3
  <1>26. \A y \in Zmq!Channel : toChannel'[y] = toChannel[y] \/ (y = x /\ toChannel'[y] = new)
    BY <1>8 DEF ZInv, Channels
  <1>27. AnswersOwn'
    <2>1. ASSUME NEW y \in Zmq!Channel, NEW i \in DOMAIN toChannel'[y]
          PROVE  /\ toChannel'[y][i].of[1] = y /\ toChannel'[y][i].of \in seen
                 /\ \A r \in pending' : r.left = -1 => toChannel'[y][i].of # r.of
      <3>1. CASE toChannel'[y] = toChannel[y] BY <1>20, <2>1, <3>1 DEF ZInv, AnswersOwn
      <3>2. CASE y = x /\ toChannel'[y] = new BY <1>7, <1>24, <2>1, <3>2
      <3> QED BY <1>26, <3>1, <3>2
    <2> QED BY <2>1 DEF AnswersOwn
  <1>28. Zmq!ResponseFirst'
    <2>1. ASSUME NEW y \in Zmq!Channel, NEW i \in DOMAIN toChannel'[y], NEW j \in DOMAIN toChannel'[y],
                 toChannel'[y][i].kind = "package", toChannel'[y][j].kind = "response",
                 toChannel'[y][i].of = toChannel'[y][j].of
          PROVE  j < i
      <3>1. CASE toChannel'[y] = toChannel[y] BY <2>1, <3>1 DEF ZInv, Zmq!ResponseFirst
      <3>2. CASE y = x /\ toChannel'[y] = new BY <1>7, <1>25, <2>1, <3>2
      <3> QED BY <1>26, <3>1, <3>2
    <2> QED BY <2>1 DEF Zmq!ResponseFirst
  <1>29. Zmq!OwnAnswers' BY DEF ZInv, Zmq!OwnAnswers
  <1> QED BY <1>16, <1>17, <1>19, <1>27, <1>28, <1>29 DEF ZInv

\* It sends a response, and then there are packages to send.
LEMMA ResponseZInv ==
  ASSUME Zmq!ZmqChannelAssumption, ZInv, NEW rop \in pending, Zmq!SendResponse(rop)
  PROVE  ZInv'
  <1>1. PICK fault \in Zmq!Faults :
          Zmq!Deliver(Zmq!Route(rop), Zmq!Frame("response", rop.type, rop.of, 2, fault))
    BY DEF Zmq!SendResponse
  <1>2. PICK msg : msg = Zmq!Frame("response", rop.type, rop.of, 2, fault) OBVIOUS
  <1>3. PICK n : n = Zmq!PackagesOf(rop) OBVIOUS
  <1>4. rop \in Pending BY DEF ZInv, Channels
  <1>5. msg \in ChannelAnswers /\ msg.of = rop.of BY <1>2, <1>4 DEF ChannelAnswers, Pending, Zmq!Frame
  <1>6. n \in 0 .. Packages BY <1>3 DEF Zmq!PackagesOf, Zmq!ZmqChannelAssumption
  <1>7. /\ rop.left = -1 /\ Zmq!Deliver(Zmq!Route(rop), msg) /\ pending' = Zmq!Left(rop, n)
        /\ Zmq!Ends(Zmq!Receiver, "ok")
        /\ UNCHANGED <<end_point_, bound, used, toReceiver, sent, seen, answered>>
    BY <1>1, <1>2, <1>3 DEF Zmq!SendResponse
  <1> QED BY ONLY ZInv, rop \in pending, <1>5, <1>6, <1>7, DeliverZInv

\* It sends one of them.
LEMMA PackageZInv ==
  ASSUME Zmq!ZmqChannelAssumption, ZInv, NEW rop \in pending, Zmq!SendPackage(rop)
  PROVE  ZInv'
  <1>1. PICK msg : msg = Zmq!Frame("package", rop.type, rop.of, 1, "none") OBVIOUS
  <1>2. PICK n : n = rop.left - 1 OBVIOUS
  <1>3. rop \in Pending BY DEF ZInv, Channels
  <1>4. msg \in ChannelAnswers /\ msg.of = rop.of /\ msg.kind # "response"
    BY <1>1, <1>3 DEF ChannelAnswers, Pending, Zmq!Frame, Zmq!Faults
  <1>5. rop.left > 0 BY DEF Zmq!SendPackage
  <1>6. n \in 0 .. Packages BY <1>2, <1>3, <1>5 DEF Pending, Zmq!ZmqChannelAssumption
  <1>7. /\ Zmq!Deliver(Zmq!Route(rop), msg) /\ pending' = Zmq!Left(rop, n) /\ Zmq!Ends(Zmq!Receiver, "ok")
        /\ UNCHANGED <<end_point_, bound, used, toReceiver, sent, seen, answered>>
    BY <1>1, <1>2 DEF Zmq!SendPackage
  <1> QED BY ONLY ZInv, rop \in pending, <1>4, <1>6, <1>7, DeliverZInv

\* A program takes the first message for its channel: an answer, or nothing.
LEMMA ReceiveZInv ==
  ASSUME ZInv, NEW s \in Sender, NEW kind, NEW expected, Zmq!Receive(s, kind, expected)
  PROVE  ZInv'
  <1>1. PICK x : x = Zmq!Current(s) OBVIOUS
  <1>2. x \in Zmq!Channel /\ x \in Zmq!Sides
    BY <1>1, ChannelFacts DEF ZInv, Channels, Zmq!Current
  <1>3. UNCHANGED <<end_point_, bound, used, toReceiver, sent, pending, seen>> BY DEF Zmq!Receive
  <1>4. PICK old : old = toChannel[x] OBVIOUS
  <1>5. PICK msg : msg = Head(old) OBVIOUS
  <1>6. old \in Seq(ChannelAnswers) /\ old # <<>>
    BY <1>1, <1>2, <1>4 DEF ZInv, Channels, Zmq!Receive
  <1>7. PICK new : new = Tail(old) OBVIOUS
  <1>8. /\ msg = old[1] /\ new \in Seq(ChannelAnswers) /\ 1 \in DOMAIN old
        /\ \A i \in DOMAIN new : i + 1 \in DOMAIN old /\ i + 1 # 1 /\ i \in Nat /\ new[i] = old[i + 1]
    BY <1>5, <1>6, <1>7, RestOf
  <1>9. msg \in ChannelAnswers BY <1>6, <1>8, ElementOfSeq, LenProperties
  <1>10. toChannel' = [toChannel EXCEPT ![x] = new] BY <1>1, <1>4, <1>7 DEF Zmq!Receive
  <1>11. answered' = answered \/ answered' = [answered EXCEPT ![x] = Append(@, msg)]
    BY <1>1, <1>4, <1>5 DEF Zmq!Receive
  <1>12. \E how \in {"throws", "nullptr", "ok"} : Zmq!Ends(x, how) BY <1>1, <1>4, <1>5 DEF Zmq!Receive
  <1>13. outcome' \in [Zmq!Sides -> Zmq!Outcomes]
    <2>1. {"throws", "nullptr", "ok"} \subseteq Zmq!Outcomes BY DEF Zmq!Outcomes
    <2> QED BY <1>2, <1>12, <2>1, OutcomeSet DEF ZInv
  <1>14. \A i \in DOMAIN old : old[i].of[1] = x /\ old[i].of \in seen /\
           \A r \in pending : r.left = -1 => old[i].of # r.of
    BY <1>2, <1>4 DEF ZInv, AnswersOwn
  <1>15. PICK had : had = answered[x] OBVIOUS
  <1>16. had \in Seq(ChannelAnswers) BY <1>2, <1>15 DEF ZInv, Channels
  <1>17. PICK k \in Nat : DOMAIN had = 1 .. k /\ Len(had) = k BY <1>16, LenProperties
  <1>18. PICK has : has = Append(had, msg) OBVIOUS
  <1>19. /\ has \in Seq(ChannelAnswers) /\ DOMAIN has = 1 .. k + 1
         /\ \A i \in 1 .. k : has[i] = had[i]
         /\ has[k + 1] = msg
    BY <1>9, <1>16, <1>17, <1>18, AppendProperties
  <1>20. answered' = answered \/ answered' = [answered EXCEPT ![x] = has] BY <1>11, <1>15, <1>18
  <1>21. \A y \in Zmq!Channel : answered'[y] = answered[y] \/ (y = x /\ answered'[y] = has)
    BY <1>20 DEF ZInv, Channels
  <1>22. \A y \in Zmq!Channel : (y # x /\ toChannel'[y] = toChannel[y]) \/ (y = x /\ toChannel'[y] = new)
    BY <1>10 DEF ZInv, Channels
  <1>23. Channels'
    <2>1. toChannel' \in [Zmq!Channel -> Seq(ChannelAnswers)] BY <1>8, <1>10 DEF ZInv, Channels
    <2>2. answered' \in [Zmq!Channel -> Seq(ChannelAnswers)] BY <1>19, <1>20 DEF ZInv, Channels
    <2> QED BY <1>3, <1>13, <2>1, <2>2 DEF ZInv, Channels
  <1>24. OperationsSent' /\ TakenOnce' BY <1>3 DEF ZInv, OperationsSent, TakenOnce
  <1>25. AnswersOwn'
    <2>1. ASSUME NEW y \in Zmq!Channel, NEW i \in DOMAIN toChannel'[y]
          PROVE  /\ toChannel'[y][i].of[1] = y /\ toChannel'[y][i].of \in seen
                 /\ \A r \in pending : r.left = -1 => toChannel'[y][i].of # r.of
      <3>1. CASE toChannel'[y] = toChannel[y] BY <2>1, <3>1 DEF ZInv, AnswersOwn
      <3>2. CASE y = x /\ toChannel'[y] = new BY <1>8, <1>14, <2>1, <3>2
      <3> QED BY <1>22, <3>1, <3>2
    <2> QED BY <1>3, <2>1 DEF AnswersOwn
  <1>26. Zmq!ResponseFirst'
    <2>1. ASSUME NEW y \in Zmq!Channel, NEW i \in DOMAIN toChannel'[y], NEW j \in DOMAIN toChannel'[y],
                 toChannel'[y][i].kind = "package", toChannel'[y][j].kind = "response",
                 toChannel'[y][i].of = toChannel'[y][j].of
          PROVE  j < i
      <3>1. CASE toChannel'[y] = toChannel[y] BY <2>1, <3>1 DEF ZInv, Zmq!ResponseFirst
      <3>2. CASE y = x /\ toChannel'[y] = new
        <4>1. /\ i + 1 \in DOMAIN old /\ j + 1 \in DOMAIN old /\ i \in Nat /\ j \in Nat
              /\ new[i] = old[i + 1] /\ new[j] = old[j + 1]
          BY <1>8, <2>1, <3>2
        <4>2. j + 1 < i + 1 BY <1>2, <1>4, <2>1, <3>2, <4>1 DEF ZInv, Zmq!ResponseFirst
        <4> QED BY <4>1, <4>2
      <3> QED BY <1>22, <3>1, <3>2
    <2> QED BY <2>1 DEF Zmq!ResponseFirst
  <1>27. Zmq!OwnAnswers'
    <2>1. ASSUME NEW y \in Zmq!Channel, NEW i \in DOMAIN answered'[y]
          PROVE  answered'[y][i].of[1] = y /\ answered'[y][i].of \in seen
      <3>1. CASE answered'[y] = answered[y] BY <2>1, <3>1 DEF ZInv, Zmq!OwnAnswers
      <3>2. CASE y = x /\ answered'[y] = has
        <4>1. CASE i = k + 1 BY <1>8, <1>14, <1>19, <3>2, <4>1
        <4>2. CASE i # k + 1
          <5>1. i \in 1 .. k BY <1>19, <2>1, <3>2, <4>2
          <5>2. has[i] = had[i] /\ had[i] = answered[y][i] /\ i \in DOMAIN answered[y]
            BY <1>15, <1>17, <1>19, <3>2, <5>1
          <5> QED BY <2>1, <3>2, <5>2 DEF ZInv, Zmq!OwnAnswers
        <4> QED BY <4>1, <4>2
      <3> QED BY <1>21, <3>1, <3>2
    <2> QED BY <1>3, <2>1 DEF Zmq!OwnAnswers
  <1> QED BY <1>23, <1>24, <1>25, <1>26, <1>27 DEF ZInv

\* Every step keeps the invariant.
LEMMA NextZInv ==
  ASSUME Zmq!ZmqChannelAssumption, ZInv, [Zmq!Next]_Zmq!vars
  PROVE  ZInv'
  <1>1. ASSUME NEW s \in Sender, Zmq!SenderStep(s) PROVE ZInv'
    <2>1. CASE Zmq!Connect(s) \/ Zmq!Disconnect(s) \/ Zmq!NewChannel(s) \/ Zmq!ReceiveUnconnected(s)
      BY <2>1, ConnectionZInv
    <2>2. ASSUME NEW type \in SentTypes, Zmq!SendOperation(s, type) PROVE ZInv' BY <2>2, SendZInv
    <2>3. ASSUME NEW expected \in {"rop_unknown", "rop_query"}, Zmq!ReceiveResponse(s, expected) PROVE ZInv'
      BY <2>3, ReceiveZInv DEF Zmq!ReceiveResponse
    <2>4. CASE Zmq!ReceiveResult(s) BY <2>4, ReceiveZInv DEF Zmq!ReceiveResult
    <2> QED BY <1>1, <2>1, <2>2, <2>3, <2>4 DEF Zmq!SenderStep
  <1>2. ASSUME NEW validContext \in BOOLEAN, NEW expected, Zmq!ReceiveNothing("nullptr", validContext, expected)
        PROVE  ZInv'
    <2>1. \E how \in {"throws", "nullptr"} : Zmq!Ends(Zmq!Receiver, how) BY <1>2 DEF Zmq!ReceiveNothing
    <2>2. {"throws", "nullptr"} \subseteq Zmq!Outcomes BY DEF Zmq!Outcomes
    <2>3. outcome' \in [Zmq!Sides -> Zmq!Outcomes] BY <2>1, <2>2, ChannelFacts, OutcomeSet DEF ZInv
    <2>4. UNCHANGED <<end_point_, bound, used, toReceiver, toChannel, sent, pending, seen, answered>>
      BY <1>2 DEF Zmq!ReceiveNothing
    <2>5. Channels' BY <2>3, <2>4 DEF ZInv, Channels
    <2> QED BY <2>4, <2>5, ConnectionsKeep
  <1>3. CASE Zmq!ReceiverStep("nullptr")
    <2>1. CASE Zmq!Bind BY <2>1, BindZInv
    <2>2. CASE \E validContext \in BOOLEAN, expected \in {"rop_unknown", "rop_parms"} :
                 \/ Zmq!ReceiveNothing("nullptr", validContext, expected)
                 \/ \E x \in Zmq!Channel : Zmq!ReceiveFrom(x, "nullptr", validContext, expected)
      BY <1>2, <2>2, TakeZInv
    <2>3. CASE \E rop \in pending : Zmq!SendResponse(rop) \/ Zmq!SendPackage(rop)
      BY <2>3, ResponseZInv, PackageZInv
    <2> QED BY <1>3, <2>1, <2>2, <2>3 DEF Zmq!ReceiverStep
  <1>4. CASE UNCHANGED Zmq!vars
    <2>1. UNCHANGED <<end_point_, bound, used, toReceiver, toChannel, sent, pending, outcome, seen, answered>>
      BY <1>4 DEF Zmq!vars
    <2>2. Channels' BY <2>1 DEF ZInv, Channels
    <2> QED BY <2>1, <2>2, ConnectionsKeep
  <1> QED BY <1>1, <1>3, <1>4 DEF Zmq!Next

\* What a channel receives answers an operation that it has sent and the
\* receiver has taken, never one of a former channel of the same program, and
\* no package comes before the response, although pool tasks send those.
THEOREM Owned ==
  ASSUME Zmq!ZmqChannelAssumption
  PROVE  Zmq!Spec => [](Zmq!TypeOK /\ Zmq!OwnAnswers /\ Zmq!ResponseFirst)
  <1>1. Zmq!Init => ZInv BY InitZInv
  <1>2. ZInv /\ [Zmq!Next]_Zmq!vars => ZInv' BY NextZInv
  <1>3. ZInv => Zmq!TypeOK /\ Zmq!OwnAnswers /\ Zmq!ResponseFirst
    BY DEF ZInv, Channels, TakenOnce, Pending, Zmq!TypeOK
  <1> QED BY <1>1, <1>2, <1>3, PTL DEF Zmq!Spec

-----------------------------------------------------------------------------
(***************************************************************************)
(* That a refused message costs no other, on a channel of C++ streams, for *)
(* any number of threads that send.                                        *)
(*                                                                         *)
(* Nothing in a stream says where a message begins.  Its first buffer is a *)
(* header, or the body of a package; the invariant says that a body that   *)
(* is no first buffer follows its header, or was left behind at the front  *)
(* by a receive that refused the header, and that each message that is     *)
(* sent is in one place: in the stream, handed out or refused.             *)
(***************************************************************************)
CONSTANTS Threads, Messages, MaxReceives

VARIABLES direction, buffers, in_fails, mutex, sending, written, received, refused

Stream == INSTANCE StreamChannel WITH stream <- buffers, sent <- written

\* A buffer that is written, whether a message begins with it, and the two
\* buffers of its message.
Buffer == [of : Threads, part : {"header", "body"}, msg : Messages]
First(b) == b.part = "header" \/ b.msg.kind = "package"
HeaderOf(b) == [b EXCEPT !.part = "header"]
BodyOf(b) == [b EXCEPT !.part = "body"]

\* A thread has written nothing; or the first of two buffers, the other one
\* being still to come; or everything.
Unwritten(t) ==
  /\ \E msg \in Messages : sending[t] = Stream!Buffers(t, msg)
  /\ mutex # {t} /\ t \notin Range(written) /\ t \notin Range(received) /\ t \notin refused
  /\ \A i \in DOMAIN buffers : buffers[i].of # t

HalfWritten(t) ==
  /\ \E b \in Buffer :
       /\ b.of = t /\ b.part = "body" /\ b.msg.kind # "package" /\ sending[t] = <<b>>
       /\ buffers # <<>> => buffers[Len(buffers)] = HeaderOf(b)
  /\ buffers = <<>> => t \in refused
  /\ mutex = {t} /\ t \in Range(written)

AllWritten(t) == sending[t] = <<>> /\ mutex # {t} /\ t \in Range(written)

\* One is before another in a sequence.
Earlier(s, t, u) == \E k, l \in DOMAIN s : k < l /\ s[k] = t /\ s[l] = u

\* What the sequences hold.
Fields ==
  /\ buffers \in Seq(Buffer) /\ written \in Seq(Threads) /\ received \in Seq(Threads)
  /\ sending = [t \in Threads |-> sending[t]]

\* A message that was sent is in the stream with its first buffer, was handed
\* out or refused.
Placed ==
  /\ \A t \in Range(written) :
       t \in Range(received) \/ t \in refused \/ \E i \in DOMAIN buffers : buffers[i].of = t /\ First(buffers[i])
  /\ \A i \in DOMAIN buffers : First(buffers[i]) =>
       /\ buffers[i].of \in Range(written)
       /\ buffers[i].of \notin Range(received) /\ buffers[i].of \notin refused
  /\ \A i, j \in DOMAIN buffers :
       First(buffers[i]) /\ First(buffers[j]) /\ buffers[i].of = buffers[j].of => i = j
  /\ Range(received) \subseteq Range(written)
  /\ Range(received) \cap refused = {}
  /\ \A i, j \in DOMAIN received : received[i] = received[j] => i = j

\* Bodies follow their headers, but for one that was left behind.
Framing ==
  /\ \A i \in DOMAIN buffers : buffers[i].part = "header" => buffers[i].msg.kind # "package"
  /\ \A i \in DOMAIN buffers : buffers[i].part = "header" /\ i < Len(buffers) => buffers[i + 1] = BodyOf(buffers[i])
  /\ \A i \in DOMAIN buffers : ~First(buffers[i]) =>
       \/ i = 1 /\ buffers[i].of \in refused
       \/ i > 1 /\ buffers[i - 1] = HeaderOf(buffers[i])
  /\ \A i \in DOMAIN buffers : i = Len(buffers) /\ buffers[i].part = "header" => mutex = {buffers[i].of}

\* What is received was sent in this order, before what is in the stream.
Ordered ==
  /\ \A i, j \in DOMAIN received : i < j => Earlier(written, received[i], received[j])
  /\ \A i \in DOMAIN received, j \in DOMAIN buffers :
       First(buffers[j]) => Earlier(written, received[i], buffers[j].of)
  /\ \A i, j \in DOMAIN buffers :
       First(buffers[i]) /\ First(buffers[j]) /\ i < j => Earlier(written, buffers[i].of, buffers[j].of)

\* And every thread is at one of three places.
SInv ==
  /\ Fields /\ Placed /\ Framing /\ Ordered
  /\ \A t \in Threads : Unwritten(t) \/ HalfWritten(t) \/ AllWritten(t)

\* What is known of a sequence and of one with another element.
LEMMA Sequence ==
  ASSUME NEW S, NEW s \in Seq(S)
  PROVE  /\ Len(s) \in Nat /\ DOMAIN s = 1 .. Len(s)
         /\ \A i \in 1 .. Len(s) : s[i] \in S
  BY LenProperties, ElementOfSeq

\* One more element: where it is, and that the others stay where they were.
LEMMA Appended ==
  ASSUME NEW S, NEW s \in Seq(S), NEW e \in S, NEW t, t = Append(s, e)
  PROVE  /\ t \in Seq(S) /\ Len(t) = Len(s) + 1
         /\ DOMAIN s = 1 .. Len(s) /\ DOMAIN t = 1 .. Len(s) + 1 /\ Len(s) \in Nat
         /\ \A i \in DOMAIN s : t[i] = s[i] /\ i \in DOMAIN t
         /\ t[Len(s) + 1] = e
         /\ \A i \in DOMAIN t : i \in DOMAIN s \/ i = Len(s) + 1
  <1>1. Len(s) \in Nat /\ DOMAIN s = 1 .. Len(s) BY Sequence
  <1>2. /\ t \in Seq(S) /\ Len(t) = Len(s) + 1 /\ t[Len(s) + 1] = e
        /\ \A i \in 1 .. Len(s) : t[i] = s[i]
    BY AppendProperties
  <1>3. DOMAIN t = 1 .. Len(s) + 1 BY <1>2, Sequence
  <1>4. \A i \in DOMAIN t : i \in DOMAIN s \/ i = Len(s) + 1 BY <1>1, <1>3
  <1>5. \A i \in DOMAIN s : i \in DOMAIN t BY <1>1, <1>3
  <1> QED BY <1>1, <1>2, <1>3, <1>4, <1>5

\* And nothing else comes into the sequence.
LEMMA RangeAppended ==
  ASSUME NEW S, NEW s \in Seq(S), NEW e \in S
  PROVE  Range(Append(s, e)) = Range(s) \cup {e}
  <1>1. PICK t : t = Append(s, e) OBVIOUS
  <1>2. /\ DOMAIN s = 1 .. Len(s) /\ DOMAIN t = 1 .. Len(s) + 1 /\ Len(s) \in Nat
        /\ \A i \in DOMAIN s : t[i] = s[i] /\ i \in DOMAIN t
        /\ t[Len(s) + 1] = e
        /\ \A i \in DOMAIN t : i \in DOMAIN s \/ i = Len(s) + 1
    BY <1>1, Appended
  <1>3. Len(s) + 1 \in DOMAIN t BY <1>2
  <1>4. Range(t) = Range(s) \cup {e} BY <1>2, <1>3 DEF Range
  <1> QED BY <1>1, <1>4

\* What a thread is to write: one buffer, or a header and its body.
LEMMA BuffersAre ==
  ASSUME NEW t \in Threads, NEW msg \in Messages
  PROVE  \E b \in Buffer :
           /\ b.of = t /\ b.part = "body" /\ b.msg = msg /\ HeaderOf(b) \in Buffer
           /\ HeaderOf(b).of = t /\ HeaderOf(b).part = "header" /\ HeaderOf(b).msg = msg /\ BodyOf(HeaderOf(b)) = b
           /\ Stream!Buffers(t, msg) = IF msg.kind \in Stream!Framed THEN <<HeaderOf(b), b>> ELSE <<b>>
  <1>1. PICK b : b = [of |-> t, part |-> "body", msg |-> msg] OBVIOUS
  <1>2. HeaderOf(b) = [of |-> t, part |-> "header", msg |-> msg] BY <1>1 DEF HeaderOf
  <1>3. b \in Buffer /\ HeaderOf(b) \in Buffer BY <1>1, <1>2 DEF Buffer
  <1>4. BodyOf(HeaderOf(b)) = b BY <1>1, <1>2 DEF BodyOf
  <1>5. Stream!Buffers(t, msg) = IF msg.kind \in Stream!Framed THEN <<HeaderOf(b), b>> ELSE <<b>>
    <2>1. PICK h : h = [of |-> t, part |-> "header", msg |-> msg] OBVIOUS
    <2>2. Stream!Buffers(t, msg) = (IF msg.kind \in Stream!Framed THEN <<h>> ELSE <<>>) \o <<b>>
      BY <1>1, <2>1 DEF Stream!Buffers
    <2>3. <<h>> \o <<b>> = <<h, b>>
      <3>1. <<h>> \in Seq({h, b}) /\ <<b>> \in Seq({h, b}) OBVIOUS
      <3>2. <<h>> \o <<b>> \in Seq({h, b}) /\ <<h, b>> \in Seq({h, b}) BY <3>1, ConcatProperties
      <3>3. Len(<<h>>) = 1 /\ Len(<<b>>) = 1 /\ <<h>>[1] = h /\ <<b>>[1] = b OBVIOUS
      <3>4. Len(<<h>> \o <<b>>) = 2 /\ (<<h>> \o <<b>>)[1] = h /\ (<<h>> \o <<b>>)[2] = b
        BY <3>1, <3>3, ConcatProperties
      <3>5. Len(<<h, b>>) = 2 /\ <<h, b>>[1] = h /\ <<h, b>>[2] = b OBVIOUS
      <3>6. \A i \in 1 .. 2 : (<<h>> \o <<b>>)[i] = <<h, b>>[i] BY <3>4, <3>5
      <3> QED BY <3>2, <3>4, <3>5, <3>6, SeqEqual
    <2>7. <<>> \o <<b>> = <<b>>
      <3>1. <<b>> \in Seq({b}) OBVIOUS
      <3> QED BY <3>1, ConcatEmptySeq
    <2>4. HeaderOf(b) = h BY <1>2, <2>1
    <2>5. CASE msg.kind \in Stream!Framed BY <2>2, <2>3, <2>4, <2>5
    <2>6. CASE msg.kind \notin Stream!Framed BY <2>2, <2>6, <2>7
    <2> QED BY <2>5, <2>6
  <1> QED BY <1>1, <1>2, <1>3, <1>4, <1>5

\* At first nothing is written.
LEMMA InitSInv ==
  ASSUME Stream!Init
  PROVE  SInv
  <1>1. /\ buffers = <<>> /\ written = <<>> /\ received = <<>> /\ refused = {} /\ mutex = {}
        /\ \E msgs \in [Threads -> Messages] : sending = [t \in Threads |-> Stream!Buffers(t, msgs[t])]
    BY DEF Stream!Init, Stream!Nobody
  <1>2. DOMAIN <<>> = {} /\ Range(<<>>) = {} BY DEF Range
  <1>3. Fields BY <1>1 DEF Fields
  <1>4. Placed /\ Framing /\ Ordered BY <1>1, <1>2 DEF Placed, Framing, Ordered
  <1>5. ASSUME NEW t \in Threads PROVE Unwritten(t) BY <1>1, <1>2 DEF Unwritten
  <1> QED BY <1>3, <1>4, <1>5 DEF SInv

\* The thread that has the lock is the only one half way through its message.
LEMMA OneHalfWritten ==
  ASSUME NEW t \in Threads, Stream!Lock(t), NEW u \in Threads, HalfWritten(u)
  PROVE  u = t
  <1>1. mutex = {u} /\ mutex \in {{}, {t}} BY DEF HalfWritten, Stream!Lock, Stream!Nobody
  <1> QED BY <1>1

\* A thread writes the first buffer of its message.
LEMMA FirstWritten ==
  ASSUME SInv, NEW t \in Threads, Stream!Lock(t), Unwritten(t), NEW e \in Buffer, e.of = t, First(e),
         e.part = "header" => e.msg.kind # "package" /\ mutex' = {t},
         buffers' = Append(buffers, e), written' = Append(written, t),
         UNCHANGED <<received, refused>>, sending' = [u \in Threads |-> sending'[u]]
  PROVE  Fields' /\ Placed' /\ Framing' /\ Ordered'
  <1> DEFINE n == Len(buffers)
             m == Len(written)
  <1>1. buffers \in Seq(Buffer) /\ written \in Seq(Threads) /\ received \in Seq(Threads) BY DEF SInv, Fields
  <1>2. /\ buffers' \in Seq(Buffer) /\ Len(buffers') = n + 1
        /\ DOMAIN buffers = 1 .. n /\ DOMAIN buffers' = 1 .. n + 1 /\ n \in Nat
        /\ \A i \in DOMAIN buffers : buffers'[i] = buffers[i] /\ i \in DOMAIN buffers'
        /\ buffers'[n + 1] = e
        /\ \A i \in DOMAIN buffers' : i \in DOMAIN buffers \/ i = n + 1
    BY <1>1, Appended
  <1>3. /\ written' \in Seq(Threads) /\ Len(written') = m + 1
        /\ DOMAIN written = 1 .. m /\ DOMAIN written' = 1 .. m + 1 /\ m \in Nat
        /\ \A i \in DOMAIN written : written'[i] = written[i] /\ i \in DOMAIN written'
        /\ written'[m + 1] = t
        /\ Range(written') = Range(written) \cup {t}
    <2>1. PICK w : w = written' OBVIOUS
    <2>2. w = Append(written, t) BY <2>1
    <2>4. written \in Seq(Threads) BY <1>1
    <2>5. t \in Threads OBVIOUS
    <2>3. /\ w \in Seq(Threads) /\ Len(w) = Len(written) + 1
          /\ DOMAIN written = 1 .. Len(written) /\ DOMAIN w = 1 .. Len(written) + 1 /\ Len(written) \in Nat
          /\ \A i \in DOMAIN written : w[i] = written[i] /\ i \in DOMAIN w
          /\ w[Len(written) + 1] = t
      BY ONLY <2>2, <2>4, <2>5, Appended
    <2>6. Range(w) = Range(written) \cup {t} BY ONLY <2>2, <2>4, <2>5, RangeAppended
    <2> QED BY <2>1, <2>3, <2>6
  <1> HIDE DEF n, m
  <1>4. Fields' BY <1>1, <1>2, <1>3 DEF Fields
  <1>5. /\ mutex # {t} /\ t \notin Range(written) /\ t \notin Range(received) /\ t \notin refused
        /\ \A i \in DOMAIN buffers : buffers[i].of # t
    BY DEF Unwritten
  <1>6. Placed'
    <2>1. \A u \in Range(written') :
            \/ u \in Range(received) \/ u \in refused
            \/ \E i \in DOMAIN buffers' : buffers'[i].of = u /\ First(buffers'[i])
      <3>1. n + 1 \in DOMAIN buffers' BY <1>2
      <3> QED BY <1>2, <1>3, <3>1 DEF SInv, Placed
    <2>2. \A i \in DOMAIN buffers' : First(buffers'[i]) =>
            /\ buffers'[i].of \in Range(written')
            /\ buffers'[i].of \notin Range(received) /\ buffers'[i].of \notin refused
      BY <1>2, <1>3, <1>5 DEF SInv, Placed
    <2>3. \A i, j \in DOMAIN buffers' :
            First(buffers'[i]) /\ First(buffers'[j]) /\ buffers'[i].of = buffers'[j].of => i = j
      BY <1>2, <1>5 DEF SInv, Placed
    <2>4. Range(received) \subseteq Range(written') BY <1>3 DEF SInv, Placed
    <2> QED BY <2>1, <2>2, <2>3, <2>4 DEF SInv, Placed
  <1>7. \A i \in DOMAIN buffers : i = n => buffers[i].part # "header"
    <2>1. mutex = {} BY <1>5 DEF Stream!Lock, Stream!Nobody
    <2> QED BY <2>1 DEF SInv, Framing, n
  <1>8. Framing'
    <2>1. \A i \in DOMAIN buffers' : buffers'[i].part = "header" => buffers'[i].msg.kind # "package"
      BY <1>2 DEF SInv, Framing
    <2>2. ASSUME NEW i \in DOMAIN buffers', buffers'[i].part = "header", i < n + 1
          PROVE  buffers'[i + 1] = BodyOf(buffers'[i])
      <3>1. i \in DOMAIN buffers /\ buffers'[i] = buffers[i] BY <1>2, <2>2
      <3>2. i # n BY <1>7, <2>2, <3>1
      <3>3. i < n /\ i + 1 \in DOMAIN buffers BY <1>2, <2>2, <3>1, <3>2
      <3>4. buffers[i + 1] = BodyOf(buffers[i]) BY <2>2, <3>1, <3>3 DEF SInv, Framing, n
      <3> QED BY <1>2, <3>1, <3>3, <3>4
    <2>3. ASSUME NEW i \in DOMAIN buffers', ~First(buffers'[i])
          PROVE  \/ i = 1 /\ buffers'[i].of \in refused
                 \/ i > 1 /\ buffers'[i - 1] = HeaderOf(buffers'[i])
      <3>1. i \in DOMAIN buffers /\ buffers'[i] = buffers[i] BY <1>2, <2>3
      <3>2. \/ i = 1 /\ buffers[i].of \in refused
            \/ i > 1 /\ buffers[i - 1] = HeaderOf(buffers[i])
        BY <2>3, <3>1 DEF SInv, Framing
      <3>3. i > 1 => i - 1 \in DOMAIN buffers BY <1>2, <3>1
      <3> QED BY <1>2, <3>1, <3>2, <3>3
    <2>4. \A i \in DOMAIN buffers' : i = n + 1 /\ buffers'[i].part = "header" => mutex' = {buffers'[i].of}
      BY <1>2
    <2> QED BY <1>2, <2>1, <2>2, <2>3, <2>4 DEF Framing
  <1>9. \A u, v : Earlier(written, u, v) => Earlier(written', u, v) BY <1>3 DEF Earlier
  <1>10. \A u \in Range(written) : Earlier(written', u, t)
    <2>1. ASSUME NEW k \in DOMAIN written PROVE Earlier(written', written[k], t)
      <3>1. k < m + 1 /\ m + 1 \in DOMAIN written' BY <1>3
      <3> QED BY <1>3, <3>1 DEF Earlier
    <2> QED BY <2>1 DEF Range
  <1>11. Ordered'
    <2>1. \A i, j \in DOMAIN received : i < j => Earlier(written', received[i], received[j]) BY <1>9 DEF SInv, Ordered
    <2>2. \A i \in DOMAIN received, j \in DOMAIN buffers' :
            First(buffers'[j]) => Earlier(written', received[i], buffers'[j].of)
      <3>1. \A i \in DOMAIN received : received[i] \in Range(written) BY DEF SInv, Placed, Range
      <3> QED BY <1>2, <1>9, <1>10, <3>1 DEF SInv, Ordered
    <2>3. ASSUME NEW i \in DOMAIN buffers', NEW j \in DOMAIN buffers',
                 First(buffers'[i]), First(buffers'[j]), i < j
          PROVE  Earlier(written', buffers'[i].of, buffers'[j].of)
      <3>1. i \in DOMAIN buffers /\ buffers'[i] = buffers[i] BY <1>2, <2>3
      <3>2. buffers[i].of \in Range(written) BY <2>3, <3>1 DEF SInv, Placed
      <3>3. CASE j \in DOMAIN buffers
        <4>1. buffers'[j] = buffers[j] BY <1>2, <3>3
        <4>2. Earlier(written, buffers[i].of, buffers[j].of) BY <2>3, <3>1, <3>3, <4>1 DEF SInv, Ordered
        <4> QED BY <1>9, <3>1, <4>1, <4>2
      <3>4. CASE j = n + 1 BY <1>2, <1>10, <3>1, <3>2, <3>4
      <3> QED BY <1>2, <3>3, <3>4
    <2> QED BY <2>1, <2>2, <2>3 DEF Ordered
  <1> QED BY <1>4, <1>6, <1>8, <1>11

\* A thread writes the second one.
LEMMA SecondWritten ==
  ASSUME SInv, NEW t \in Threads, NEW e \in Buffer,
         e.of = t, e.part = "body", e.msg.kind # "package",
         buffers # <<>> => buffers[Len(buffers)] = HeaderOf(e), buffers = <<>> => t \in refused,
         buffers' = Append(buffers, e),
         UNCHANGED <<written, received, refused>>, sending' = [u \in Threads |-> sending'[u]]
  PROVE  Fields' /\ Placed' /\ Framing' /\ Ordered'
  <1> DEFINE n == Len(buffers)
  <1>1. buffers \in Seq(Buffer) BY DEF SInv, Fields
  <1>2. /\ buffers' \in Seq(Buffer) /\ Len(buffers') = n + 1
        /\ DOMAIN buffers = 1 .. n /\ DOMAIN buffers' = 1 .. n + 1 /\ n \in Nat
        /\ \A i \in DOMAIN buffers : buffers'[i] = buffers[i] /\ i \in DOMAIN buffers'
        /\ buffers'[n + 1] = e
        /\ \A i \in DOMAIN buffers' : i \in DOMAIN buffers \/ i = n + 1
    BY <1>1, Appended
  <1>3. Fields' BY <1>2 DEF SInv, Fields
  <1>4. ~First(e) BY DEF First
  <1>5. n # 0 => buffers[n] = HeaderOf(e) /\ n \in DOMAIN buffers
    <2>1. n # 0 => buffers # <<>> OBVIOUS
    <2> QED BY <1>2, <2>1
  <1>6. n = 0 => t \in refused BY <1>1, EmptySeq
  <1> HIDE DEF n
  <1>7. \A i \in DOMAIN buffers' : First(buffers'[i]) => i \in DOMAIN buffers /\ buffers'[i] = buffers[i]
    BY <1>2, <1>4
  <1>8. Placed'
    <2>1. \A u \in Range(written) :
            \/ u \in Range(received) \/ u \in refused
            \/ \E i \in DOMAIN buffers' : buffers'[i].of = u /\ First(buffers'[i])
      BY <1>2 DEF SInv, Placed
    <2> QED BY <1>7, <2>1 DEF SInv, Placed
  <1>9. BodyOf(HeaderOf(e)) = e BY DEF BodyOf, HeaderOf, Buffer
  <1>10. Framing'
    <2>1. \A i \in DOMAIN buffers' : buffers'[i].part = "header" => buffers'[i].msg.kind # "package"
      BY <1>2 DEF SInv, Framing
    <2>2. ASSUME NEW i \in DOMAIN buffers', buffers'[i].part = "header", i < n + 1
          PROVE  buffers'[i + 1] = BodyOf(buffers'[i])
      <3>1. i \in DOMAIN buffers /\ buffers'[i] = buffers[i] BY <1>2, <2>2
      <3>2. CASE i = n BY <1>2, <1>5, <1>9, <3>1, <3>2
      <3>3. CASE i # n
        <4>1. i < n /\ i + 1 \in DOMAIN buffers BY <1>2, <3>1, <3>3
        <4>2. buffers[i + 1] = BodyOf(buffers[i]) BY <2>2, <3>1, <4>1 DEF SInv, Framing, n
        <4> QED BY <1>2, <3>1, <4>1, <4>2
      <3> QED BY <3>2, <3>3
    <2>3. ASSUME NEW i \in DOMAIN buffers', ~First(buffers'[i])
          PROVE  \/ i = 1 /\ buffers'[i].of \in refused
                 \/ i > 1 /\ buffers'[i - 1] = HeaderOf(buffers'[i])
      <3>1. CASE i = n + 1
        <4>1. CASE n = 0 BY <1>2, <1>6, <3>1, <4>1
        <4>2. CASE n # 0 BY <1>2, <1>5, <3>1, <4>2
        <4> QED BY <4>1, <4>2
      <3>2. CASE i \in DOMAIN buffers
        <4>1. \/ i = 1 /\ buffers[i].of \in refused
              \/ i > 1 /\ buffers[i - 1] = HeaderOf(buffers[i])
          BY <1>2, <2>3, <3>2 DEF SInv, Framing
        <4>2. i > 1 => i - 1 \in DOMAIN buffers BY <1>2, <3>2
        <4> QED BY <1>2, <3>2, <4>1, <4>2
      <3> QED BY <1>2, <3>1, <3>2
    <2>4. \A i \in DOMAIN buffers' : i = n + 1 /\ buffers'[i].part = "header" => mutex' = {buffers'[i].of}
      BY <1>2
    <2> QED BY <1>2, <2>1, <2>2, <2>3, <2>4 DEF Framing
  <1>11. Ordered' BY <1>7 DEF SInv, Ordered, Earlier
  <1> QED BY <1>3, <1>8, <1>10, <1>11

\* A thread writes a buffer.
LEMMA WriteSInv ==
  ASSUME SInv, Stream!StreamChannelAssumption, NEW t \in Threads, Stream!Write(t)
  PROVE  SInv'
  <1>1. /\ Stream!Lock(t) /\ UNCHANGED <<received, refused>> /\ sending[t] # <<>>
        /\ buffers' = Append(buffers, Head(sending[t])) /\ sending' = [sending EXCEPT ![t] = Tail(@)]
        /\ mutex' = (IF Len(sending[t]) = 1 THEN {} ELSE {t})
        /\ written' = (IF \E i \in DOMAIN written : written[i] = t THEN written ELSE Append(written, t))
    BY DEF Stream!Write, Stream!Nobody
  <1>2. sending = [u \in Threads |-> sending[u]] BY DEF SInv, Fields
  <1>3. /\ sending' = [u \in Threads |-> sending'[u]] /\ sending'[t] = Tail(sending[t])
        /\ \A u \in Threads \ {t} : sending'[u] = sending[u]
    BY <1>1, <1>2
  <1>4. Unwritten(t) \/ HalfWritten(t) BY <1>1 DEF SInv, AllWritten
  <1>5. written' = IF t \in Range(written) THEN written ELSE Append(written, t) BY <1>1 DEF Range
  <1>6. buffers \in Seq(Buffer) /\ written \in Seq(Threads) BY DEF SInv, Fields
  <1>12. Range(written') = Range(written) \cup {t}
    <2>1. CASE t \in Range(written) BY <1>5, <2>1
    <2>2. CASE t \notin Range(written)
      <3>1. PICK w : w = written' OBVIOUS
      <3>2. w = Append(written, t) BY <1>5, <2>2, <3>1
      <3>4. t \in Threads /\ written \in Seq(Threads) BY <1>6
      <3>3. Range(w) = Range(written) \cup {t} BY ONLY <3>2, <3>4, RangeAppended
      <3> QED BY <3>1, <3>3
    <2> QED BY <2>1, <2>2
  <1>7. \A e \in Buffer : buffers' = Append(buffers, e) =>
          \A i \in DOMAIN buffers' : buffers'[i] = e \/ (i \in DOMAIN buffers /\ buffers'[i] = buffers[i])
    BY <1>6, Appended
  <1>8. \A e \in Buffer : buffers' = Append(buffers, e) => buffers' # <<>> /\ buffers'[Len(buffers')] = e
    <2> SUFFICES ASSUME NEW e \in Buffer, buffers' = Append(buffers, e)
                 PROVE  buffers' # <<>> /\ buffers'[Len(buffers')] = e
      OBVIOUS
    <2>1. Len(buffers') = Len(buffers) + 1 /\ Len(buffers) \in Nat /\ buffers'[Len(buffers) + 1] = e
      BY <1>6, Appended
    <2> QED BY <2>1
  <1>9. ASSUME NEW e \in Buffer, e.of = t, buffers' = Append(buffers, e), t \in Range(written'),
               NEW u \in Threads, u # t
        PROVE  Unwritten(u)' \/ AllWritten(u)'
    <2>1. Unwritten(u) \/ AllWritten(u) BY <1>1, <1>9, OneHalfWritten DEF SInv
    <2>2. mutex' # {u} /\ sending'[u] = sending[u] BY <1>1, <1>3, <1>9
    <2>3. Range(written') \subseteq Range(written) \cup {t} /\ Range(written) \subseteq Range(written')
      BY <1>12
    <2>4. CASE Unwritten(u)
      <3>1. \A i \in DOMAIN buffers' : buffers'[i].of # u BY <1>7, <1>9, <2>4 DEF Unwritten
      <3> QED BY <1>1, <1>9, <2>2, <2>3, <2>4, <3>1 DEF Unwritten
    <2>5. CASE AllWritten(u) BY <2>2, <2>3, <2>5 DEF AllWritten
    <2> QED BY <2>1, <2>4, <2>5
  <1>10. CASE Unwritten(t)
    <2>1. PICK msg \in Messages : sending[t] = Stream!Buffers(t, msg) BY <1>10 DEF Unwritten
    <2>2. PICK b \in Buffer :
            /\ b.of = t /\ b.part = "body" /\ b.msg = msg /\ HeaderOf(b) \in Buffer
            /\ HeaderOf(b).of = t /\ HeaderOf(b).part = "header" /\ HeaderOf(b).msg = msg /\ BodyOf(HeaderOf(b)) = b
            /\ sending[t] = IF msg.kind \in Stream!Framed THEN <<HeaderOf(b), b>> ELSE <<b>>
      BY <2>1, BuffersAre
    <2>3. t \notin Range(written) /\ written' = Append(written, t) /\ t \in Range(written')
      <3>1. t \notin Range(written) BY <1>10 DEF Unwritten
      <3>2. written' = Append(written, t) BY <1>5, <3>1
      <3>3. Range(written') = Range(written) \cup {t} BY <1>12
      <3> QED BY <3>1, <3>2, <3>3
    <2>4. msg.kind \in Stream!Framed <=> msg.kind # "package"
      BY DEF Stream!StreamChannelAssumption, Stream!Framed
    <2>5. CASE msg.kind # "package"
      <3>1. PICK h \in Buffer : h = HeaderOf(b) BY <2>2
      <3>2. sending[t] = <<h, b>> BY <2>2, <2>4, <2>5, <3>1
      <3>3. Head(sending[t]) = h /\ Tail(sending[t]) = <<b>> /\ Len(sending[t]) = 2 BY <3>2
      <3>4. buffers' = Append(buffers, h) /\ mutex' = {t} /\ sending'[t] = <<b>>
        <4>1. Len(sending[t]) # 1 BY <3>3
        <4>2. mutex' = {t} BY <1>1, <4>1
        <4>3. buffers' = Append(buffers, h) BY <1>1, <3>3
        <4>4. sending'[t] = <<b>> BY <1>3, <3>3
        <4> QED BY <4>2, <4>3, <4>4
      <3>5. h.of = t /\ First(h) /\ h.msg.kind # "package" BY <2>2, <2>5, <3>1 DEF First
      <3>6. Fields' /\ Placed' /\ Framing' /\ Ordered'
        BY <1>1, <1>3, <1>10, <2>3, <3>4, <3>5, FirstWritten
      <3>7. HalfWritten(t)' BY <1>8, <2>2, <2>3, <2>5, <3>1, <3>4 DEF HalfWritten
      <3>8. \A u \in Threads : Unwritten(u)' \/ HalfWritten(u)' \/ AllWritten(u)' BY <1>9, <2>3, <3>4, <3>5, <3>7
      <3> QED BY <3>6, <3>8 DEF SInv
    <2>6. CASE msg.kind = "package"
      <3>1. sending[t] = <<b>> BY <2>2, <2>4, <2>6
      <3>2. Head(sending[t]) = b /\ Tail(sending[t]) = <<>> /\ Len(sending[t]) = 1 BY <3>1
      <3>3. buffers' = Append(buffers, b) /\ mutex' = {} /\ sending'[t] = <<>> BY <1>1, <1>3, <3>2
      <3>4. First(b) BY <2>2, <2>6 DEF First
      <3>5. Fields' /\ Placed' /\ Framing' /\ Ordered'
        BY <1>1, <1>3, <1>10, <2>2, <2>3, <3>3, <3>4, FirstWritten
      <3>6. AllWritten(t)' BY <2>3, <3>3 DEF AllWritten
      <3>7. \A u \in Threads : Unwritten(u)' \/ HalfWritten(u)' \/ AllWritten(u)' BY <1>9, <2>2, <2>3, <3>3, <3>6
      <3> QED BY <3>5, <3>7 DEF SInv
    <2> QED BY <2>5, <2>6
  <1>11. CASE HalfWritten(t)
    <2>1. PICK b \in Buffer :
            /\ b.of = t /\ b.part = "body" /\ b.msg.kind # "package" /\ sending[t] = <<b>>
            /\ buffers # <<>> => buffers[Len(buffers)] = HeaderOf(b)
      BY <1>11 DEF HalfWritten
    <2>2. Head(sending[t]) = b /\ Tail(sending[t]) = <<>> /\ Len(sending[t]) = 1 BY <2>1
    <2>3. buffers' = Append(buffers, b) /\ mutex' = {} /\ sending'[t] = <<>> BY <1>1, <1>3, <2>2
    <2>4. t \in Range(written) /\ written' = written /\ (buffers = <<>> => t \in refused)
      BY <1>5, <1>11 DEF HalfWritten
    <2>5. Fields' /\ Placed' /\ Framing' /\ Ordered' BY <1>1, <1>3, <2>1, <2>3, <2>4, SecondWritten
    <2>6. AllWritten(t)' BY <2>3, <2>4 DEF AllWritten
    <2>7. \A u \in Threads : Unwritten(u)' \/ HalfWritten(u)' \/ AllWritten(u)' BY <1>9, <2>1, <2>3, <2>4, <2>6
    <2> QED BY <2>5, <2>7 DEF SInv
  <1> QED BY <1>4, <1>10, <1>11

\* What is left of a sequence without its first elements.
LEMMA Remaining ==
  ASSUME NEW S, NEW s \in Seq(S), NEW n \in Nat, n <= Len(s), NEW r, r = SubSeq(s, n + 1, Len(s))
  PROVE  /\ r \in Seq(S) /\ Len(r) = Len(s) - n /\ DOMAIN r = 1 .. Len(s) - n
         /\ \A i \in DOMAIN r : i + n \in DOMAIN s /\ r[i] = s[i + n]
         /\ \A j \in DOMAIN s : j > n => j - n \in DOMAIN r /\ r[j - n] = s[j]
  <1>1. Len(s) \in Nat /\ DOMAIN s = 1 .. Len(s) /\ \A i \in 1 .. Len(s) : s[i] \in S BY Sequence
  <1>2. /\ r \in Seq(S) /\ Len(r) = (IF n + 1 <= Len(s) THEN Len(s) - (n + 1) + 1 ELSE 0)
        /\ \A i \in 1 .. Len(s) - (n + 1) + 1 : r[i] = s[(n + 1) + i - 1]
    <2>1. n + 1 \in Int /\ Len(s) \in Int /\ \A i \in n + 1 .. Len(s) : s[i] \in S BY <1>1
    <2> QED BY ONLY <2>1, r = SubSeq(s, n + 1, Len(s)), SubSeqProperties
  <1>3. Len(r) = Len(s) - n
    <2>1. Len(r) = (IF n + 1 <= Len(s) THEN Len(s) - (n + 1) + 1 ELSE 0) BY <1>2
    <2>2. Len(s) \in Nat BY <1>1
    <2>3. CASE n + 1 <= Len(s) BY <2>1, <2>2, <2>3
    <2>4. CASE n = Len(s) BY <2>1, <2>2, <2>4
    <2> QED BY <2>2, <2>3, <2>4
  <1>4. DOMAIN r = 1 .. Len(s) - n BY <1>2, <1>3, Sequence
  <1>5. \A i \in DOMAIN r : i + n \in DOMAIN s /\ r[i] = s[i + n]
    <2> SUFFICES ASSUME NEW i \in DOMAIN r PROVE i + n \in DOMAIN s /\ r[i] = s[i + n]
      OBVIOUS
    <2>1. i \in 1 .. Len(s) - (n + 1) + 1 /\ (n + 1) + i - 1 = i + n BY <1>1, <1>4
    <2>2. r[i] = s[i + n] BY <1>2, <2>1
    <2> QED BY <1>1, <1>4, <2>2
  <1>6. \A j \in DOMAIN s : j > n => j - n \in DOMAIN r /\ r[j - n] = s[j]
    <2> SUFFICES ASSUME NEW j \in DOMAIN s, j > n PROVE j - n \in DOMAIN r /\ r[j - n] = s[j]
      OBVIOUS
    <2>1. j - n \in DOMAIN r /\ (j - n) + n = j BY <1>1, <1>4
    <2> QED BY <1>5, <2>1
  <1> QED BY <1>2, <1>3, <1>4, <1>5, <1>6

\* A receive takes the front of the stream and refuses it or hands it out.
TakesFront(n) ==
  /\ n \in {1, 2} /\ n <= Len(buffers) /\ buffers' = Stream!Taken(n)
  /\ n = 2 => buffers[1].part = "header"
  /\ UNCHANGED <<mutex, sending, written>>
  /\ \/ refused' = refused \cup {buffers[1].of} /\ received' = received
     \/ /\ First(buffers[1]) /\ (n = 1 => buffers[1].part = "body")
        /\ received' = Append(received, buffers[1].of) /\ refused' = refused

\* What that leaves is as it was, and its front is in one place still.
LEMMA TakeSInv ==
  ASSUME SInv, NEW n \in {1, 2}, TakesFront(n)
  PROVE  SInv'
  <1> DEFINE g == buffers[1].of
             m == Len(buffers)
  <1>1. buffers \in Seq(Buffer) /\ received \in Seq(Threads) /\ written \in Seq(Threads) BY DEF SInv, Fields
  <1>2. m \in Nat /\ n \in Nat /\ n <= m /\ DOMAIN buffers = 1 .. m /\ 1 \in DOMAIN buffers
    BY <1>1, Sequence DEF TakesFront
  <1>3. /\ buffers' \in Seq(Buffer) /\ Len(buffers') = m - n /\ DOMAIN buffers' = 1 .. m - n
        /\ \A i \in DOMAIN buffers' : i + n \in DOMAIN buffers /\ buffers'[i] = buffers[i + n]
        /\ \A j \in DOMAIN buffers : j > n => j - n \in DOMAIN buffers' /\ buffers'[j - n] = buffers[j]
    <2>1. PICK r : r = buffers' OBVIOUS
    <2>2. r = SubSeq(buffers, n + 1, Len(buffers)) BY <2>1 DEF TakesFront, Stream!Taken
    <2>3. n \in Nat /\ n <= Len(buffers) BY <1>2
    <2>5. buffers \in Seq(Buffer) BY <1>1
    <2>4. /\ r \in Seq(Buffer) /\ Len(r) = Len(buffers) - n /\ DOMAIN r = 1 .. Len(buffers) - n
          /\ \A i \in DOMAIN r : i + n \in DOMAIN buffers /\ r[i] = buffers[i + n]
          /\ \A j \in DOMAIN buffers : j > n => j - n \in DOMAIN r /\ r[j - n] = buffers[j]
      BY ONLY <2>2, <2>3, <2>5, Remaining
    <2> QED BY <2>1, <2>4
  <1>4. buffers[1] \in Buffer /\ g \in Threads
    <2>1. buffers[1] \in Buffer BY <1>1, <1>2, Sequence
    <2> QED BY <2>1 DEF Buffer
  <1> HIDE DEF m
  <1>5. ~First(buffers[1]) => g \in refused BY <1>2 DEF SInv, Framing
  <1>6. n = 2 => buffers[2].part = "body" /\ ~First(buffers[2]) /\ 2 \in DOMAIN buffers
    <2> SUFFICES ASSUME n = 2 PROVE buffers[2].part = "body" /\ ~First(buffers[2]) /\ 2 \in DOMAIN buffers
      OBVIOUS
    <2>1. buffers[1].part = "header" /\ 1 < m /\ 2 \in DOMAIN buffers BY <1>2 DEF TakesFront
    <2>2. buffers[1].msg.kind # "package" /\ buffers[2] = BodyOf(buffers[1])
      BY <1>2, <2>1 DEF SInv, Framing, m
    <2>3. buffers[2].part = "body" /\ buffers[2].msg = buffers[1].msg BY <1>4, <2>2 DEF BodyOf, Buffer
    <2> QED BY <2>1, <2>2, <2>3 DEF First
  <1>7. \A j \in DOMAIN buffers : First(buffers[j]) /\ j # 1 => buffers[j].of # g /\ j > n
    <2> SUFFICES ASSUME NEW j \in DOMAIN buffers, First(buffers[j]), j # 1
                 PROVE  buffers[j].of # g /\ j > n
      OBVIOUS
    <2>1. First(buffers[1]) => buffers[j].of # g BY <1>2 DEF SInv, Placed
    <2>2. ~First(buffers[1]) => buffers[j].of # g BY <1>5 DEF SInv, Placed
    <2>3. j # 2 \/ n = 1 BY <1>6
    <2> QED BY <1>2, <2>1, <2>2, <2>3
  <1>8. g \notin Range(received) BY <1>2, <1>5 DEF SInv, Placed
  <1>9. /\ \/ received' = received /\ refused' = refused \cup {g}
           \/ /\ First(buffers[1]) /\ (n = 1 => buffers[1].part = "body")
              /\ received' = Append(received, g) /\ refused' = refused
        /\ UNCHANGED <<mutex, sending, written>>
    BY DEF TakesFront
  <1> HIDE DEF g
  <1>10. /\ received' \in Seq(Threads)
         /\ \A i \in DOMAIN received : i \in DOMAIN received' /\ received'[i] = received[i]
         /\ \A i \in DOMAIN received' : \/ i \in DOMAIN received
                                        \/ i = Len(received) + 1 /\ received'[i] = g /\ received' # received
         /\ DOMAIN received = 1 .. Len(received) /\ Len(received) \in Nat
         /\ Range(received') = IF received' = received THEN Range(received) ELSE Range(received) \cup {g}
    <2>1. CASE received' = received BY <1>1, <2>1, Sequence
    <2>2. CASE received' # received
      <3>1. PICK r : r = received' OBVIOUS
      <3>2. r = Append(received, g) BY <1>9, <2>2, <3>1
      <3>3. received \in Seq(Threads) BY <1>1
      <3>4. /\ r \in Seq(Threads)
            /\ DOMAIN received = 1 .. Len(received) /\ Len(received) \in Nat
            /\ \A i \in DOMAIN received : r[i] = received[i] /\ i \in DOMAIN r
            /\ r[Len(received) + 1] = g
            /\ \A i \in DOMAIN r : i \in DOMAIN received \/ i = Len(received) + 1
        BY ONLY <3>2, <3>3, <1>4, Appended
      <3>5. Range(r) = Range(received) \cup {g} BY ONLY <3>2, <3>3, <1>4, RangeAppended
      <3> QED BY <2>2, <3>1, <3>4, <3>5
    <2> QED BY <2>1, <2>2
  <1>11. received' # received => First(buffers[1]) /\ refused' = refused /\ (n = 1 => buffers[1].part = "body")
    BY <1>9
  <1>12. \/ received' = received /\ refused' = refused \cup {g}
         \/ received' # received /\ refused' = refused
    <2>1. CASE received' = received /\ refused' = refused \cup {g} BY <2>1
    <2>2. CASE received' = Append(received, g) /\ refused' = refused
      <3>1. Append(received, g) # received
        <4>1. Len(Append(received, g)) = Len(received) + 1 /\ Len(received) \in Nat
          BY <1>1, <1>4, AppendProperties, Sequence
        <4> QED BY <4>1
      <3> QED BY <2>2, <3>1
    <2> QED BY <1>9, <2>1, <2>2
  <1>13. Fields' BY <1>3, <1>9, <1>10 DEF SInv, Fields
  <1>14. \A i \in DOMAIN buffers' :
           /\ i + n \in DOMAIN buffers /\ i + n # 1 /\ buffers'[i] = buffers[i + n]
           /\ First(buffers'[i]) => First(buffers[i + n]) /\ buffers'[i].of # g
    BY <1>2, <1>3, <1>7
  <1>15. Placed'
    <2>1. ASSUME NEW t \in Range(written)
          PROVE  \/ t \in Range(received') \/ t \in refused'
                 \/ \E i \in DOMAIN buffers' : buffers'[i].of = t /\ First(buffers'[i])
      <3>1. CASE t \in Range(received) \/ t \in refused BY <1>10, <1>12, <3>1
      <3>2. ASSUME NEW i \in DOMAIN buffers, buffers[i].of = t, First(buffers[i])
            PROVE  \/ t \in Range(received') \/ t \in refused'
                   \/ \E j \in DOMAIN buffers' : buffers'[j].of = t /\ First(buffers'[j])
        <4>1. CASE i = 1
          <5>1. t = g BY <3>2, <4>1 DEF g
          <5> QED BY <1>10, <1>12, <5>1
        <4>2. CASE i # 1 BY <1>3, <1>7, <3>2, <4>2
        <4> QED BY <4>1, <4>2
      <3> QED BY <3>1, <3>2 DEF SInv, Placed
    <2>2. ASSUME NEW i \in DOMAIN buffers', First(buffers'[i])
          PROVE  /\ buffers'[i].of \in Range(written)
                 /\ buffers'[i].of \notin Range(received') /\ buffers'[i].of \notin refused'
      <3>1. /\ buffers[i + n].of \in Range(written)
            /\ buffers[i + n].of \notin Range(received) /\ buffers[i + n].of \notin refused
        BY <1>14, <2>2 DEF SInv, Placed
      <3> QED BY <1>10, <1>12, <1>14, <2>2, <3>1
    <2>3. ASSUME NEW i \in DOMAIN buffers', NEW j \in DOMAIN buffers',
                 First(buffers'[i]), First(buffers'[j]), buffers'[i].of = buffers'[j].of
          PROVE  i = j
      <3>1. i + n = j + n BY <1>14, <2>3 DEF SInv, Placed
      <3> QED BY <1>2, <1>3, <3>1
    <2>4. Range(received') \subseteq Range(written)
      <3>1. received' # received => g \in Range(written) BY <1>2, <1>11 DEF SInv, Placed, g
      <3> QED BY <1>10, <3>1 DEF SInv, Placed
    <2>5. Range(received') \cap refused' = {}
      <3>1. received' # received => g \notin refused BY <1>2, <1>11 DEF SInv, Placed, g
      <3> QED BY <1>8, <1>10, <1>12, <3>1 DEF SInv, Placed
    <2>6. \A i, j \in DOMAIN received' : received'[i] = received'[j] => i = j
      <3>1. \A i \in DOMAIN received : received[i] # g BY <1>8 DEF Range
      <3> QED BY <1>10, <3>1 DEF SInv, Placed
    <2> QED BY <1>9, <2>1, <2>2, <2>3, <2>4, <2>5, <2>6 DEF Placed
  <1>16. Framing'
    <2>1. \A i \in DOMAIN buffers' : buffers'[i].part = "header" => buffers'[i].msg.kind # "package"
      BY <1>14 DEF SInv, Framing
    <2>2. ASSUME NEW i \in DOMAIN buffers', buffers'[i].part = "header", i < m - n
          PROVE  buffers'[i + 1] = BodyOf(buffers'[i])
      <3>1. i + n < m /\ i + 1 \in DOMAIN buffers' /\ (i + 1) + n = (i + n) + 1 BY <1>2, <1>3, <2>2
      <3>2. buffers[(i + n) + 1] = BodyOf(buffers[i + n]) BY <1>14, <2>2, <3>1 DEF SInv, Framing, m
      <3> QED BY <1>14, <3>1, <3>2
    <2>3. ASSUME NEW i \in DOMAIN buffers', ~First(buffers'[i])
          PROVE  \/ i = 1 /\ buffers'[i].of \in refused'
                 \/ i > 1 /\ buffers'[i - 1] = HeaderOf(buffers'[i])
      <3>1. buffers[(i + n) - 1] = HeaderOf(buffers[i + n]) BY <1>14, <2>3 DEF SInv, Framing
      <3>2. CASE i > 1
        <4>1. i - 1 \in DOMAIN buffers' /\ (i - 1) + n = (i + n) - 1 BY <1>2, <1>3, <3>2
        <4> QED BY <1>14, <3>1, <3>2, <4>1
      <3>3. CASE i = 1
        <4>1. buffers[n] = HeaderOf(buffers[1 + n]) /\ 1 + n \in DOMAIN buffers BY <1>2, <1>14, <3>1, <3>3
        <4>2. buffers[1 + n] \in Buffer BY <1>1, <1>2, <4>1, Sequence
        <4>3. buffers[n].part = "header" /\ buffers[n].of = buffers[1 + n].of
          BY <4>1, <4>2 DEF HeaderOf, Buffer
        <4>4. n = 1 BY <1>6, <4>3
        <4>5. buffers'[i].of = g BY <1>14, <3>3, <4>3, <4>4 DEF g
        <4>6. received' = received BY <1>11, <4>3, <4>4
        <4> QED BY <1>12, <3>3, <4>5, <4>6
      <3> QED BY <1>3, <3>2, <3>3
    <2>4. ASSUME NEW i \in DOMAIN buffers', i = m - n, buffers'[i].part = "header"
          PROVE  mutex' = {buffers'[i].of}
      <3>1. i + n = m BY <1>2, <2>4
      <3> QED BY <1>9, <1>14, <2>4, <3>1 DEF SInv, Framing, m
    <2> QED BY <1>3, <2>1, <2>2, <2>3, <2>4 DEF Framing
  <1>17. Ordered'
    <2>1. \A i \in DOMAIN received, j \in DOMAIN buffers' :
            First(buffers'[j]) => Earlier(written, received[i], buffers'[j].of)
      BY <1>14 DEF SInv, Ordered
    <2>2. received' # received => \A j \in DOMAIN buffers' :
            First(buffers'[j]) => Earlier(written, g, buffers'[j].of)
      BY <1>2, <1>11, <1>14 DEF SInv, Ordered, g
    <2>3. received' # received => \A i \in DOMAIN received : Earlier(written, received[i], g)
      BY <1>2, <1>11 DEF SInv, Ordered, g
    <2>4. \A i, j \in DOMAIN received' : i < j => Earlier(written', received'[i], received'[j])
      <3> SUFFICES ASSUME NEW i \in DOMAIN received', NEW j \in DOMAIN received', i < j
                   PROVE  Earlier(written, received'[i], received'[j])
        BY <1>9
      <3>1. i \in DOMAIN received BY <1>10
      <3>2. CASE j \in DOMAIN received BY <1>10, <3>1, <3>2 DEF SInv, Ordered
      <3>3. CASE j \notin DOMAIN received BY <1>10, <2>3, <3>1, <3>3
      <3> QED BY <3>2, <3>3
    <2>5. \A i \in DOMAIN received', j \in DOMAIN buffers' :
            First(buffers'[j]) => Earlier(written', received'[i], buffers'[j].of)
      BY <1>9, <1>10, <2>1, <2>2
    <2>6. ASSUME NEW i \in DOMAIN buffers', NEW j \in DOMAIN buffers',
                 First(buffers'[i]), First(buffers'[j]), i < j
          PROVE  Earlier(written', buffers'[i].of, buffers'[j].of)
      <3>1. i + n < j + n BY <1>2, <1>3, <2>6
      <3> QED BY <1>9, <1>14, <2>6, <3>1 DEF SInv, Ordered
    <2> QED BY <2>4, <2>5, <2>6 DEF Ordered
  <1>18. ASSUME NEW t \in Threads PROVE Unwritten(t)' \/ HalfWritten(t)' \/ AllWritten(t)'
    <2>1. CASE Unwritten(t)
      <3>1. t # g BY <1>2, <2>1 DEF Unwritten, g
      <3>2. \A i \in DOMAIN buffers' : buffers'[i].of # t BY <1>14, <2>1 DEF Unwritten
      <3>3. t \notin Range(received') /\ t \notin refused' BY <1>10, <1>12, <2>1, <3>1 DEF Unwritten
      <3> QED BY <1>9, <2>1, <3>2, <3>3 DEF Unwritten
    <2>2. CASE HalfWritten(t)
      <3>1. PICK b \in Buffer :
              /\ b.of = t /\ b.part = "body" /\ b.msg.kind # "package" /\ sending[t] = <<b>>
              /\ buffers # <<>> => buffers[Len(buffers)] = HeaderOf(b)
        BY <2>2 DEF HalfWritten
      <3>2. buffers # <<>> BY <1>2 DEF m
      <3>3. buffers[m] = HeaderOf(b) /\ m \in DOMAIN buffers BY <1>2, <3>1, <3>2 DEF m
      <3>4. HeaderOf(b).part = "header" /\ HeaderOf(b).of = t BY <3>1 DEF HeaderOf, Buffer
      <3>5. buffers' # <<>> => buffers'[Len(buffers')] = HeaderOf(b)
        <4> SUFFICES ASSUME buffers' # <<>> PROVE buffers'[Len(buffers')] = HeaderOf(b)
          OBVIOUS
        <4>1. Len(buffers') # 0 BY <1>3, EmptySeq
        <4>2. m - n \in DOMAIN buffers' /\ (m - n) + n = m BY <1>2, <1>3, <4>1
        <4> QED BY <1>3, <1>14, <3>3, <4>2
      <3>6. buffers' = <<>> => t \in refused'
        <4> SUFFICES ASSUME buffers' = <<>> PROVE t \in refused'
          OBVIOUS
        <4>1. m = n BY <1>2, <1>3
        <4>2. n = 1 /\ buffers[1].part = "header" BY <1>6, <3>3, <3>4, <4>1
        <4>3. t = g BY <3>3, <3>4, <4>1, <4>2 DEF g
        <4> QED BY <1>11, <1>12, <4>2, <4>3
      <3> QED BY <1>9, <2>2, <3>1, <3>5, <3>6 DEF HalfWritten
    <2>3. CASE AllWritten(t) BY <1>9, <2>3 DEF AllWritten
    <2> QED BY <2>1, <2>2, <2>3 DEF SInv
  <1> QED BY <1>13, <1>15, <1>16, <1>17, <1>18 DEF SInv

\* A receive fails, or takes an operation, a response or a package.
LEMMA ReceiveSInv ==
  ASSUME SInv, Stream!Receive
  PROVE  SInv'
  <1>1. CASE Stream!ReceiveAtEnd
    <2>1. UNCHANGED <<buffers, mutex, sending, written, received, refused>> BY <1>1 DEF Stream!ReceiveAtEnd
    <2>2. Fields' /\ Placed' /\ Framing' /\ Ordered'
      BY <2>1 DEF SInv, Fields, Placed, Framing, Ordered
    <2>3. \A t \in Threads : Unwritten(t)' \/ HalfWritten(t)' \/ AllWritten(t)'
      BY <2>1 DEF SInv, Unwritten, HalfWritten, AllWritten
    <2> QED BY <2>2, <2>3 DEF SInv
  <1>2. buffers # <<>> => Len(buffers) \in Nat /\ Len(buffers) # 0 /\ DOMAIN buffers = 1 .. Len(buffers)
    <2>1. buffers \in Seq(Buffer) BY DEF SInv, Fields
    <2> QED BY <2>1, Sequence, EmptySeq
  <1>3. CASE Stream!ReceiveResult
    <2>1. buffers # <<>> /\ buffers' = Stream!Taken(1) /\ UNCHANGED <<mutex, sending, written>>
      BY <1>3 DEF Stream!ReceiveResult
    <2>2. \/ refused' = refused \cup {buffers[1].of} /\ received' = received
          \/ /\ First(buffers[1]) /\ buffers[1].part = "body"
             /\ received' = Append(received, buffers[1].of) /\ refused' = refused
      BY <1>3 DEF Stream!ReceiveResult, Stream!BodyRefused, First
    <2>3. 1 <= Len(buffers) BY <1>2, <2>1
    <2>4. TakesFront(1) BY <2>1, <2>2, <2>3 DEF TakesFront
    <2> QED BY <2>4, TakeSInv
  <1>4. ASSUME NEW expected, Stream!ReceiveFramed(direction, expected)
        PROVE  SInv'
    <2>1. buffers # <<>> /\ UNCHANGED <<mutex, sending, written>> BY <1>4 DEF Stream!ReceiveFramed
    <2>2. 1 <= Len(buffers) BY <1>2, <2>1
    <2>3. CASE Stream!HeaderRefused(expected)
      <3>1. Stream!TakeHeader BY <1>4, <2>3 DEF Stream!ReceiveFramed
      <3>2. TakesFront(1) BY <2>1, <2>2, <3>1 DEF TakesFront, Stream!TakeHeader
      <3> QED BY <3>2, TakeSInv
    <2>4. CASE ~Stream!HeaderRefused(expected) /\ Len(buffers) = 1
      <3>1. buffers' = <<>> /\ refused' = refused \cup {buffers[1].of} /\ received' = received
        BY <1>4, <2>4 DEF Stream!ReceiveFramed
      <3>2. Stream!Taken(1) = <<>>
        <4>1. SubSeq(buffers, 1 + 1, 1) = <<>> BY SubSeqEmpty
        <4> QED BY <2>4, <4>1 DEF Stream!Taken
      <3>3. TakesFront(1) BY <2>1, <2>2, <3>1, <3>2 DEF TakesFront
      <3> QED BY <3>3, TakeSInv
    <2>5. CASE ~Stream!HeaderRefused(expected) /\ Len(buffers) # 1
      <3>1. buffers[1].part = "header" BY <2>5 DEF Stream!HeaderRefused
      <3>2. 1 \in DOMAIN buffers /\ 1 < Len(buffers) /\ 2 <= Len(buffers) BY <1>2, <2>1, <2>5
      <3>3. buffers[2] = BodyOf(buffers[1])
        <4>1. buffers[1 + 1] = BodyOf(buffers[1]) BY <3>1, <3>2 DEF SInv, Framing
        <4> QED BY <4>1
      <3>4. buffers[2].of = buffers[1].of
        <4>1. buffers \in Seq(Buffer) BY DEF SInv, Fields
        <4>2. buffers[1] \in Buffer BY <3>2, <4>1, <1>2, <2>1, Sequence
        <4> QED BY <3>3, <4>2 DEF BodyOf, Buffer
      <3>5. /\ buffers' = Stream!Taken(2)
            /\ \/ refused' = refused \cup {buffers[1].of} /\ received' = received
               \/ received' = Append(received, buffers[2].of) /\ refused' = refused
        BY <1>4, <2>5 DEF Stream!ReceiveFramed
      <3>6. First(buffers[1]) BY <3>1 DEF First
      <3>7. TakesFront(2) BY <2>1, <3>1, <3>2, <3>4, <3>5, <3>6 DEF TakesFront
      <3> QED BY <3>7, TakeSInv
    <2> QED BY <2>3, <2>4, <2>5
  <1> QED BY <1>1, <1>3, <1>4 DEF Stream!Receive

\* Every step keeps the invariant.
LEMMA NextSInv ==
  ASSUME Stream!StreamChannelAssumption, SInv, [Stream!Next]_Stream!vars
  PROVE  SInv'
  <1>1. ASSUME NEW t \in Threads, Stream!Write(t) PROVE SInv' BY <1>1, WriteSInv
  <1>2. CASE Stream!Receive BY <1>2, ReceiveSInv
  <1>3. CASE UNCHANGED Stream!vars
    <2>1. Fields' /\ Placed' /\ Framing' /\ Ordered'
      BY <1>3 DEF Stream!vars, SInv, Fields, Placed, Framing, Ordered
    <2>2. \A t \in Threads : Unwritten(t)' \/ HalfWritten(t)' \/ AllWritten(t)'
      BY <1>3 DEF Stream!vars, SInv, Unwritten, HalfWritten, AllWritten
    <2> QED BY <2>1, <2>2 DEF SInv
  <1> QED BY <1>1, <1>2, <1>3 DEF Stream!Next

\* The three properties of the channel follow.
LEMMA SInvFramed ==
  ASSUME SInv
  PROVE  Stream!OnlyRefusedAreLost /\ Stream!InOrder /\ Stream!Adjacent
  <1>1. Stream!OnlyRefusedAreLost
    <2> SUFFICES ASSUME NEW t \in Threads
                 PROVE  \/ t \in Range(received) \/ t \in refused \/ sending[t] # <<>>
                        \/ \E i \in DOMAIN buffers : buffers[i].of = t /\ First(buffers[i])
      BY DEF Stream!OnlyRefusedAreLost, First, Range, Stream!Range
    <2>1. CASE Unwritten(t)
      <3>1. PICK msg \in Messages : sending[t] = Stream!Buffers(t, msg) BY <2>1 DEF Unwritten
      <3>2. PICK b \in Buffer :
              sending[t] = IF msg.kind \in Stream!Framed THEN <<HeaderOf(b), b>> ELSE <<b>>
        BY <3>1, BuffersAre
      <3> QED BY <3>2
    <2>2. CASE HalfWritten(t) BY <2>2 DEF HalfWritten
    <2>3. CASE AllWritten(t) BY <2>3 DEF AllWritten, SInv, Placed
    <2> QED BY <2>1, <2>2, <2>3 DEF SInv
  <1>2. Stream!InOrder
    <2>1. \A i, j \in DOMAIN received : i < j =>
            \E k, l \in DOMAIN written : k < l /\ written[k] = received[i] /\ written[l] = received[j]
      BY DEF SInv, Ordered, Earlier
    <2>2. Stream!IsInjective(received) BY DEF SInv, Placed, Stream!IsInjective
    <2>3. Stream!Range(received) \cap refused = {} BY DEF SInv, Placed, Range, Stream!Range
    <2> QED BY <2>1, <2>2, <2>3 DEF Stream!InOrder
  <1>3. Stream!Adjacent
    <2>1. \A i \in DOMAIN buffers :
            buffers[i].part = "header" /\ i < Len(buffers) => buffers[i + 1] = BodyOf(buffers[i])
      BY DEF SInv, Framing
    <2> QED BY <2>1 DEF Stream!Adjacent, BodyOf
  <1> QED BY <1>1, <1>2, <1>3

\* A receive that refuses a message costs no other one: each is handed out, has
\* been refused itself, or is in the stream or still to be written; and what is
\* handed out comes in the order in which it was sent, however many threads
\* send and whichever messages are faulty (StreamChannel::receive_operation,
\* receive_response and receive_result).
THEOREM Framed ==
  ASSUME Stream!StreamChannelAssumption
  PROVE  Stream!Spec => [](Stream!OnlyRefusedAreLost /\ Stream!InOrder /\ Stream!Adjacent)
  <1>1. Stream!Init => SInv BY InitSInv
  <1>2. SInv /\ [Stream!Next]_Stream!vars => SInv' BY NextSInv
  <1>3. SInv => Stream!OnlyRefusedAreLost /\ Stream!InOrder /\ Stream!Adjacent BY SInvFramed
  <1> QED BY <1>1, <1>2, <1>3, PTL DEF Stream!Spec

-----------------------------------------------------------------------------
(***************************************************************************)
(* That what is loaded is what was sent, whatever is sent and whatever the *)
(* object held before: no program loads an object twice, but it may be.    *)
(*                                                                         *)
(* Only a query is more than its fields: its parts are in the order of a   *)
(* hash map.  They are loaded up to the first one that does not fit, and   *)
(* the map that comes out is the one that was saved if all of them fit:    *)
(* the order lists each exponent once.                                     *)
(***************************************************************************)
CONSTANTS Blobs, Ciphertexts, Foreign, Exponents, Counts, NoValue, MaxLoads

VARIABLES class, object, buffer, loads, Context

Saving == INSTANCE Wire

Classes == Saving!Operations \cup Saving!Responses \cup {"ResultPackage"}

\* What is in the buffer has been saved from a message, and an object to load a
\* query into is one.
QueryObject(o) == o = [keys |-> o.keys, data |-> o.data]

WInv ==
  /\ class \in Classes
  /\ class = "rop_query" => QueryObject(object)
  /\ outcome = "saved" => sent \in Saving!Messages /\ buffer \in Saving!Saved(sent)
  /\ Saving!LoadedIsSent /\ Saving!OwnMessagesLoad

\* A listing of a finite set has each element, at one place.
LEMMA Listed ==
  ASSUME NEW S, IsFiniteSet(S), NEW s \in Saving!SetToSeqs(S)
  PROVE  /\ \A i, j \in DOMAIN s : s[i] = s[j] => i = j
         /\ \A i \in DOMAIN s : s[i] \in S
         /\ \A e \in S : \E i \in DOMAIN s : s[i] = e
         /\ DOMAIN s = 1 .. Cardinality(S) /\ Cardinality(S) \in Nat
  <1> DEFINE D == 1 .. Cardinality(S)
  <1>7. Saving!Cardinality(S) = Cardinality(S) BY DEF Saving!Cardinality, Cardinality
  <1>1. s \in [D -> S] /\ \A i, j \in D : i # j => s[i] # s[j] BY <1>7 DEF Saving!SetToSeqs
  <1>2. Cardinality(S) \in Nat BY FS_CardinalityType
  <1>3. s \in Injection(D, S) BY <1>1 DEF Injection, IsInjective
  <1>4. Cardinality(D) = Cardinality(S)
    <2>1. Cardinality(S) = 0 \/ 1 <= Cardinality(S) BY <1>2
    <2> QED BY <1>2, <2>1, FS_Interval
  <1>5. s \in Surjection(D, S) BY <1>3, <1>4, FS_Injection
  <1>6. \A e \in S : \E i \in D : s[i] = e BY <1>5 DEF Surjection
  <1> QED BY <1>1, <1>2, <1>6

\* The parts that a map over a set is saved as: in some order, and in one that
\* has each exponent once.
InSomeOrder(pieces, S, data) ==
  \E s \in Saving!SetToSeqs(S) : pieces = [i \in DOMAIN s |-> [exponent |-> s[i], cts |-> data[s[i]]]]

EachOnce(pieces, S, data, n) ==
  /\ DOMAIN pieces = 1 .. n
  /\ \A i \in DOMAIN pieces : pieces[i].exponent \in S /\ pieces[i].cts = data[pieces[i].exponent]
  /\ \A i, j \in DOMAIN pieces : pieces[i].exponent = pieces[j].exponent => i = j
  /\ \A e \in S : \E i \in DOMAIN pieces : pieces[i].exponent = e

\* For a finite set the two are the same.
LEMMA PartsOf ==
  ASSUME NEW S, IsFiniteSet(S), NEW data, NEW pieces, InSomeOrder(pieces, S, data)
  PROVE  Cardinality(S) \in Nat /\ EachOnce(pieces, S, data, Cardinality(S))
  <1>1. PICK s \in Saving!SetToSeqs(S) : pieces = [i \in DOMAIN s |-> [exponent |-> s[i], cts |-> data[s[i]]]]
    BY DEF InSomeOrder
  <1>2. /\ \A i, j \in DOMAIN s : s[i] = s[j] => i = j
        /\ \A i \in DOMAIN s : s[i] \in S
        /\ \A e \in S : \E i \in DOMAIN s : s[i] = e
        /\ DOMAIN s = 1 .. Cardinality(S) /\ Cardinality(S) \in Nat
    BY Listed
  <1>3. DOMAIN pieces = DOMAIN s /\ \A i \in DOMAIN s : pieces[i].exponent = s[i] /\ pieces[i].cts = data[s[i]]
    BY <1>1
  <1>4. DOMAIN pieces = 1 .. Cardinality(S) /\ Cardinality(S) \in Nat BY <1>2, <1>3
  <1>7. \A i, j \in DOMAIN pieces : pieces[i].exponent = pieces[j].exponent => i = j
    <2> SUFFICES ASSUME NEW i \in DOMAIN pieces, NEW j \in DOMAIN pieces, pieces[i].exponent = pieces[j].exponent
                 PROVE  i = j
      OBVIOUS
    <2>1. i \in DOMAIN s /\ j \in DOMAIN s /\ s[i] = s[j] BY <1>3
    <2> QED BY <1>2, <2>1
  <1>5. \A i \in DOMAIN pieces : pieces[i].exponent \in S /\ pieces[i].cts = data[pieces[i].exponent]
    BY <1>2, <1>3
  <1>6. \A e \in S : \E i \in DOMAIN pieces : pieces[i].exponent = e
    <2> SUFFICES ASSUME NEW e \in S PROVE \E i \in DOMAIN pieces : pieces[i].exponent = e
      OBVIOUS
    <2>1. PICK i \in DOMAIN s : s[i] = e BY <1>2
    <2>2. i \in DOMAIN pieces /\ pieces[i].exponent = e BY <1>3, <2>1
    <2> QED BY <2>2
  <1> QED BY <1>4, <1>5, <1>6, <1>7 DEF EachOnce

\* The parts that fit are all of them, or one does not.
LEMMA PartsLoad ==
  ASSUME NEW S, NEW data, data = [e \in S |-> data[e]],
         NEW pieces, NEW n \in Nat, EachOnce(pieces, S, data, n)
  PROVE  \/ /\ Saving!GoodParts(Saving!Empty, pieces) = DOMAIN pieces
            /\ Saving!Inserted(Saving!Empty, pieces) = data
         \/ /\ Saving!GoodParts(Saving!Empty, pieces) # DOMAIN pieces
            /\ \E e \in S : ~Saving!AllFit(data[e])
  <1> DEFINE good == Saving!GoodParts(Saving!Empty, pieces)
             bad == {i \in DOMAIN pieces :
                       \/ ~Saving!AllFit(pieces[i].cts)
                       \/ pieces[i].exponent \in DOMAIN Saving!Empty
                       \/ \E j \in 1 .. i - 1 : pieces[j].exponent = pieces[i].exponent}
  <1>5. /\ DOMAIN pieces = 1 .. n
        /\ \A i \in DOMAIN pieces : pieces[i].exponent \in S /\ pieces[i].cts = data[pieces[i].exponent]
        /\ \A i, j \in DOMAIN pieces : pieces[i].exponent = pieces[j].exponent => i = j
        /\ \A e \in S : \E i \in DOMAIN pieces : pieces[i].exponent = e
    BY DEF EachOnce
  <1>1. DOMAIN Saving!Empty = {} BY DEF Saving!Empty
  <1>2. good = {i \in DOMAIN pieces : \A b \in bad : i < b} BY DEF Saving!GoodParts
  <1>3. CASE good = DOMAIN pieces
    <2>1. Saving!Inserted(Saving!Empty, pieces) =
            [e \in {} \cup {pieces[i].exponent : i \in good} |->
               IF e \in {pieces[i].exponent : i \in good}
               THEN pieces[CHOOSE i \in good : pieces[i].exponent = e].cts ELSE Saving!Empty[e]]
      BY <1>1 DEF Saving!Inserted
    <2> HIDE DEF good
    <2>2. {pieces[i].exponent : i \in good} = S BY <1>3, <1>5
    <2>3. Saving!Inserted(Saving!Empty, pieces) =
            [e \in S |-> pieces[CHOOSE i \in good : pieces[i].exponent = e].cts]
      BY <2>1, <2>2
    <2>4. ASSUME NEW e \in S PROVE pieces[CHOOSE i \in good : pieces[i].exponent = e].cts = data[e]
      <3>1. \E i \in good : pieces[i].exponent = e BY <1>3, <1>5
      <3>2. PICK k : k = CHOOSE i \in good : pieces[i].exponent = e OBVIOUS
      <3>3. k \in good /\ pieces[k].exponent = e BY <3>1, <3>2
      <3> QED BY <1>3, <1>5, <3>2, <3>3
    <2>5. Saving!Inserted(Saving!Empty, pieces) = data
      <3>1. PICK map : map = [e \in S |-> pieces[CHOOSE i \in good : pieces[i].exponent = e].cts] OBVIOUS
      <3>2. DOMAIN map = S /\ \A e \in S : map[e] = data[e] BY <2>4, <3>1
      <3>3. map = [e \in S |-> map[e]] BY <3>1
      <3>4. map = data BY <3>2, <3>3
      <3> QED BY <2>3, <3>1, <3>4
    <2> QED BY <1>3, <2>5 DEF good
  <1>4. CASE good # DOMAIN pieces
    <2>1. PICK i \in bad : TRUE BY <1>2, <1>4
    <2>2. i \in DOMAIN pieces /\ i \in Nat BY <1>5, <2>1
    <2>3. ~Saving!AllFit(pieces[i].cts)
      <3>1. \A j \in 1 .. i - 1 : j \in DOMAIN pieces /\ j # i BY <1>5, <2>2
      <3>2. \A j \in 1 .. i - 1 : pieces[j].exponent # pieces[i].exponent BY <1>5, <2>2, <3>1
      <3> QED BY <1>1, <2>1, <3>2
    <2> QED BY <1>4, <1>5, <2>2, <2>3
  <1> QED BY <1>3, <1>4

\* The classes are told apart.
LEMMA ClassFacts ==
  /\ \A c \in Classes : \/ c = "rop_query" \/ c = "ResultPackage" \/ c \in Saving!Responses
                        \/ c \in Saving!Operations \ {"rop_query"}
  /\ "rop_query" \notin Saving!Responses /\ "rop_query" # "ResultPackage"
  /\ "ResultPackage" \notin Saving!Responses /\ "ResultPackage" \notin Saving!Operations
  /\ Saving!Responses \cap Saving!Operations = {}
  BY DEF Classes, Saving!Operations, Saving!Responses

\* A buffer has the class of the message; but for a query, it is the message.
LEMMA SavedAs ==
  ASSUME NEW msg \in Saving!Messages, NEW saved \in Saving!Saved(msg)
  PROVE  /\ saved.class = msg.class
         /\ msg.class # "rop_query" => saved = msg
         /\ msg.class = "rop_query" =>
              /\ msg.fields[1] \in Saving!Queries
              /\ \E pieces \in Saving!QueryParts(msg.fields[1]) :
                   saved.fields[1] = [relin_keys |-> msg.fields[1].keys, query |-> pieces]
         /\ msg.class = "ResultPackage" => msg.fields[1] \in Saving!Packages
  <1>1. msg.class = "rop_query" => msg.fields[1] \in Saving!Queries
    BY DEF Saving!Messages, Saving!Message
  <1>2. msg.class = "ResultPackage" => msg.fields[1] \in Saving!Packages
    BY DEF Saving!Messages, Saving!Message
  <1>3. msg.class \in Classes
    BY DEF Saving!Messages, Saving!Message, Classes, Saving!Operations, Saving!Responses
  <1>4. CASE msg.class = "rop_query"
    <2>1. saved \in Saving!SavedQuery(msg.fields[1]) BY <1>4, ClassFacts DEF Saving!Saved
    <2>2. PICK pieces \in Saving!QueryParts(msg.fields[1]) :
            saved = Saving!Message("rop_query", <<[relin_keys |-> msg.fields[1].keys, query |-> pieces]>>)
      BY <2>1 DEF Saving!SavedQuery
    <2>3. saved.class = "rop_query" /\ saved.fields[1] = [relin_keys |-> msg.fields[1].keys, query |-> pieces]
      BY <2>2 DEF Saving!Message
    <2> QED BY <1>1, <1>4, <2>3
  <1>5. CASE msg.class # "rop_query"
    <2>1. saved = msg
      BY <1>3, <1>5, ClassFacts
      DEF Saving!Saved, Saving!SavedOperation, Saving!SavedResponse, Saving!SavedPackage
    <2> QED BY <1>2, <1>5, <2>1
  <1> QED BY <1>4, <1>5

\* A query is loaded as it was sent, or something in it does not fit.
LEMMA QueryLoads ==
  ASSUME IsFiniteSet(Exponents), NEW q \in Saving!Queries, NEW pieces \in Saving!QueryParts(q),
         NEW old, QueryObject(old), old.data = Saving!Empty,
         NEW saved, saved.fields[1] = [relin_keys |-> q.keys, query |-> pieces], NEW context,
         NEW result, result = Saving!LoadQuery(old, saved, context)
  PROVE  QueryObject(result.object) /\
         \/ /\ result.outcome = Saving!Ok /\ result.object.data = q.data
            /\ context = "keyswitching" => result.object.keys = q.keys
         \/ /\ result.outcome = Saving!RuntimeError
            /\ \/ context = "keyswitching" /\ q.keys \notin Ciphertexts
               \/ \E e \in DOMAIN q.data : ~Saving!AllFit(q.data[e])
  <1>1. PICK S : S = DOMAIN q.data OBVIOUS
  <1>2. S \subseteq Exponents /\ q.data = [e \in S |-> q.data[e]]
    <2>1. PICK E \in SUBSET Exponents :
            q.data \in [E -> {<<>>} \cup {<<ct>> : ct \in Ciphertexts \cup Foreign}]
      BY DEF Saving!Queries
    <2> QED BY <1>1, <2>1
  <1>3. IsFiniteSet(S) BY <1>2, FS_Subset
  <1>4. \E s \in Saving!SetToSeqs(S) : pieces = [i \in DOMAIN s |-> [exponent |-> s[i], cts |-> q.data[s[i]]]]
    BY <1>1 DEF Saving!QueryParts
  <1>5. PICK data : data = q.data OBVIOUS
  <1>6. data = [e \in S |-> data[e]] BY <1>1, <1>2, <1>5
  <1>7. InSomeOrder(pieces, S, data) BY <1>4, <1>5 DEF InSomeOrder
  <1>8. Cardinality(S) \in Nat /\ EachOnce(pieces, S, data, Cardinality(S)) BY ONLY <1>3, <1>7, PartsOf
  <1>9. \/ /\ Saving!GoodParts(Saving!Empty, pieces) = DOMAIN pieces
           /\ Saving!Inserted(Saving!Empty, pieces) = data
        \/ /\ Saving!GoodParts(Saving!Empty, pieces) # DOMAIN pieces
           /\ \E e \in S : ~Saving!AllFit(data[e])
    BY ONLY <1>6, <1>8, PartsLoad
  <1>10. saved.fields[1].relin_keys = q.keys /\ saved.fields[1].query = pieces OBVIOUS
  <1>11. CASE Saving!KeysRefused(q.keys, context)
    <2>1. result = [outcome |-> Saving!RuntimeError, object |-> [old EXCEPT !.keys = NoValue]]
      BY <1>10, <1>11 DEF Saving!LoadQuery
    <2>2. QueryObject(result.object) BY <2>1 DEF QueryObject
    <2> QED BY <1>11, <2>1, <2>2 DEF Saving!KeysRefused, Saving!Fits
  <1>12. CASE ~Saving!KeysRefused(q.keys, context)
    <2>1. result = [outcome |-> IF Saving!GoodParts(Saving!Empty, pieces) = DOMAIN pieces
                                THEN Saving!Ok ELSE Saving!RuntimeError,
                    object |-> [keys |-> IF context = "keyswitching" THEN q.keys ELSE old.keys,
                                data |-> Saving!Inserted(Saving!Empty, pieces)]]
      BY <1>10, <1>12 DEF Saving!LoadQuery
    <2>2. result.outcome = (IF Saving!GoodParts(Saving!Empty, pieces) = DOMAIN pieces
                            THEN Saving!Ok ELSE Saving!RuntimeError)
      BY <2>1
    <2>3. result.object.data = Saving!Inserted(Saving!Empty, pieces) BY <2>1
    <2>4. context = "keyswitching" => result.object.keys = q.keys BY <2>1
    <2>5. QueryObject(result.object) BY <2>1 DEF QueryObject
    <2> QED BY <1>1, <1>5, <1>9, <2>2, <2>3, <2>4, <2>5
  <1> QED BY <1>11, <1>12

\* A package is loaded as it was sent, but for a nonce that has no label.
LEMMA PackageLoads ==
  ASSUME NEW p \in Saving!Packages, NEW old, NEW saved, saved.fields[1] = p, NEW context,
         NEW result, result = Saving!LoadPackage(old, saved, context)
  PROVE  \/ /\ result.outcome = Saving!Ok
            /\ result.object = [p EXCEPT !.nonce_byte_count = IF p.label_byte_count = 0 THEN 0 ELSE @]
         \/ /\ result.outcome = Saving!RuntimeError
            /\ ~(/\ p.psu_result \in Ciphertexts /\ Saving!AllFit(p.label_result)
                 /\ p.label_byte_count <= Saving!max_label_byte_count
                 /\ p.label_byte_count = 0 \/ p.nonce_byte_count <= Saving!max_nonce_byte_count)
  <1>1. /\ p.label_byte_count \in Nat /\ p.nonce_byte_count \in Nat
        /\ Saving!max_label_byte_count = 1024 /\ Saving!max_nonce_byte_count = 16
    BY DEF Saving!Packages, Saving!max_label_byte_count, Saving!max_nonce_byte_count
  <1>2. CASE Saving!PackageRefused(p)
    <2>1. result.outcome = Saving!RuntimeError BY <1>2 DEF Saving!LoadPackage
    <2>2. ~(/\ p.psu_result \in Ciphertexts /\ Saving!AllFit(p.label_result)
            /\ p.label_byte_count <= Saving!max_label_byte_count
            /\ p.label_byte_count = 0 \/ p.nonce_byte_count <= Saving!max_nonce_byte_count)
      BY <1>1, <1>2 DEF Saving!PackageRefused, Saving!NonceCount, Saving!Fits
    <2> QED BY <2>1, <2>2
  <1>3. CASE ~Saving!PackageRefused(p)
    <2>1. result = [outcome |-> Saving!Ok, object |-> [p EXCEPT !.nonce_byte_count = Saving!NonceCount(p)]]
      BY <1>3 DEF Saving!LoadPackage
    <2>2. Saving!NonceCount(p) = IF p.label_byte_count = 0 THEN 0 ELSE p.nonce_byte_count
      BY DEF Saving!NonceCount
    <2> QED BY <2>1, <2>2
  <1> QED BY <1>2, <1>3

\* At first nothing has been sent.
LEMMA InitWInv ==
  ASSUME Saving!Init
  PROVE  WInv
  <1>1. class \in Classes /\ outcome = "none" BY DEF Saving!Init, Classes
  <1>2. class = "rop_query" => QueryObject(object) BY DEF Saving!Init, Saving!Fresh, QueryObject
  <1> QED BY <1>1, <1>2
      DEF WInv, Saving!LoadedIsSent, Saving!OwnMessagesLoad, Saving!Ok, Saving!InvalidArgument, Saving!RuntimeError

\* A message is saved.
LEMMA SaveWInv ==
  ASSUME WInv, NEW msg \in Saving!Sendable, Saving!SaveMessage(msg)
  PROVE  WInv'
  <1>1. outcome' \in {"saved", Saving!LogicError} /\ class' = class /\ object' = object
    BY DEF Saving!SaveMessage
  <1>2. outcome' = "saved" => sent' \in Saving!Messages /\ buffer' \in Saving!Saved(sent')
    <2>1. msg \in Saving!Messages BY DEF Saving!Sendable
    <2>2. outcome' = "saved" => buffer' \in Saving!Saved(msg) BY DEF Saving!SaveMessage, Saving!LogicError
    <2> QED BY <2>1, <2>2 DEF Saving!SaveMessage
  <1>3. outcome' # Saving!Ok /\ outcome' \notin {Saving!InvalidArgument, Saving!RuntimeError}
    BY <1>1 DEF Saving!Ok, Saving!InvalidArgument, Saving!RuntimeError, Saving!LogicError
  <1> QED BY <1>1, <1>2, <1>3 DEF WInv, Saving!LoadedIsSent, Saving!OwnMessagesLoad, QueryObject

\* What is in the buffer is loaded.
LEMMA LoadWInv ==
  ASSUME IsFiniteSet(Exponents), WInv, Saving!LoadMessage
  PROVE  WInv'
  <1> DEFINE context == IF Saving!NeedsContext(class) THEN Context ELSE "none"
  <1>1. PICK result : result = Saving!Load(class, object, buffer, context) OBVIOUS
  <1>2. outcome = "saved" /\ outcome' = result.outcome /\ object' = result.object /\ UNCHANGED <<class, sent, Context>>
    BY <1>1 DEF Saving!LoadMessage
  <1>3. sent \in Saving!Messages /\ buffer \in Saving!Saved(sent) /\ class \in Classes BY <1>2 DEF WInv
  <1>4. /\ buffer.class = sent.class
        /\ sent.class # "rop_query" => buffer = sent
        /\ sent.class = "rop_query" =>
             /\ sent.fields[1] \in Saving!Queries
             /\ \E pieces \in Saving!QueryParts(sent.fields[1]) :
                  buffer.fields[1] = [relin_keys |-> sent.fields[1].keys, query |-> pieces]
        /\ sent.class = "ResultPackage" => sent.fields[1] \in Saving!Packages
    BY <1>3, SavedAs
  <1> HIDE DEF context
  <1>10. PICK clear : clear = Saving!Cleared(class, object) OBVIOUS
  <1>11. class = "rop_query" => QueryObject(object) BY DEF WInv
  <1>12. class = "rop_query" => QueryObject(clear) /\ clear.data = Saving!Empty
    BY <1>10, <1>11 DEF Saving!Cleared, QueryObject
  \* The outcome, and what it says of the object, of the context or of the message.
  <1>5. (class = "rop_query" => QueryObject(object')) /\
        \/ /\ outcome' = Saving!Ok /\ sent.class = class
           /\ class = "rop_query" =>
                /\ object'.data = sent.fields[1].data
                /\ Context = "keyswitching" => object'.keys = sent.fields[1].keys
           /\ class = "ResultPackage" =>
                object' = [sent.fields[1] EXCEPT
                             !.nonce_byte_count = IF sent.fields[1].label_byte_count = 0 THEN 0 ELSE @]
           /\ class \notin {"rop_query", "ResultPackage"} => object' = sent.fields
        \/ /\ outcome' \in {Saving!InvalidArgument, Saving!RuntimeError}
           /\ sent.class = class /\ (Saving!NeedsContext(class) => Saving!Valid(Context)) => ~Saving!OwnContext(sent)
    <2>1. CASE Saving!ContextRefused(class, context)
      <3>1. outcome' = Saving!InvalidArgument BY <1>1, <1>2, <2>1 DEF Saving!Load
      <3>2. Saving!NeedsContext(class) /\ ~Saving!Valid(Context)
        BY <1>3, <2>1, ClassFacts DEF context, Saving!ContextRefused, Saving!NeedsContext, Saving!NeedsNoContext
      <3>3. object' = object BY <1>1, <1>2, <2>1 DEF Saving!Load
      <3> QED BY <1>11, <3>1, <3>2, <3>3
    <2>2. CASE ~Saving!ContextRefused(class, context) /\ sent.class # class
      <3>1. outcome' = Saving!RuntimeError /\ object' = clear
        BY <1>1, <1>2, <1>4, <1>10, <2>2 DEF Saving!Load
      <3> QED BY <1>12, <2>2, <3>1
    <2>3. CASE ~Saving!ContextRefused(class, context) /\ sent.class = class
      <3>1. result = Saving!LoadedFrom(class, clear, buffer, context) BY <1>1, <1>4, <1>10, <2>3 DEF Saving!Load
      <3>2. CASE class = "rop_query"
        <4>1. result = Saving!LoadQuery(clear, buffer, context)
          BY <3>1, <3>2, ClassFacts DEF Saving!LoadedFrom
        <4>2. context = Context BY <3>2 DEF context, Saving!NeedsContext
        <4>3. PICK q \in Saving!Queries : q = sent.fields[1] BY <1>4, <2>3, <3>2
        <4>4. PICK pieces \in Saving!QueryParts(q) : buffer.fields[1] = [relin_keys |-> q.keys, query |-> pieces]
          BY <1>4, <2>3, <3>2, <4>3
        <4>5. QueryObject(result.object) /\
              \/ /\ result.outcome = Saving!Ok /\ result.object.data = q.data
                 /\ context = "keyswitching" => result.object.keys = q.keys
              \/ /\ result.outcome = Saving!RuntimeError
                 /\ \/ context = "keyswitching" /\ q.keys \notin Ciphertexts
                    \/ \E e \in DOMAIN q.data : ~Saving!AllFit(q.data[e])
          BY <1>12, <3>2, <4>1, <4>4, QueryLoads
        <4>6. CASE result.outcome = Saving!Ok
          <5>1. Saving!Ok # Saving!RuntimeError BY DEF Saving!Ok, Saving!RuntimeError
          <5> QED BY <1>2, <2>3, <3>2, <4>2, <4>3, <4>5, <4>6, <5>1
        <4>7. CASE result.outcome = Saving!RuntimeError
          <5>1. Saving!Ok # Saving!RuntimeError BY DEF Saving!Ok, Saving!RuntimeError
          <5>2. ~Saving!OwnContext(sent)
            BY <2>3, <3>2, <4>2, <4>3, <4>5, <4>7, <5>1 DEF Saving!OwnContext
          <5> QED BY <1>2, <4>5, <4>7, <5>2
        <4> QED BY <4>5, <4>6, <4>7
      <3>3. CASE class = "ResultPackage"
        <4>1. result = Saving!LoadPackage(clear, buffer, context)
          BY <3>1, <3>3, ClassFacts DEF Saving!LoadedFrom
        <4>2. PICK p \in Saving!Packages : p = sent.fields[1] BY <1>4, <2>3, <3>3
        <4>3. buffer.fields[1] = p BY <1>4, <2>3, <3>3, <4>2
        <4>4. \/ /\ result.outcome = Saving!Ok
                 /\ result.object = [p EXCEPT !.nonce_byte_count = IF p.label_byte_count = 0 THEN 0 ELSE @]
              \/ /\ result.outcome = Saving!RuntimeError
                 /\ ~(/\ p.psu_result \in Ciphertexts /\ Saving!AllFit(p.label_result)
                      /\ p.label_byte_count <= Saving!max_label_byte_count
                      /\ p.label_byte_count = 0 \/ p.nonce_byte_count <= Saving!max_nonce_byte_count)
          BY <4>1, <4>3, PackageLoads
        <4>5. CASE result.outcome = Saving!Ok
          <5>1. Saving!Ok # Saving!RuntimeError BY DEF Saving!Ok, Saving!RuntimeError
          <5> QED BY <1>2, <2>3, <3>3, <4>2, <4>4, <4>5, <5>1
        <4>6. CASE result.outcome = Saving!RuntimeError
          <5>1. Saving!Ok # Saving!RuntimeError BY DEF Saving!Ok, Saving!RuntimeError
          <5>2. ~Saving!OwnContext(sent)
            BY <2>3, <3>3, <4>2, <4>4, <4>6, <5>1, ClassFacts DEF Saving!OwnContext
          <5> QED BY <1>2, <3>3, <4>6, <5>2
        <4> QED BY <4>4, <4>5, <4>6
      <3>4. CASE class \notin {"rop_query", "ResultPackage"}
        <4>1. result = [outcome |-> Saving!Ok, object |-> buffer.fields]
          BY <1>3, <3>1, <3>4, ClassFacts DEF Saving!LoadedFrom, Saving!LoadResponse, Saving!LoadOperation
        <4>2. buffer = sent BY <1>4, <2>3, <3>4
        <4> QED BY <1>2, <2>3, <3>4, <4>1, <4>2
      <3> QED BY <3>2, <3>3, <3>4
    <2> QED BY <2>1, <2>2, <2>3
  <1>6. outcome' # "saved"
    BY <1>5 DEF Saving!Ok, Saving!InvalidArgument, Saving!RuntimeError
  <1>7. Saving!Ok \notin {Saving!InvalidArgument, Saving!RuntimeError}
    BY DEF Saving!Ok, Saving!InvalidArgument, Saving!RuntimeError
  <1>8. Saving!LoadedIsSent'
    <2> SUFFICES ASSUME outcome' = Saving!Ok
                 PROVE  /\ sent.class = class
                        /\ CASE class = "rop_query" ->
                                  /\ object'.data = sent.fields[1].data
                                  /\ Context = "keyswitching" => object'.keys = sent.fields[1].keys
                             [] class = "ResultPackage" ->
                                  object' = [sent.fields[1] EXCEPT
                                    !.nonce_byte_count = IF sent.fields[1].label_byte_count = 0 THEN 0 ELSE @]
                             [] OTHER -> object' = sent.fields
      BY <1>2 DEF Saving!LoadedIsSent
    <2>1. CASE class = "rop_query" BY <1>5, <1>7, <2>1
    <2>2. CASE class = "ResultPackage" BY <1>5, <1>7, <2>2
    <2>3. CASE class \notin {"rop_query", "ResultPackage"} BY <1>5, <1>7, <2>3
    <2> QED BY <2>1, <2>2, <2>3
  <1>9. Saving!OwnMessagesLoad'
    <2>1. Saving!OwnContext(sent)' <=> Saving!OwnContext(sent) BY <1>2 DEF Saving!OwnContext
    <2>2. outcome' \in {Saving!InvalidArgument, Saving!RuntimeError} /\ sent.class = class
            /\ (Saving!NeedsContext(class) => Saving!Valid(Context)) => ~Saving!OwnContext(sent)
      BY <1>5, <1>7
    <2> QED BY <1>2, <2>1, <2>2 DEF Saving!OwnMessagesLoad
  <1> QED BY <1>2, <1>3, <1>5, <1>6, <1>8, <1>9 DEF WInv, QueryObject

\* Every step keeps the invariant.
LEMMA NextWInv ==
  ASSUME IsFiniteSet(Exponents), WInv, [Saving!Next]_Saving!vars
  PROVE  WInv'
  <1>1. ASSUME NEW msg \in Saving!Sendable, Saving!SaveMessage(msg) PROVE WInv' BY <1>1, SaveWInv
  <1>2. CASE Saving!LoadMessage BY <1>2, LoadWInv
  <1>3. CASE UNCHANGED Saving!vars
    BY <1>3 DEF Saving!vars, WInv, QueryObject, Saving!LoadedIsSent, Saving!OwnMessagesLoad, Saving!OwnContext
  <1> QED BY <1>1, <1>2, <1>3 DEF Saving!Next

\* A message that is loaded without an error is what was sent, whatever the
\* object held before, and one that was made for the context of the side that
\* loads is never refused (save and load of the sender's operations, of the responses
\* and of the packages of results).
THEOREM Loaded ==
  ASSUME Saving!WireAssumption
  PROVE  Saving!Spec => [](Saving!LoadedIsSent /\ Saving!OwnMessagesLoad)
  <1>0. IsFiniteSet(Exponents) BY DEF Saving!WireAssumption, Saving!IsFiniteSet, IsFiniteSet
  <1>1. Saving!Init => WInv BY InitWInv
  <1>2. WInv /\ [Saving!Next]_Saving!vars => WInv' BY <1>0, NextWInv
  <1>3. WInv => Saving!LoadedIsSent /\ Saving!OwnMessagesLoad BY DEF WInv
  <1> QED BY <1>1, <1>2, <1>3, PTL DEF Saving!Spec
=============================================================================
