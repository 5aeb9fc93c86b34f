----------------------------- MODULE MCNetwork -----------------------------
(***************************************************************************)
(* How the two programs talk, at six levels of detail, of which a          *)
(* behaviour has one:                                                      *)
(*                                                                         *)
(*   - "session": one query from start to exit, in all builds;             *)
(*   - "dispatcher": two programs at one dispatcher, with the parameters   *)
(*     of the database, others, or none;                                   *)
(*   - "zmq": the ZeroMQ channels of a program that makes two, one after   *)
(*     the other, with messages that are refused;                          *)
(*   - "stream": a channel over a C++ stream, to which three threads send; *)
(*   - "netio": the stream of the equality test, byte by byte; the kernel  *)
(*     takes less than one message, and a program may be aborted;          *)
(*   - "wire": the buffer of a message that save writes and load reads.    *)
(***************************************************************************)
EXTENDS PeerSession, NetIO

CONSTANTS Blobs, Ciphertexts, Foreign, Exponents, Counts, NoValue, MaxLoads   \* those of Wire

VARIABLES
  level,
  stop, running, rop, params_, awaits,
  end_point_, bound, used, toReceiver, toChannel, pending, seen, answered,
  direction, buffers, in_fails, mutex, sending, received, refused,
  class, object, sent, buffer, outcome, loads, Context

session == <<build, stream, receiver, sender>>
dispatcher == <<stop, running, rop, params_, awaits>>
messages == <<sent, outcome>>
zmq == <<end_point_, bound, used, toReceiver, toChannel, pending, seen, answered>>
streaming == <<direction, buffers, in_fails, mutex, sending, received, refused>>
wire == <<class, object, buffer, loads, Context>>
allVars == <<level, channel, messages, session, dispatcher, zmq, streaming, netIOVars, wire>>

-----------------------------------------------------------------------------
(* The six modules.                                                        *)

DatabaseParams ==
  [query_powers |-> {1, 3}, ps_low_degree |-> 2, max_items_per_bin |-> 6,
   bundle_idx_count |-> 2, using_keyswitching |-> TRUE]

\* Other sizes of the table, other powers, more and fewer of them.
OtherParams ==
  {DatabaseParams,
   [DatabaseParams EXCEPT !.bundle_idx_count = 1],
   [DatabaseParams EXCEPT !.query_powers = {1, 6}],
   [DatabaseParams EXCEPT !.query_powers = {1}],
   [DatabaseParams EXCEPT !.query_powers = {1, 2, 3}]}

\* One of each kind, and faulty ones.
StreamMessages ==
  {[kind |-> "operation", type |-> "rop_parms", fault |-> "none"],
   [kind |-> "operation", type |-> "rop_query", fault |-> "none"],
   [kind |-> "operation", type |-> "rop_response", fault |-> "none"],
   [kind |-> "response", type |-> "rop_query", fault |-> "none"],
   [kind |-> "response", type |-> "rop_parms", fault |-> "header"],
   [kind |-> "response", type |-> "rop_oprf", fault |-> "body"],
   [kind |-> "package", type |-> "none", fault |-> "none"]}

AllBuilds == [APSU : 0..1, CARDSUM : 0..1]

Dispatch == INSTANCE Dispatcher WITH
  Sender <- {"a", "b"}, ReceiverParams <- DatabaseParams, OwnParams <- OtherParams

Zmq == INSTANCE ZmqChannel WITH
  Sender <- {"a"}, MaxChannels <- 2, MaxSends <- 1,
  SentTypes <- {"rop_parms", "rop_query", "rop_response"}, Packages <- 1,
  BadMessages <- {"version"}, ForeignParts <- TRUE, BindMayFail <- FALSE, channel <- used

Stream == INSTANCE StreamChannel WITH
  Threads <- {1, 2, 3}, Messages <- StreamMessages, MaxReceives <- 4, stream <- buffers

Saved == INSTANCE Wire

ASSUME NetworkAssumption ==
  /\ PeerSessionAssumption /\ Dispatch!DispatcherAssumption
  /\ Zmq!ZmqChannelAssumption /\ Stream!StreamChannelAssumption /\ NetIOAssumption
  /\ Saved!WireAssumption

-----------------------------------------------------------------------------
NoQueues == requests = "none" /\ responses = "none"

\* Two programs that have not begun.
NoSession ==
  /\ build = "none" /\ listener = "none" /\ connected = FALSE /\ to_receiver = <<>>
  /\ to_sender = <<>> /\ rpc = "none" /\ parts = "none" /\ ans = FALSE /\ union = FALSE
  /\ spc = "none" /\ package_count = "none"

NoDispatcher ==
  stop = "none" /\ running = "none" /\ rop = "none" /\ params_ = "none" /\ awaits = "none"

NoMessages == sent = "none" /\ outcome = "none"

NoZmq ==
  /\ end_point_ = "none" /\ bound = "none" /\ used = "none" /\ toReceiver = "none"
  /\ toChannel = "none" /\ pending = "none" /\ seen = "none" /\ answered = "none"

NoStream ==
  /\ direction = "none" /\ buffers = "none" /\ in_fails = "none" /\ mutex = "none"
  /\ sending = "none" /\ received = "none" /\ refused = "none"

\* Nobody listens yet.
NoNetIO == port = "free" /\ NetIOInit

NoWire == class = "none" /\ object = "none" /\ buffer = "none" /\ loads = "none" /\ Context = "none"

InitNetwork ==
  \/ /\ level = "session" /\ Init
     /\ NoMessages /\ NoDispatcher /\ NoZmq /\ NoStream /\ NoNetIO /\ NoWire
  \/ /\ level = "dispatcher" /\ Dispatch!Init
     /\ NoMessages /\ NoSession /\ NoZmq /\ NoStream /\ NoNetIO /\ NoWire
  \/ /\ level = "zmq" /\ Zmq!Init
     /\ NoQueues /\ NoSession /\ NoDispatcher /\ NoStream /\ NoNetIO /\ NoWire
  \/ /\ level = "stream" /\ Stream!Init /\ outcome = "none"
     /\ NoQueues /\ NoSession /\ NoDispatcher /\ NoZmq /\ NoNetIO /\ NoWire
  \/ /\ level = "netio" /\ NetIOInit
     /\ NoQueues /\ NoMessages /\ NoSession /\ NoDispatcher /\ NoZmq /\ NoStream /\ NoWire
  \/ /\ level = "wire" /\ Saved!Init
     /\ NoQueues /\ NoSession /\ NoDispatcher /\ NoZmq /\ NoStream /\ NoNetIO

\* A step at one level, which leaves the variables of the others alone.
AtSession(step) ==
  level = "session" /\ step /\ UNCHANGED <<level, messages, dispatcher, zmq, streaming, netIOVars, wire>>
AtDispatcher(step) ==
  level = "dispatcher" /\ step /\ UNCHANGED <<level, messages, session, zmq, streaming, netIOVars, wire>>
AtZmq(step) ==
  level = "zmq" /\ step /\ UNCHANGED <<level, channel, session, dispatcher, streaming, netIOVars, wire>>
AtStream(step) ==
  level = "stream" /\ step /\ UNCHANGED <<level, outcome, channel, session, dispatcher, zmq, netIOVars, wire>>
AtNetIO(step) ==
  level = "netio" /\ step /\ UNCHANGED <<level, channel, messages, session, dispatcher, zmq, streaming, wire>>
AtWire(step) ==
  level = "wire" /\ step /\ UNCHANGED <<level, channel, session, dispatcher, zmq, streaming, netIOVars>>

NextSession == AtSession(Next)
NextDispatcher == AtDispatcher(Dispatch!Next)
NextZmq == AtZmq(Zmq!Next)
NextStream == AtStream(Stream!Next)
NextNetIO == AtNetIO(NetIONext)
NextWire == AtWire(Saved!Next)

NextNetwork == NextSession \/ NextDispatcher \/ NextZmq \/ NextStream \/ NextNetIO \/ NextWire

\* The fairness of the modules; StreamChannel and Wire have none.
Fairness ==
  /\ WF_allVars(AtSession(SenderStep)) /\ WF_allVars(AtSession(ReceiverStep))
  /\ \A s \in {"a", "b"} :
       /\ WF_allVars(AtDispatcher(Dispatch!RequestParams(s)))
       /\ WF_allVars(AtDispatcher(Dispatch!RequestQuery(s)))
       /\ WF_allVars(AtDispatcher(Dispatch!ReceiveResponse(s)))
       /\ SF_allVars(AtDispatcher(Dispatch!ReceiveOperation(s)))
  /\ WF_allVars(AtDispatcher(Dispatch!SeeStop))
  /\ WF_allVars(AtDispatcher(Dispatch!DispatchParms))
  /\ WF_allVars(AtDispatcher(Dispatch!DispatchQuery))
  /\ \A x \in Zmq!Channel : WF_allVars(AtZmq(Zmq!ReceiveFrom(x, "nullptr", TRUE, "rop_unknown")))
  /\ WF_allVars(AtZmq(\E r \in pending : Zmq!SendResponse(r) \/ Zmq!SendPackage(r)))
  /\ WF_allVars(AtNetIO(Listen)) /\ WF_allVars(AtNetIO(Connect))
  /\ WF_allVars(AtNetIO(Accept))
  /\ \A p \in Party : WF_allVars(AtNetIO(PartyStep(p)))

SpecNetwork == InitNetwork /\ [][NextNetwork]_allVars /\ Fairness

-----------------------------------------------------------------------------
(* Properties; the six modules say what each of them is about.  Whoever    *)
(* reads from the stream of the session finds the message that it expects: *)
(* StreamsInStep of PeerSession, which also has UnionWritten.  That byte   *)
(* by byte each party gets what was sent, and both come to their end:      *)
(* BytesArrive and Finishes of NetIO.                                      *)

\* A query made under the parameters of the receiver is accepted, and the
\* products planned for an accepted query find their operands.
QueriesAccepted == level = "dispatcher" => Dispatch!OperandsPresent /\ Dispatch!FittingAccepted

\* The first query, if made under the right parameters, is answered, as are
\* the requests for parameters as long as the dispatcher runs.  The receiver of
\* the session gets to know the matches, unless the sender gives up before its
\* query, a task of the receiver throws, or the sender's connect is refused:
\* after the last part, and before the receiver listens.
QueriesAnswered ==
  /\ level = "dispatcher" /\ Dispatch!Ended /\ ~stop ~>
       level = "dispatcher" /\ \/ \E s \in {"a", "b"} : awaits[s] = "done"
                               \/ \E s \in {"a", "b"} : ~Dispatch!Fits(s) /\ awaits[s] = "rop_query"
  /\ \A s \in {"a", "b"} :
       level = "dispatcher" /\ awaits[s] = "rop_parms" ~>
         level = "dispatcher" /\ (Dispatch!Fits(s) \/ Dispatch!Ended)
  /\ level = "session" ~>
       level = "session" /\ (ans \/ spc \in {"exited", "refused"} \/ rpc = "threw")
  /\ RefusedInWindow

\* A channel receives answers to its own operations only, the response to a
\* query before the packages.
OwnAnswers == level = "zmq" => Zmq!TypeOK /\ Zmq!OwnAnswers /\ Zmq!ResponseFirst

\* Once the receiver is bound every operation reaches it.
OperationsArrive ==
  \A x \in Zmq!Channel : (level = "zmq" /\ bound /\ sent[x] >= 1) ~> (level = "zmq" /\ <<x, 1>> \in seen)

\* A message that is refused costs no other message of the stream, and those
\* of three threads stay in one piece and in the order of each.
OnlyRefusedAreLost ==
  level = "stream" => Stream!OnlyRefusedAreLost /\ Stream!InOrder /\ Stream!Adjacent

\* A load that ends without an exception has what was sent, and what
\* a program saves loads under the same parameters.
WireLoadedIsSent == level = "wire" => Saved!LoadedIsSent /\ Saved!OwnMessagesLoad
=============================================================================
