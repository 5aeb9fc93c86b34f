----------------------------- MODULE ZmqChannel -----------------------------
(***************************************************************************)
(* The ZeroMQ channels of the programs: each sender connects a DEALER      *)
(* socket, the receiver binds a ROUTER socket.  A message is a list of     *)
(* parts; the ROUTER puts the routing id of the DEALER before the parts it *)
(* receives, and uses the first part of what it sends to find the DEALER.  *)
(* The routing id is drawn anew for each channel object.  Calls that take  *)
(* a lock (send_message, receive_message) are one step.                    *)
(*                                                                         *)
(* External: the sockets, which deliver in order and drop what is sent to  *)
(* an id that is not connected.                                            *)
(***************************************************************************)
EXTENDS Integers, Sequences, FiniteSets, SequencesExt

CONSTANTS
  Sender,        \* the programs that connect
  MaxChannels,   \* bound: how many channels each makes, one after the other
  MaxSends,      \* bound: how many operations a channel sends
  SentTypes,     \* the types of operations they send
  Packages,      \* the packages that answer a query
  BadMessages,   \* faults a message may have: "header", "version", "body"
  ForeignParts,  \* whether other programs may send messages of other shapes
  BindMayFail    \* whether the address may be taken

ZmqChannelAssumption ==
  /\ {MaxChannels, MaxSends} \subseteq Nat \ {0}
  /\ Packages \in Nat
  /\ SentTypes \subseteq {"rop_parms", "rop_oprf", "rop_query", "rop_response"}
  /\ BadMessages \subseteq {"header", "version", "body"}
  /\ {ForeignParts, BindMayFail} \subseteq BOOLEAN

ResponseTypes == {"rop_parms", "rop_oprf", "rop_query"}

\* A channel object of a sender; n counts them.
Channel == Sender \X (1 .. MaxChannels)

VARIABLES
  end_point_,    \* of each channel: whether it is set
  bound,         \* whether the socket of the receiver is bound
  channel,       \* the number of the channel each sender uses
  toReceiver,    \* external: what is on the way from each channel
  toChannel,     \* external: and to each channel
  sent,          \* the operations each channel has sent
  pending,       \* what the receiver has received and not yet answered
  outcome,       \* how the last call on each side ended
  seen,          \* the operations the receiver has taken from its socket
  answered       \* the answers each channel has received

vars == <<end_point_, bound, channel, toReceiver, toChannel, sent, pending,
          outcome, seen, answered>>

Receiver == <<"receiver", 0>>
Sides == Channel \cup {Receiver}
Current(s) == <<s, channel[s]>>

Init ==
  /\ end_point_ = [x \in Sides |-> FALSE]
  /\ bound = FALSE
  /\ channel = [s \in Sender |-> 1]
  /\ toReceiver = [x \in Channel |-> <<>>]
  /\ toChannel = [x \in Channel |-> <<>>]
  /\ sent = [x \in Channel |-> 0]
  /\ pending = {}
  /\ outcome = [x \in Sides |-> "none"]
  /\ seen = {}
  /\ answered = [x \in Channel |-> <<>>]

Ends(side, how) == outcome' = [outcome EXCEPT ![side] = how]

(***************************************************************************)
(* Connections.  end_point_ is set before the socket is bound.             *)
(***************************************************************************)
throw_if_connected(side) == end_point_[side]
throw_if_not_connected(side) == ~end_point_[side]

Bind ==
  /\ IF throw_if_connected(Receiver) THEN Ends(Receiver, "throws") /\ UNCHANGED <<end_point_, bound>>
     ELSE /\ end_point_' = [end_point_ EXCEPT ![Receiver] = TRUE]
          /\ \/ bound' = TRUE /\ Ends(Receiver, "ok")
             \/ BindMayFail /\ bound' = FALSE /\ Ends(Receiver, "throws")
  /\ UNCHANGED <<channel, toReceiver, toChannel, sent, pending, seen, answered>>

Connect(s) ==
  LET x == Current(s)
  IN  /\ outcome[x] # "closed"
      /\ IF throw_if_connected(x) THEN Ends(x, "throws") /\ UNCHANGED end_point_
         ELSE Ends(x, "ok") /\ end_point_' = [end_point_ EXCEPT ![x] = TRUE]
      /\ UNCHANGED <<bound, channel, toReceiver, toChannel, sent, pending, seen, answered>>

\* Mutant: the socket does not linger.
DisconnectDrops(s) ==
  LET x == Current(s)
  IN  /\ outcome[x] # "closed" /\ end_point_[x]
      /\ end_point_' = [end_point_ EXCEPT ![x] = FALSE]
      /\ toChannel' = [toChannel EXCEPT ![x] = <<>>]
      /\ toReceiver' = [toReceiver EXCEPT ![x] = <<>>]
      /\ Ends(x, "closed")
      /\ UNCHANGED <<bound, channel, sent, pending, seen, answered>>

\* What the channel has sent is still delivered; what was for it is dropped.
\* A closed channel has no context any more and is not used again.
Disconnect(s) ==
  LET x == Current(s)
  IN  /\ outcome[x] # "closed"
      /\ IF throw_if_not_connected(x)
         THEN Ends(x, "throws") /\ UNCHANGED <<end_point_, toChannel>>
         ELSE /\ end_point_' = [end_point_ EXCEPT ![x] = FALSE]
              /\ toChannel' = [toChannel EXCEPT ![x] = <<>>]
              /\ Ends(x, "closed")
      /\ UNCHANGED <<bound, channel, toReceiver, sent, pending, seen, answered>>

NewChannel(s) ==
  /\ outcome[Current(s)] = "closed"
  /\ channel[s] < MaxChannels
  /\ channel' = [channel EXCEPT ![s] = @ + 1]
  /\ UNCHANGED <<end_point_, bound, toReceiver, toChannel, sent, pending, outcome, seen, answered>>

(***************************************************************************)
(* Messages: what they are, for which operation of which channel, how many *)
(* parts they have, and what is wrong with them.                           *)
(***************************************************************************)
Frame(kind, type, of, parts, fault) ==
  [kind |-> kind, type |-> type, of |-> of, parts |-> parts, fault |-> fault]

Faults == BadMessages \cup {"none"}
Parts(n) == IF ForeignParts THEN {n, n + 1} ELSE {n}

SendOperation(s, type) ==
  LET x == Current(s)
      id == <<x, sent[x] + 1>>
  IN  /\ outcome[x] # "closed"
      /\ sent[x] < MaxSends
      /\ IF throw_if_not_connected(x)
         THEN Ends(x, "throws") /\ UNCHANGED <<toReceiver, sent>>
         ELSE /\ \E fault \in Faults, parts \in Parts(2) :
                   toReceiver' = [toReceiver EXCEPT ![x] = Append(@, Frame("operation", type, id, parts, fault))]
              /\ sent' = [sent EXCEPT ![x] = @ + 1]
              /\ Ends(x, "ok")
      /\ UNCHANGED <<end_point_, bound, channel, toChannel, pending, seen, answered>>

Refuses(msg, expected) ==
  \/ msg.fault # "none"
  \/ expected # "rop_unknown" /\ expected # msg.type

(***************************************************************************)
(* The receiver.  receive_network_operation does not wait, and returns     *)
(* nullptr when there is nothing or what there is is refused;              *)
(* receive_operation dereferences that.                                    *)
(***************************************************************************)
TakesFrom(x, null, expected) ==
  LET msg == Head(toReceiver[x])
  IN  /\ bound
      /\ toReceiver[x] # <<>>
      /\ toReceiver' = [toReceiver EXCEPT ![x] = Tail(@)]
      /\ seen' = seen \cup {msg.of}
      /\ CASE msg.parts # 2 -> Ends(Receiver, "throws") /\ UNCHANGED pending
           [] msg.parts = 2 /\ Refuses(msg, expected) -> Ends(Receiver, null) /\ UNCHANGED pending
           [] OTHER ->
                /\ Ends(Receiver, "ok")
                /\ pending' = IF msg.type \notin ResponseTypes THEN pending
                              ELSE pending \cup {[client_id |-> x, type |-> msg.type, of |-> msg.of, left |-> -1]}

ReceiveFrom(x, null, validContext, expected) ==
  /\ ~throw_if_not_connected(Receiver)
  /\ validContext \/ expected \notin {"rop_unknown", "rop_query"}
  /\ TakesFrom(x, null, expected)
  /\ UNCHANGED <<end_point_, bound, channel, toChannel, sent, answered>>

ReceiveNothing(null, validContext, expected) ==
  /\ \/ throw_if_not_connected(Receiver) /\ Ends(Receiver, "throws")
     \/ /\ ~throw_if_not_connected(Receiver)
        /\ \/ ~validContext /\ expected \in {"rop_unknown", "rop_query"}
           \/ bound => \A x \in Channel : toReceiver[x] = <<>>
        /\ Ends(Receiver, null)
  /\ UNCHANGED <<end_point_, bound, channel, toReceiver, toChannel, sent, pending, seen, answered>>

\* The dispatcher and the tasks of RunQuery answer with the id of the
\* operation: first the response, then the packages.
Deliver(x, msg) ==
  toChannel' = IF end_point_[x] THEN [toChannel EXCEPT ![x] = Append(@, msg)] ELSE toChannel

\* Mutant: the id is that of the program, not of its channel.
RouteToSender(rop) == Current(rop.client_id[1])

Route(rop) == rop.client_id

Left(rop, n) == IF n = 0 THEN pending \ {rop} ELSE (pending \ {rop}) \cup {[rop EXCEPT !.left = n]}
PackagesOf(rop) == IF rop.type = "rop_query" THEN Packages ELSE 0

SendResponse(rop) ==
  /\ rop.left = -1
  /\ \E fault \in Faults : Deliver(Route(rop), Frame("response", rop.type, rop.of, 2, fault))
  /\ pending' = Left(rop, PackagesOf(rop))
  /\ Ends(Receiver, "ok")
  /\ UNCHANGED <<end_point_, bound, channel, toReceiver, sent, seen, answered>>

SendPackage(rop) ==
  /\ rop.left > 0
  /\ Deliver(Route(rop), Frame("package", rop.type, rop.of, 1, "none"))
  /\ pending' = Left(rop, rop.left - 1)
  /\ Ends(Receiver, "ok")
  /\ UNCHANGED <<end_point_, bound, channel, toReceiver, sent, seen, answered>>

(***************************************************************************)
(* The senders wait for a message.  One of the wrong shape is lost.        *)
(***************************************************************************)
Receive(s, kind, expected) ==
  LET x == Current(s)
      msg == Head(toChannel[x])
  IN  /\ outcome[x] # "closed" /\ ~throw_if_not_connected(x)
      /\ toChannel[x] # <<>>
      /\ toChannel' = [toChannel EXCEPT ![x] = Tail(@)]
      /\ CASE msg.kind # kind -> Ends(x, "throws") /\ UNCHANGED answered
           [] msg.kind = kind /\ Refuses(msg, expected) -> Ends(x, "nullptr") /\ UNCHANGED answered
           [] OTHER -> Ends(x, "ok") /\ answered' = [answered EXCEPT ![x] = Append(@, msg)]
      /\ UNCHANGED <<end_point_, bound, channel, toReceiver, sent, pending, seen>>

ReceiveUnconnected(s) ==
  /\ outcome[Current(s)] # "closed"
  /\ throw_if_not_connected(Current(s))
  /\ Ends(Current(s), "throws")
  /\ UNCHANGED <<end_point_, bound, channel, toReceiver, toChannel, sent, pending, seen, answered>>

ReceiveResponse(s, expected) == Receive(s, "response", expected)
ReceiveResult(s) == Receive(s, "package", "rop_unknown")

SenderStep(s) ==
  \/ Connect(s) \/ Disconnect(s) \/ NewChannel(s)
  \/ \E type \in SentTypes : SendOperation(s, type)
  \/ \E expected \in {"rop_unknown", "rop_query"} : ReceiveResponse(s, expected)
  \/ ReceiveResult(s) \/ ReceiveUnconnected(s)

\* null is how a receive without an operation ends.
ReceiverStep(null) ==
  \/ Bind
  \/ \E validContext \in BOOLEAN, expected \in {"rop_unknown", "rop_parms"} :
       \/ ReceiveNothing(null, validContext, expected)
       \/ \E x \in Channel : ReceiveFrom(x, null, validContext, expected)
  \/ \E rop \in pending : SendResponse(rop) \/ SendPackage(rop)

Next == (\E s \in Sender : SenderStep(s)) \/ ReceiverStep("nullptr")
NextOperation == (\E s \in Sender : SenderStep(s)) \/ ReceiverStep("null dereferenced")

\* The dispatcher takes operations of any type in a loop; its socket is fair
\* to the channels.
Fairness ==
  /\ \A x \in Channel : WF_vars(ReceiveFrom(x, "nullptr", TRUE, "rop_unknown"))
  /\ WF_vars(\E rop \in pending : SendResponse(rop) \/ SendPackage(rop))

Spec == Init /\ [][Next]_vars
FairSpec == Spec /\ Fairness
SpecOperation == Init /\ [][NextOperation]_vars

-----------------------------------------------------------------------------
(* Properties.                                                             *)

Outcomes == {"none", "ok", "throws", "nullptr", "closed", "null dereferenced"}

TypeOK ==
  /\ outcome \in [Sides -> Outcomes]
  /\ \A rop \in pending : rop.of \in seen /\ rop.left \in {-1} \cup 1 .. Packages
  /\ bound => end_point_[Receiver]

\* What a channel receives answers an operation it has sent itself: an answer
\* to a former channel of the program does not reach the new one.
OwnAnswers ==
  \A x \in Channel : \A i \in DOMAIN answered[x] :
    answered[x][i].of[1] = x /\ answered[x][i].of \in seen

\* Responses come before the packages of the same query, although tasks of
\* the pool send those.
ResponseFirst ==
  \A x \in Channel : \A i, j \in DOMAIN toChannel[x] :
    (/\ toChannel[x][i].kind = "package" /\ toChannel[x][j].kind = "response"
     /\ toChannel[x][i].of = toChannel[x][j].of) => j < i

\* Once the receiver is bound every operation reaches it, also that of a
\* channel that is closed meanwhile.
OperationsArrive ==
  \A x \in Channel, n \in 1 .. MaxSends : (bound /\ sent[x] >= n) ~> (<<x, n>> \in seen)

\* is_connected: a channel that counts as connected is.
ConnectedIsBound == end_point_[Receiver] => bound

\* A call that finds no operation returns nullptr.
NullReturned == outcome[Receiver] # "null dereferenced"

=============================================================================
