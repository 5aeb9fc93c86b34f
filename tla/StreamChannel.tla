--------------------------- MODULE StreamChannel ---------------------------
(***************************************************************************)
(* The channel of the library that writes to a C++ stream and reads from   *)
(* one.  There are no messages in a stream: an operation or a response is  *)
(* a header and a body, one buffer each, a package is a body alone, and    *)
(* each load takes one buffer, whatever it is.  Several threads may send,  *)
(* under send_mutex_; a receive is one step, under receive_mutex_, except  *)
(* that what a send writes second may be missing yet.                      *)
(***************************************************************************)
EXTENDS Integers, Sequences, FiniteSets, SequencesExt

CONSTANTS
  Threads,      \* threads that send
  Messages,     \* what they send: functions of kind, type and fault
  MaxReceives   \* bound: calls that receive

StreamChannelAssumption ==
  /\ MaxReceives \in Nat
  /\ \A msg \in Messages : /\ msg.kind \in {"operation", "response", "package"}
                           /\ msg.fault \in {"none", "header", "body"}

Carried(kind) == IF kind = "operation" THEN {kind} ELSE {kind, "package"}
Framed == {"operation", "response"}
Loadable == {"rop_parms", "rop_oprf", "rop_query"}

VARIABLES
  direction, \* what is framed in this stream: the operations go the other way
  stream,    \* the buffers written and not yet read
  in_fails,  \* the stream has failed: every read fails from then on
  mutex,     \* who holds send_mutex_
  sending,   \* what each thread still has to write
  sent,      \* external: the messages in order of their first buffers
  received,  \* the messages handed out
  refused    \* the messages a receive found and did not hand out

vars == <<direction, stream, in_fails, mutex, sending, sent, received, refused>>

Nobody == {}
Buffers(t, msg) ==
  (IF msg.kind \in Framed THEN <<[of |-> t, part |-> "header", msg |-> msg]>> ELSE <<>>)
    \o <<[of |-> t, part |-> "body", msg |-> msg]>>

\* Each thread sends one message.
Init ==
  /\ direction \in Framed
  /\ stream = <<>> /\ in_fails = FALSE /\ mutex = Nobody
  /\ \E msgs \in [Threads -> {msg \in Messages : msg.kind \in Carried(direction)}] :
       sending = [t \in Threads |-> Buffers(t, msgs[t])]
  /\ sent = <<>> /\ received = <<>> /\ refused = {}

Lock(t) == mutex \in {Nobody, {t}}

Write(t) ==
  /\ sending[t] # <<>>
  /\ Lock(t)
  /\ stream' = Append(stream, Head(sending[t]))
  /\ sending' = [sending EXCEPT ![t] = Tail(@)]
  /\ mutex' = IF Len(sending[t]) = 1 THEN Nobody ELSE {t}
  /\ sent' = IF \E i \in DOMAIN sent : sent[i] = t THEN sent ELSE Append(sent, t)
  /\ UNCHANGED <<direction, in_fails, received, refused>>

Taken(n) == SubSeq(stream, n + 1, Len(stream))
Receives == Len(received) + Cardinality(refused)

\* A receive that finds nothing leaves the stream failed.
ReceiveAtEnd ==
  /\ stream = <<>> \/ in_fails
  /\ in_fails' = TRUE
  /\ UNCHANGED <<stream, mutex, sending, sent, received, refused>>

\* The header does not load, has another version, or not the expected type.
HeaderRefused(expected) ==
  LET buffer == stream[1]
  IN  \/ buffer.part # "header" \/ buffer.msg.fault = "header"
      \/ expected # "rop_unknown" /\ expected # buffer.msg.type
      \/ buffer.msg.type \notin Loadable

\* The body is of another kind, or faulty.
BodyRefused(kind, buffer) == buffer.part # "body" \/ buffer.msg.kind # kind \/ buffer.msg.fault = "body"

\* Mutant: a refused message is skipped as a whole, by its usual length.
TakeTwo ==
  /\ stream' = Taken(2)
  /\ refused' = refused \cup {stream[1].of}
  /\ UNCHANGED <<in_fails, received>>

\* Without an operation or response nothing but one buffer is gone, whose
\* message is lost with it; what is left of that message is refused later.
TakeHeader ==
  /\ stream' = Taken(1)
  /\ refused' = refused \cup {stream[1].of}
  /\ UNCHANGED <<in_fails, received>>

ReceiveFramed(kind, expected) ==
  /\ stream # <<>> /\ ~in_fails
  /\ IF HeaderRefused(expected) THEN TakeHeader
     ELSE IF Len(stream) = 1
     THEN /\ in_fails' = TRUE /\ stream' = <<>> /\ refused' = refused \cup {stream[1].of}
          /\ UNCHANGED received
     ELSE /\ stream' = Taken(2)
          /\ IF BodyRefused(kind, stream[2])
             THEN refused' = refused \cup {stream[1].of} /\ UNCHANGED received
             ELSE received' = Append(received, stream[2].of) /\ UNCHANGED refused
          /\ UNCHANGED in_fails
  /\ UNCHANGED <<mutex, sending, sent>>

ReceiveResult ==
  /\ stream # <<>> /\ ~in_fails
  /\ stream' = Taken(1)
  /\ IF BodyRefused("package", stream[1])
     THEN refused' = refused \cup {stream[1].of} /\ UNCHANGED received
     ELSE received' = Append(received, stream[1].of) /\ UNCHANGED refused
  /\ UNCHANGED <<in_fails, mutex, sending, sent>>

Receive ==
  /\ Receives < MaxReceives
  /\ \/ ReceiveAtEnd
     \/ direction = "response" /\ ReceiveResult
     \/ \E expected \in {"rop_unknown", "rop_parms"} : ReceiveFramed(direction, expected)
  /\ UNCHANGED direction

Next == Receive \/ \E t \in Threads : Write(t)
Spec == Init /\ [][Next]_vars

-----------------------------------------------------------------------------
(* Properties.                                                             *)

\* What is neither in the stream, nor still to be written, nor handed out has
\* been refused itself, at its own first buffer or for its own body: a refusal
\* costs no other message, although its body stays in the stream.
OnlyRefusedAreLost ==
  \A t \in Threads :
    \/ t \in Range(received)
    \/ t \in refused
    \/ sending[t] # <<>>
    \/ \E i \in DOMAIN stream : stream[i].of = t /\ (stream[i].part = "header" \/ stream[i].msg.kind = "package")

\* The messages are handed out in the order in which they were sent, each
\* once, and none of those that were refused.
InOrder ==
  /\ IsInjective(received)
  /\ Range(received) \cap refused = {}
  /\ \A i, j \in DOMAIN received : i < j =>
       \E k, l \in DOMAIN sent : k < l /\ sent[k] = received[i] /\ sent[l] = received[j]

\* The two buffers of a message are neighbours: what is left of a message is
\* at the front, or the last that has been written.
Adjacent ==
  \A i \in DOMAIN stream :
    (stream[i].part = "header" /\ i < Len(stream)) => stream[i + 1] = [stream[i] EXCEPT !.part = "body"]

=============================================================================
