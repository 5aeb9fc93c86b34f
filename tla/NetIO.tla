------------------------------- MODULE NetIO -------------------------------
(***************************************************************************)
(* A NetIO stream between the two parties of DDHPEQT, byte by byte: the    *)
(* sockets' constructor and destructor, SendDataInternal and               *)
(* ReceiveDataInternal, the FILE in between with its one buffer for both   *)
(* directions, and a kernel that holds a limited number of bytes.          *)
(* PeerSession has the same exchange as whole messages.                    *)
(*                                                                         *)
(* The receiver of the union is the server here, the sender the client.    *)
(***************************************************************************)
EXTENDS Integers, SequencesExt

CONSTANTS
  QueriesServed, \* the queries this Receiver has served, this one included
  Points,        \* cells of a query's matrix: a point for each
  PointLen,      \* POINT_BYTE_LEN
  FlagLen,       \* sizeof(int)
  BufferSize,    \* NETWORK_BUFFER_SIZE
  Capacity,      \* bytes the kernel takes for one direction
  MayAbort       \* whether a program may end in the middle

NetIOAssumption ==
  /\ {QueriesServed, Points, PointLen, FlagLen, BufferSize, Capacity} \subseteq Nat \ {0}
  /\ MayAbort \in BOOLEAN

VARIABLES
  port,      \* of the server: "free", "listening" or "taken" by another program
  pc,        \* each party: "new", "up", and how it ends
  pos,       \* its place in its script
  have,      \* HAVE_SENT_LEN, HAVE_RECEIVE_LEN
  unsent,    \* written to the FILE and not flushed
  ahead,     \* read from the socket and not yet taken from the FILE
  eof,       \* the FILE has seen the end
  net,       \* on the way to the party
  got        \* the bytes handed to the party, by the step they are for

socket == <<port, net>>
file == <<unsent, ahead, eof>>
netIOVars == <<socket, file, pc, pos, have, got>>

Party == {"server", "client"}
Peer(p) == IF p = "server" THEN "client" ELSE "server"

Send(msg, len) == [op |-> "send", msg |-> msg, len |-> len]
Receive(msg, len) == [op |-> "receive", msg |-> msg, len |-> len]

\* random_matrix is appended to by every query and never cleared, while
\* decrypt_randoms_matrix is assigned anew.
Matrix(p) == PointLen * Points * (IF p = "server" THEN QueriesServed ELSE 1)

\* Mutant: the flag is sent before the answers are there.
ScriptFlagFirst(p) ==
  IF p = "server"
  THEN << Send("mask_X", Matrix(p)), Send("flag", FlagLen),
          Receive("permuted_Y", Matrix(p)), Receive("permuted_mask_X", Matrix(p)) >>
  ELSE << Receive("mask_X", Matrix(p)), Send("permuted_Y", Matrix(p)),
          Send("permuted_mask_X", Matrix(p)), Receive("flag", FlagLen) >>

\* Mutant: the first answer, which needs no question, is sent before it.
ScriptAnswerFirst(p) ==
  IF p = "server"
  THEN << Send("mask_X", Matrix(p)), Receive("permuted_Y", Matrix(p)),
          Receive("permuted_mask_X", Matrix(p)), Send("flag", FlagLen) >>
  ELSE << Send("permuted_Y", Matrix(p)), Receive("mask_X", Matrix(p)),
          Send("permuted_mask_X", Matrix(p)), Receive("flag", FlagLen) >>

\* DDHPEQT::Receive and Send, and the flag after them.
Script(p) ==
  IF p = "server"
  THEN << Send("mask_X", Matrix(p)), Receive("permuted_Y", Matrix(p)),
          Receive("permuted_mask_X", Matrix(p)), Send("flag", FlagLen) >>
  ELSE << Receive("mask_X", Matrix(p)), Send("permuted_Y", Matrix(p)),
          Send("permuted_mask_X", Matrix(p)), Receive("flag", FlagLen) >>

Bytes(step) == [i \in 1 .. step.len |-> <<step.msg, i>>]
Gone(p) == pc[p] \notin {"new", "up"}
AtEnd(p) == pc[p] = "up" /\ pos[p] > Len(Script(p))
Step(p) == Script(p)[pos[p]]
Doing(p, op) == pc[p] = "up" /\ pos[p] <= Len(Script(p)) /\ Step(p).op = op

NetIOInit ==
  /\ port \in {"free", "taken"}
  /\ pc = [p \in Party |-> "new"]
  /\ pos = [p \in Party |-> 1]
  /\ have = [p \in Party |-> 0]
  /\ unsent = [p \in Party |-> <<>>]
  /\ ahead = [p \in Party |-> <<>>]
  /\ eof = [p \in Party |-> FALSE]
  /\ net = [p \in Party |-> <<>>]
  /\ got = [p \in Party |-> [k \in 1 .. Len(Script(p)) |-> <<>>]]

-----------------------------------------------------------------------------
(* NetIO("server", ...) and NetIO("client", ...).                          *)

\* bind and listen, or perror and exit.
Listen ==
  /\ pc["server"] = "new" /\ port # "listening"
  /\ IF port = "free" THEN port' = "listening" /\ UNCHANGED pc
     ELSE pc' = [pc EXCEPT !["server"] = "exit"] /\ UNCHANGED port
  /\ UNCHANGED <<net, file, pos, have, got>>

\* The connection is complete before accept returns it.
Connect ==
  /\ pc["client"] = "new"
  /\ pc' = [pc EXCEPT !["client"] = IF port = "listening" THEN "up" ELSE "exit"]
  /\ UNCHANGED <<socket, file, pos, have, got>>

Accept ==
  /\ pc["server"] = "new" /\ port = "listening"
  /\ pc["client"] \notin {"new", "exit"}
  /\ pc' = [pc EXCEPT !["server"] = "up"]
  /\ UNCHANGED <<socket, file, pos, have, got>>

-----------------------------------------------------------------------------
(* SendDataInternal.                                                       *)

\* fwrite, as far as the buffer goes.  To write to a FILE with input left in
\* its buffer is undefined: the input may be dropped.
Write(p) ==
  /\ Doing(p, "send")
  /\ have[p] < Step(p).len
  /\ Len(unsent[p]) < BufferSize
  /\ LET len == Min({Step(p).len - have[p], BufferSize - Len(unsent[p])})
     IN  /\ unsent' = [unsent EXCEPT ![p] =
                         @ \o SubSeq(Bytes(Step(p)), have[p] + 1, have[p] + len)]
         /\ have' = [have EXCEPT ![p] = @ + len]
  /\ \E left \in {ahead[p], <<>>} : ahead' = [ahead EXCEPT ![p] = left]
  /\ UNCHANGED <<port, net, eof, pc, pos, got>>

\* write, when the buffer is full or flushed; SIGPIPE if nobody reads.
Push(p) ==
  /\ Doing(p, "send")
  /\ unsent[p] # <<>>
  /\ have[p] = Step(p).len \/ Len(unsent[p]) = BufferSize
  /\ IF Gone(Peer(p))
     THEN pc' = [pc EXCEPT ![p] = "killed"] /\ UNCHANGED <<unsent, net>>
     ELSE /\ Len(net[Peer(p)]) < Capacity
          /\ net' = [net EXCEPT ![Peer(p)] = Append(@, Head(unsent[p]))]
          /\ unsent' = [unsent EXCEPT ![p] = Tail(@)]
          /\ UNCHANGED pc
  /\ UNCHANGED <<port, ahead, eof, pos, have, got>>

NextStep(p) ==
  /\ pos' = [pos EXCEPT ![p] = @ + 1]
  /\ have' = [have EXCEPT ![p] = 0]

Sent(p) ==
  /\ Doing(p, "send")
  /\ have[p] = Step(p).len
  /\ unsent[p] = <<>>
  /\ NextStep(p)
  /\ UNCHANGED <<socket, file, pc, got>>

-----------------------------------------------------------------------------
(* ReceiveDataInternal.                                                    *)

\* read: some of what has arrived, whomever it is meant for.
Fill(p) ==
  /\ Doing(p, "receive")
  /\ have[p] < Step(p).len
  /\ ahead[p] = <<>> /\ net[p] # <<>>
  /\ \E len \in 1 .. Min({Len(net[p]), BufferSize}) :
       /\ ahead' = [ahead EXCEPT ![p] = SubSeq(net[p], 1, len)]
       /\ net' = [net EXCEPT ![p] = SubSeq(@, len + 1, Len(@))]
  /\ UNCHANGED <<port, unsent, eof, pc, pos, have, got>>

Take(p) ==
  /\ Doing(p, "receive")
  /\ have[p] < Step(p).len
  /\ ahead[p] # <<>>
  /\ LET len == Min({Step(p).len - have[p], Len(ahead[p])})
     IN  /\ got' = [got EXCEPT ![p][pos[p]] = @ \o SubSeq(ahead[p], 1, len)]
         /\ ahead' = [ahead EXCEPT ![p] = SubSeq(@, len + 1, Len(@))]
         /\ have' = [have EXCEPT ![p] = @ + len]
  /\ UNCHANGED <<socket, unsent, eof, pc, pos>>

\* At the end of the stream fread returns 0.  That is not less than 0, so
\* HAVE_RECEIVE_LEN grows by 0 and the loop goes on.
ReadEnd(p) ==
  /\ Doing(p, "receive")
  /\ have[p] < Step(p).len
  /\ ahead[p] = <<>> /\ net[p] = <<>> /\ Gone(Peer(p))
  /\ eof' = [eof EXCEPT ![p] = TRUE]
  /\ LET RECEIVE_LEN == 0
     IN  IF RECEIVE_LEN >= 0
         THEN have' = [have EXCEPT ![p] = @ + RECEIVE_LEN] /\ UNCHANGED pc
         ELSE pc' = [pc EXCEPT ![p] = "reported"] /\ UNCHANGED have
  /\ UNCHANGED <<socket, unsent, ahead, pos, got>>

Received(p) ==
  /\ Doing(p, "receive")
  /\ have[p] = Step(p).len
  /\ NextStep(p)
  /\ UNCHANGED <<socket, file, pc, got>>

-----------------------------------------------------------------------------

\* A socket that is closed with input left resets the connection, and what is
\* on its way to the peer may be lost.
CloseSocket(p) ==
  \E arriving \in {net[Peer(p)]} \cup {bytes \in {<<>>} : net[p] # <<>>} :
    net' = [net EXCEPT ![Peer(p)] = arriving]

\* ~NetIO closes the connection before it flushes.  The server has not set
\* IS_SERVER, so that its other socket may be left listening.
Destruct(p) ==
  /\ AtEnd(p)
  /\ pc' = [pc EXCEPT ![p] = "closed"]
  /\ CloseSocket(p)
  /\ IF p = "server" THEN port' \in {"free", "listening"} ELSE UNCHANGED port
  /\ UNCHANGED <<file, pos, have, got>>

\* The program ends in between: a signal, or an exception nobody catches.
Abort(p) ==
  /\ MayAbort
  /\ pc[p] = "up"
  /\ pc' = [pc EXCEPT ![p] = "aborted"]
  /\ CloseSocket(p)
  /\ IF p = "server" THEN port' = "free" ELSE UNCHANGED port
  /\ UNCHANGED <<file, pos, have, got>>

PartyStep(p) ==
  \/ Write(p) \/ Push(p) \/ Sent(p)
  \/ Fill(p) \/ Take(p) \/ ReadEnd(p) \/ Received(p)
  \/ Destruct(p)

NetIONext ==
  \/ Listen \/ Connect \/ Accept
  \/ \E p \in Party : PartyStep(p) \/ Abort(p)

NetIOSpec == NetIOInit /\ [][NetIONext]_netIOVars

\* Both programs run on, and the kernel delivers what it has taken.
FairNetIOSpec ==
  /\ NetIOSpec
  /\ WF_netIOVars(Listen) /\ WF_netIOVars(Connect) /\ WF_netIOVars(Accept)
  /\ \A p \in Party : WF_netIOVars(PartyStep(p))

-----------------------------------------------------------------------------
(* Properties.                                                             *)

(***************************************************************************)
(* Each party has the bytes of the message it expects when it is past a    *)
(* step, all of them and no others, however the stream is cut into writes  *)
(* and reads, and also when the other party ends in the middle.            *)
(***************************************************************************)
Intact ==
  \A p \in Party : \A k \in 1 .. pos[p] - 1 :
    LET step == Script(p)[k]
    IN  step.op = "receive" => got[p][k] = Bytes(step)

\* Nobody writes to a FILE that has read ahead, which could drop the input.
NothingReadAhead ==
  \A p \in Party : Doing(p, "send") => ahead[p] = <<>>

(***************************************************************************)
(* The destructor closes the connection before it flushes the FILE, and    *)
(* without a look at the input: both must have nothing left.               *)
(***************************************************************************)
NothingLeftAtClose ==
  \A p \in Party :
    pc[p] = "closed" => unsent[p] = <<>> /\ ahead[p] = <<>> /\ net[p] = <<>>

\* What a party receives is what the other sent, and what is sent is received.
BytesArrive == Intact /\ NothingReadAhead /\ NothingLeftAtClose

\* Two parties that are connected get to the end of their scripts, although
\* the kernel takes less than one message, unless one of them is aborted.
Finishes ==
  pc["client"] = "up" ~>
    \/ \A p \in Party : pc[p] = "closed"
    \/ \E p \in Party : pc[p] = "aborted"

(***************************************************************************)
(* "error: fail to receive data" is printed when fread fails, says         *)
(* ReceiveDataInternal.                                                    *)
(***************************************************************************)
EndReported == \A p \in Party : eof[p] ~> pc[p] = "reported"

=============================================================================
