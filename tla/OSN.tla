-------------------------------- MODULE OSN --------------------------------
(***************************************************************************)
(* The oblivious switching network: OSNSender holds a permutation, the     *)
(* OSNReceiver the values, and each ends up with a share of the permuted   *)
(* values.  For every switch the receiver offers two messages by oblivious *)
(* transfer, of which the sender learns the one for its setting; they      *)
(* replace the masks of the two wires before the switch by those after it. *)
(*                                                                         *)
(* A block is a set of atoms, its exclusive or the symmetric difference:   *)
(* random blocks and the inputs are atoms of their own.                    *)
(***************************************************************************)
EXTENDS Benes

LOCAL INSTANCE FiniteSetsExt

CONSTANTS
  Channels,   \* the channels, each served by one thread on either side
  MaxRuns,    \* bound: how often the programs are run
  MaxOnes     \* bound: at how many places the silent choice is 1

OSNAssumption == {Channels, MaxRuns, MaxOnes} \subseteq Nat \ {0}

VARIABLES
  file,        \* the route in the cache file, <<>> if there is none
  ot_type,     \* 0: silent, for random choices; 1: for the choices given
  choices,     \* what the oblivious transfer was done with
  toReceiver, toSender,
  masks,       \* the receiver's share, <<>> until it has one
  runs

vars == <<dest, switched, out, file, ot_type, choices, toReceiver, toSender, masks, runs>>

Xor(a, b) == (a \ b) \cup (b \ a)
Values == Size(dest)
Depth == CeilLog2(Values)
Switches == Network(Values)

\* All switches, also those no value comes through.
Setting(k) == IF k \in DOMAIN switched THEN switched[k] ELSE 0
Index(k) == k[1] * Half(Values) + k[2]
TotalLen == Levels(Depth) * Half(Values)

\* The threads share out the switches by their numbers.
ChunkStart(t) == (TotalLen * t) \div Channels

\* The threads a switch falls to.
Threads(k) ==
  LET index == Index(k)
  IN  {t \in 0 .. Channels - 1 : ChunkStart(t) <= index /\ index < ChunkStart(t + 1)}

\* Where the transfer of a switch stands in that of its thread.  Every thread
\* has a generator of its own with the same seed: those of two threads are
\* alike at equal places, the silent ones if they are of one length.
Place(k) ==
  LET t == CHOOSE x \in Threads(k) : TRUE
      start == ChunkStart(t)
  IN  <<IF ot_type = 0 THEN ChunkStart(t + 1) - start ELSE 0, Index(k) - start>>

Places == {Place(k) : k \in Switches}

\* Message b for a switch; it is that of its place for the choice made there,
\* or the other.
Transferred(k, b) ==
  LET place == Place(k)
      atom(half) == {<<"ot", place[1], place[2], b = choices[k], half>>}
  IN  <<atom(0), atom(1)>>

Mask(i) == {<<"mask", i, 0, FALSE, 0>>}
Input(i) == {<<"input", i, 0, FALSE, 0>>}

-----------------------------------------------------------------------------
(* The sender.                                                             *)

OSNInit ==
  /\ Init
  /\ file = <<>> /\ ot_type \in {0, 1} /\ choices = <<>>
  /\ toReceiver = <<>> /\ toSender = <<>> /\ masks = <<>> /\ runs = 1

\* The generator has a fixed seed: the permutation of a size is always the same.
Draw(n) == {dest}

\* Benes::load and Benes::dump; load fails if there is no file.
Loadable == file # <<>>
Load == switched' = file /\ UNCHANGED file
Dump == file' = switched'

\* The route is loaded from the cache file, or made and, with a cache, saved.
InitSender(cache) ==
  /\ switched = <<>>
  /\ \/ cache /\ Loadable /\ Load
     \/ /\ ~(cache /\ Loadable)
        /\ switched' = Route(Depth, 0, 0, Identity(Values), dest)
        /\ IF cache THEN Dump ELSE UNCHANGED file
  /\ UNCHANGED <<dest, out, ot_type, choices, toReceiver, toSender, masks, runs>>

\* The silent transfer draws choices; the sender says where they differ from
\* the settings.
Transfer ==
  /\ switched # <<>> /\ choices = <<>>
  /\ IF ot_type = 0
     THEN /\ \E ones \in UNION {kSubset(n, Places) : n \in 0 .. MaxOnes} :
               choices' = Known([k \in Switches |-> IF Place(k) \in ones THEN 1 ELSE 0])
          /\ toReceiver' = Append(toReceiver, [k \in Switches |-> (choices'[k] + Setting(k)) % 2])
     ELSE choices' = [k \in Switches |-> Setting(k)] /\ UNCHANGED toReceiver
  /\ UNCHANGED <<dest, switched, out, file, ot_type, toSender, masks, runs>>

-----------------------------------------------------------------------------
(* The receiver.                                                           *)

\* Where the choice was the other, the messages are swapped.
Offered(k, bit, correction) == Transferred(k, (bit + correction[k]) % 2)

\* One switch: from the masks before, and message 0, the masks after, and
\* the correction that makes message 1 fit as well.  A wire carries its mask
\* and the corrections made on the way.
Correction(offered, k, wire0, wire1) ==
  LET m0 == wire0.mask
      m1 == wire1.mask
      w0 == Xor(offered[1][1], m0)
      w1 == Xor(offered[1][2], m1)
      corrections == wire0.corrections @@ wire1.corrections
        @@ (k :> <<Xor(offered[2][1], Xor(m0, w1)), Xor(offered[2][2], Xor(m1, w0))>>)
  IN  <<[mask |-> w0, corrections |-> corrections], [mask |-> w1, corrections |-> corrections]>>

Masks(correction) ==
  LET offered == Known([k \in Switches |-> <<Offered(k, 0, correction), Offered(k, 1, correction)>>])
      through(k, s, a, b) == Correction(offered[k], k, a, b)
  IN  Eval(through, Depth, 0, 0, [k \in Switches |-> 0],
           [i \in Vector(Values) |-> [mask |-> Mask(i), corrections |-> <<>>]])

RECURSIVE AllCorrections(_, _)
AllCorrections(wires, i) ==
  IF i \notin DOMAIN wires THEN <<>> ELSE wires[i].corrections @@ AllCorrections(wires, i + 1)

RunReceiver ==
  /\ masks = <<>> /\ choices # <<>>
  /\ ot_type = 0 => toReceiver # <<>>
  /\ LET correction == IF ot_type = 0 THEN Head(toReceiver) ELSE [k \in Switches |-> 0]
         wires == Known(Masks(correction))
     IN  /\ toReceiver' = IF ot_type = 0 THEN Tail(toReceiver) ELSE toReceiver
         /\ masks' = [i \in DOMAIN wires |-> wires[i].mask]
         /\ toSender' = toSender \o <<[corrections |-> AllCorrections(wires, 0)],
                                      [inputs |-> [i \in Vector(Values) |-> Xor(Mask(i), Input(i))]]>>
  /\ UNCHANGED <<dest, switched, out, file, ot_type, choices, runs>>

-----------------------------------------------------------------------------
\* Mutant: corrected by the choice made, not by the setting.
LearntByChoice(k, corrections) ==
  LET got == Transferred(k, choices[k])
  IN  IF choices[k] = 0 THEN got ELSE <<Xor(corrections[k][1], got[1]), Xor(corrections[k][2], got[2])>>

\* What the sender has for a switch, with the correction if it is set.
Learnt(k, corrections) ==
  LET got == Transferred(k, choices[k])
  IN  IF Setting(k) = 0 THEN got ELSE <<Xor(corrections[k][1], got[1]), Xor(corrections[k][2], got[2])>>

\* The network with the messages at its switches: gen_benes_masked_evaluate.
GenBenesMaskedEvaluate(learnt, v) ==
  LET through(k, s, a, b) == Swap(k, s, Xor(a, learnt[k][1]), Xor(b, learnt[k][2]))
  IN  Known(Eval(through, Depth, 0, 0, switched, v))

RunSender ==
  /\ out = <<>> /\ Len(toSender) = 2
  /\ LET learnt == Known([k \in DOMAIN switched |-> Learnt(k, toSender[1].corrections)])
     IN  out' = GenBenesMaskedEvaluate(learnt, toSender[2].inputs)
  /\ toSender' = <<>>
  /\ UNCHANGED <<dest, switched, file, ot_type, choices, toReceiver, masks, runs>>

\* The programs are run again: nothing but the file is left.
Again ==
  /\ out # <<>> /\ masks # <<>> /\ runs < MaxRuns
  /\ dest' \in Draw(Values)
  /\ runs' = runs + 1
  /\ switched' = <<>> /\ out' = <<>> /\ choices' = <<>> /\ masks' = <<>>
  /\ UNCHANGED <<file, ot_type, toReceiver, toSender>>

\* Both have their shares.
Done ==
  /\ out # <<>> /\ masks # <<>> /\ runs = MaxRuns
  /\ UNCHANGED vars

OSNNext == (\E cache \in BOOLEAN : InitSender(cache)) \/ Transfer \/ RunReceiver \/ RunSender \/ Again \/ Done

-----------------------------------------------------------------------------
(* Properties.                                                             *)

\* The two shares are those of the permuted inputs.
Shares == out # <<>> => \A i \in Vector(Values) : Xor(out[i], masks[i]) = Input(dest[i])

\* Every switch falls to exactly one of the threads (which depends on the number
\* of values only).
ChunksCover == switched = <<>> => \A k \in Switches : Cardinality(Threads(k)) = 1

=============================================================================
