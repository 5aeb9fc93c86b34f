-------------------------------- MODULE Wire --------------------------------
(***************************************************************************)
(* The messages of the protocol, saved on one side and loaded on the       *)
(* other: the header, four kinds of operations, three of responses, and    *)
(* the packages of results.  A message is its class and its fields; a      *)
(* buffer holds what save writes.  Ciphertexts, keys and byte strings are  *)
(* taken as wholes; a context tells which of them it can load.             *)
(***************************************************************************)
EXTENDS Integers, Sequences, FiniteSets, SequencesExt

CONSTANTS
  Blobs,           \* OPRF data, and psu_result of a plainResponse
  Ciphertexts,     \* those of this context
  Foreign,         \* ciphertexts and keys of another context
  Exponents,       \* those of a query
  Counts           \* values for indices, counts and sizes

CONSTANT NoValue   \* nothing: a null pointer, an empty vector or an empty SEAL object

\* Exponents are 32 bits wide.
WireAssumption == IsFiniteSet(Exponents)

Contexts == {"none", "invalid", "plain", "keyswitching"}
Valid(context) == context \in {"plain", "keyswitching"}

max_label_byte_count == 1024
max_nonce_byte_count == 16

Ok == "ok"
InvalidArgument == "invalid_argument"
RuntimeError == "runtime_error"
LogicError == "logic_error"

Operations == {"rop_parms", "rop_oprf", "rop_query", "rop_response"}
Responses == {"ParmsResponse", "OPRFResponse", "QueryResponse"}

(***************************************************************************)
(* Messages.  The ciphertexts of a query are a map from exponents.         *)
(***************************************************************************)
Message(class, fields) == [class |-> class, fields |-> fields]

\* Each exponent of a query with no ciphertext, or one.
Queries ==
  {[keys |-> k, data |-> d] :
     k \in Ciphertexts \cup Foreign,
     d \in UNION {[E -> {<<>>} \cup {<<ct>> : ct \in Ciphertexts \cup Foreign}] : E \in SUBSET Exponents}}

\* What the receiver puts in a package; ReceiverDB bounds the two sizes.
Packages ==
  {[bundle_idx |-> b, cache_idx |-> c, psu_result |-> ct,
    label_byte_count |-> l, nonce_byte_count |-> n, label_result |-> r] :
     b \in Counts, c \in Counts, ct \in Ciphertexts \cup Foreign,
     l \in {0, max_label_byte_count, max_label_byte_count + 1},
     n \in {0, max_nonce_byte_count, max_nonce_byte_count + 1},
     r \in {<<>>} \cup {<<ct2>> : ct2 \in Ciphertexts \cup Foreign}}

Messages ==
  {Message("rop_parms", <<>>)}
  \cup {Message("rop_oprf", <<d>>) : d \in Blobs}
  \cup {Message("rop_query", <<q>>) : q \in Queries}
  \cup {Message("rop_response", <<b, d, c>>) : b \in Counts, d \in Blobs, c \in Counts}
  \cup {Message("ParmsResponse", <<p>>) : p \in Blobs \cup {NoValue}}
  \cup {Message("OPRFResponse", <<d>>) : d \in Blobs}
  \cup {Message("QueryResponse", <<c, a>>) : c \in Counts, a \in Counts}
  \cup {Message("ResultPackage", <<p>>) : p \in Packages}

(***************************************************************************)
(* save.  The parts of a query come in whatever order the hash map has.    *)
(***************************************************************************)
SaveFails(msg) == msg.class = "ParmsResponse" /\ msg.fields = <<NoValue>>

QueryParts(q) ==
  {[i \in DOMAIN s |-> [exponent |-> s[i], cts |-> q.data[s[i]]]] : s \in SetToSeqs(DOMAIN q.data)}

SavedQuery(q) ==
  {Message("rop_query", <<[relin_keys |-> q.keys, query |-> parts]>>) : parts \in QueryParts(q)}

\* The other operations, the responses and a package are written field by field.
SavedOperation(msg) == {msg}
SavedResponse(msg) == {msg}
SavedPackage(msg) == {msg}

Saved(msg) ==
  CASE msg.class = "rop_query" -> SavedQuery(msg.fields[1])
    [] msg.class \in Operations \ {"rop_query"} -> SavedOperation(msg)
    [] msg.class \in Responses -> SavedResponse(msg)
    [] OTHER -> SavedPackage(msg)

(***************************************************************************)
(* load, for an object of the class wanted.  Which table a buffer holds is *)
(* seen from its union tag; a package is no operation and no response, and *)
(* does not verify as one.                                                 *)
(***************************************************************************)
NeedsContext(class) == class \in {"rop_query", "ResultPackage"}
NeedsNoContext(class) == class \in Operations \ {"rop_query"}

ContextRefused(class, context) ==
  \/ NeedsContext(class) /\ ~Valid(context)
  \/ NeedsNoContext(class) /\ context # "none"

Fits(ct) == ct \in Ciphertexts
AllFit(cts) == \A i \in DOMAIN cts : Fits(cts[i])

KeysRefused(keys, context) == context = "keyswitching" /\ ~Fits(keys)

\* The parts before the first one that cannot be loaded, into the map.
GoodParts(object, parts) ==
  LET bad == {i \in DOMAIN parts :
                \/ ~AllFit(parts[i].cts)
                \/ parts[i].exponent \in DOMAIN object
                \/ \E j \in 1 .. i - 1 : parts[j].exponent = parts[i].exponent}
  IN  {i \in DOMAIN parts : \A b \in bad : i < b}

Inserted(object, parts) ==
  LET good == GoodParts(object, parts)
      added == {parts[i].exponent : i \in good}
  IN  [e \in DOMAIN object \cup added |->
         IF e \in added THEN parts[CHOOSE i \in good : parts[i].exponent = e].cts ELSE object[e]]

Empty == [e \in {} |-> <<>>]

(***************************************************************************)
(* What load clears of the object before it reads the buffer: a query's    *)
(* map, a package's ciphertexts, the data or parameters of the others.     *)
(* Two of them have nothing to clear, the rest is overwritten or stays.    *)
(***************************************************************************)
Cleared(class, object) ==
  CASE class = "rop_query" -> [object EXCEPT !.data = Empty]
    [] class = "ResultPackage" -> [object EXCEPT !.psu_result = NoValue, !.label_result = <<>>]
    [] class \in {"rop_oprf", "OPRFResponse", "ParmsResponse"} -> <<NoValue>>
    [] class = "rop_response" -> [object EXCEPT ![2] = NoValue]
    [] OTHER -> object

\* Mutant: a part that cannot be loaded ends the loop, and no more.
LoadQuerySwallowing(old, buffer, context) ==
  LET req == buffer.fields[1]
  IN  IF KeysRefused(req.relin_keys, context)
      THEN [outcome |-> RuntimeError, object |-> [old EXCEPT !.keys = NoValue]]
      ELSE [outcome |-> Ok,
            object |-> [keys |-> IF context = "keyswitching" THEN req.relin_keys ELSE old.keys,
                        data |-> Inserted(old.data, req.query)]]

\* A query that fails has lost its keys, or has the parts before the bad one.
LoadQuery(old, buffer, context) ==
  LET req == buffer.fields[1]
  IN  IF KeysRefused(req.relin_keys, context)
      THEN [outcome |-> RuntimeError, object |-> [old EXCEPT !.keys = NoValue]]
      ELSE [outcome |-> IF GoodParts(old.data, req.query) = DOMAIN req.query THEN Ok ELSE RuntimeError,
            object |-> [keys |-> IF context = "keyswitching" THEN req.relin_keys ELSE old.keys,
                        data |-> Inserted(old.data, req.query)]]

NonceCount(p) == IF p.label_byte_count # 0 THEN p.nonce_byte_count ELSE 0

PackageRefused(p) ==
  \/ ~Fits(p.psu_result)
  \/ p.label_byte_count > max_label_byte_count
  \/ NonceCount(p) > max_nonce_byte_count
  \/ ~AllFit(p.label_result)

\* The fields are loaded one after the other, up to what is refused.
PartOfPackage(old, p) ==
  LET fitting == {i \in DOMAIN p.label_result : AllFit(SubSeq(p.label_result, 1, i))}
      label_read == Fits(p.psu_result)
      nonce_read == label_read /\ p.label_byte_count <= max_label_byte_count
      result_read == nonce_read /\ NonceCount(p) <= max_nonce_byte_count
  IN  [bundle_idx |-> p.bundle_idx, cache_idx |-> p.cache_idx,
       psu_result |-> IF label_read THEN p.psu_result ELSE NoValue,
       label_byte_count |-> IF label_read THEN p.label_byte_count ELSE old.label_byte_count,
       nonce_byte_count |-> IF nonce_read THEN NonceCount(p) ELSE old.nonce_byte_count,
       label_result |-> IF result_read THEN SubSeq(p.label_result, 1, Cardinality(fitting)) ELSE <<>>]

LoadPackage(old, buffer, context) ==
  LET p == buffer.fields[1]
  IN  IF PackageRefused(p) THEN [outcome |-> RuntimeError, object |-> PartOfPackage(old, p)]
      ELSE [outcome |-> Ok, object |-> [p EXCEPT !.nonce_byte_count = NonceCount(p)]]

\* The other operations and the responses are read field by field.
LoadOperation(buffer) == [outcome |-> Ok, object |-> buffer.fields]
LoadResponse(buffer) == [outcome |-> Ok, object |-> buffer.fields]

LoadedFrom(class, old, buffer, context) ==
  CASE class = "rop_query" -> LoadQuery(old, buffer, context)
    [] class = "ResultPackage" -> LoadPackage(old, buffer, context)
    [] class \in Responses -> LoadResponse(buffer)
    [] OTHER -> LoadOperation(buffer)

Load(class, old, buffer, context) ==
  IF ContextRefused(class, context) THEN [outcome |-> InvalidArgument, object |-> old]
  ELSE IF buffer.class # class THEN [outcome |-> RuntimeError, object |-> Cleared(class, old)]
  ELSE LoadedFrom(class, Cleared(class, old), buffer, context)

(***************************************************************************)
(* An object of a class is loaded from messages of the other side.         *)
(***************************************************************************)
VARIABLES
  class,     \* that of the object
  object,    \* what it holds
  sent,      \* the message saved last
  buffer,    \* what save wrote
  outcome,   \* that of the last load
  loads,     \* how often it has been loaded, at most MaxLoads
  Context    \* the SEALContext of the side that loads

vars == <<class, object, sent, buffer, outcome, loads, Context>>

CONSTANT MaxLoads

Fresh(c) ==
  CASE c = "rop_query" -> [keys |-> NoValue, data |-> Empty]
    [] c = "ResultPackage" -> [bundle_idx |-> 0, cache_idx |-> 0, psu_result |-> NoValue,
                               label_byte_count |-> 0, nonce_byte_count |-> 0, label_result |-> <<>>]
    [] c = "rop_response" -> <<0, NoValue, 0>>
    [] c = "QueryResponse" -> <<0, 0>>
    [] c = "rop_parms" -> <<>>
    [] OTHER -> <<NoValue>>

Nothing == Message("none", <<>>)

Init ==
  /\ class \in Operations \cup Responses \cup {"ResultPackage"}
  /\ object = Fresh(class)
  /\ sent = Nothing /\ buffer = Nothing
  /\ outcome = "none"
  /\ loads = 0
  /\ Context \in Contexts

SaveMessage(msg) ==
  /\ outcome # "saved"
  /\ loads < MaxLoads
  /\ sent' = msg
  /\ IF SaveFails(msg) THEN outcome' = LogicError /\ buffer' = Nothing
     ELSE outcome' = "saved" /\ buffer' \in Saved(msg)
  /\ loads' = loads + 1
  /\ UNCHANGED <<class, object, Context>>

\* The channels hand over the context only for a query or a package.
LoadMessage ==
  LET context == IF NeedsContext(class) THEN Context ELSE "none"
      result == Load(class, object, buffer, context)
  IN  /\ outcome = "saved"
      /\ outcome' = result.outcome
      /\ object' = result.object
      /\ UNCHANGED <<class, sent, buffer, loads, Context>>

\* Only messages of the class and, to see one refused, of two others.
Sendable == {msg \in Messages : msg.class \in {class, "rop_oprf", "QueryResponse"}}

Next == (\E msg \in Sendable : SaveMessage(msg)) \/ LoadMessage

Spec == Init /\ [][Next]_vars

-----------------------------------------------------------------------------
(* Properties.                                                             *)

\* What is loaded is what was sent, whatever the object held before: relin_keys
\* where they are of use, and a nonce only with a label.
LoadedIsSent ==
  outcome = Ok =>
    /\ sent.class = class
    /\ CASE class = "rop_query" ->
              LET q == sent.fields[1]
              IN  object.data = q.data /\ (Context = "keyswitching" => object.keys = q.keys)
         [] class = "ResultPackage" ->
              LET p == sent.fields[1]
              IN  object = [p EXCEPT !.nonce_byte_count = IF p.label_byte_count = 0 THEN 0 ELSE @]
         [] OTHER -> object = sent.fields

OwnContext(msg) ==
  CASE msg.class = "rop_query" ->
         LET q == msg.fields[1]
         IN  /\ Context = "keyswitching" => q.keys \in Ciphertexts
             /\ \A e \in DOMAIN q.data : AllFit(q.data[e])
    [] msg.class = "ResultPackage" ->
         LET p == msg.fields[1]
         IN  /\ p.psu_result \in Ciphertexts /\ AllFit(p.label_result)
             /\ p.label_byte_count <= max_label_byte_count
             /\ p.label_byte_count = 0 \/ p.nonce_byte_count <= max_nonce_byte_count
    [] OTHER -> TRUE

\* A message of the right class that was made for this context, within the
\* sizes ReceiverDB allows, is always loaded.
OwnMessagesLoad ==
  outcome \in {InvalidArgument, RuntimeError} /\ sent.class = class /\ (NeedsContext(class) => Valid(Context))
    => ~OwnContext(sent)

=============================================================================
