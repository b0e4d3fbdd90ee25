-------------------------- MODULE CiphertextBinding --------------------------
(***************************************************************************)
(* The canonical codec of the Ciphertext Binding                           *)
(* (crates/ciphertext-binding): the four kinds of AAD and the three        *)
(* ciphertext envelopes that carry one, as CBOR arrays of fixed order, and *)
(* the strict decoders the Coprocessor, MPC and the Enclave put between    *)
(* themselves and every byte string they are handed.                       *)
(*                                                                         *)
(* An AAD is authenticated byte for byte, so what matters is that decoding *)
(* is the exact inverse of encoding.  Here a value is encoded, its bytes   *)
(* are changed on the way, and every decoder is asked about the result.    *)
(*                                                                         *)
(* A field is a number or a sequence of bytes; lengths and the base of a   *)
(* byte are parameters.  A decoder that fails refuses: the errors are not  *)
(* told apart, and the order of its checks then makes no difference.       *)
(***************************************************************************)
EXTENDS Integers, SequencesExt

CONSTANTS
  Base,            \* a byte is a number below it: 256
  InfoBase,        \* the additional information of an initial byte: 32 values
  InlineEnd,       \* arguments below are in the initial byte itself: 24
  Width,           \* the bytes of the longer arguments: <<1, 2, 4, 8>>
  IdLength,        \* the bytes of an identifier or digest: 32
  ContractLength,  \* of a contract address: 20
  NonceLength,     \* of a nonce: 12
  IsUtf8(_),       \* std::str::from_utf8 accepts
  Messages,        \* the values that are encoded
  Byte,            \* bound: the bytes that damage puts in
  MaxEdits         \* bound: the changes made to one encoding

ASSUME CodecAssumption ==
  /\ Base \in Nat /\ InfoBase \in Nat /\ InlineEnd \in Nat
  /\ Width \in Seq(Nat \ {0}) /\ Width # <<>>
  /\ \A i, j \in DOMAIN Width : i <= j => Width[i] <= Width[j]
  /\ 9 < InlineEnd /\ InlineEnd + Len(Width) <= InfoBase /\ 5 * InfoBase <= Base
  /\ MaxEdits \in Nat

VARIABLES
  sent,    \* the value that was encoded
  bytes,   \* the bytes its receiver has
  edits    \* the changes made to them on the way (history)

vars == <<sent, bytes, edits>>

(***************************************************************************)
(* CBOR headers.                                                           *)
(***************************************************************************)
UINT  == 0
BYTES == 2
TEXT  == 3
ARRAY == 4

ByteString == Seq(0..(Base - 1))

\* to_be_bytes
BigEndian(n, w) ==
  LET quotient[i \in 0..w] == IF i = 0 THEN n ELSE quotient[i - 1] \div Base
  IN  [i \in 1..w |-> quotient[w - i] % Base]

\* from_be_bytes
FromBigEndian(s) ==
  LET prefix[i \in 0..Len(s)] == IF i = 0 THEN 0 ELSE Base * prefix[i - 1] + s[i]
  IN  prefix[Len(s)]

MaxWidth == Width[Len(Width)]

\* The powers of the base: the numbers below Powers[w] fit w bytes.
Powers == LET power[w \in 0..MaxWidth] == IF w = 0 THEN 1 ELSE Base * power[w - 1]
          IN  power

\* The first form that holds n.
Form(n) == CHOOSE i \in DOMAIN Width :
             n < Powers[Width[i]] /\ \A j \in 1..(i - 1) : n >= Powers[Width[j]]

WriteHeader(major, n) ==
  IF n < InlineEnd
    THEN <<major * InfoBase + n>>
    ELSE <<major * InfoBase + InlineEnd + Form(n) - 1>> \o BigEndian(n, Width[Form(n)])

\* Mutant: an argument may use a longer form than it needs.
MinValueNone(i) == 0

\* The least argument that needs form i.
MinValue(i) == IF i = 1 THEN InlineEnd ELSE Powers[Width[i - 1]]

Malformed == [ok |-> FALSE, major |-> 0, argument |-> 0, rest |-> <<>>]

\* read_header: the header at the front of buf, and what follows it.
ReadHeader(buf) ==
  IF buf = <<>> THEN Malformed ELSE
  LET major == buf[1] \div InfoBase
      info  == buf[1] % InfoBase
      form  == info - InlineEnd + 1
      Header(n, w) == [ok |-> TRUE, major |-> major, argument |-> n,
                       rest |-> SubSeq(buf, 2 + w, Len(buf))]
  IN  CASE info < InlineEnd -> Header(info, 0)
        [] form \in DOMAIN Width /\ Len(buf) > Width[form] ->
             LET n == FromBigEndian(SubSeq(buf, 2, 1 + Width[form]))
             IN  IF n < MinValue(form) THEN Malformed ELSE Header(n, Width[form])
        [] OTHER -> Malformed

(***************************************************************************)
(* Fields.                                                                 *)
(***************************************************************************)
Major(field) ==
  CASE field = "array_len"                      -> ARRAY
    [] field \in {"version", "kind", "chain_id"} -> UINT
    [] field = "type_tag"                       -> TEXT
    [] OTHER                                    -> BYTES

IsString(field) == Major(field) \in {BYTES, TEXT}

AadKind == 1..4

FixedLength(field) ==
  CASE field = "contract" -> ContractLength
    [] field = "nonce"    -> NonceLength
    [] OTHER              -> IdLength

\* The strings of any length: the opaque payloads of an envelope.
Payload == {"enc", "wrapped_key", "ciphertext", "aad"}

\* What a reader checks of the value of a field.
FieldOK(field, v) ==
  CASE field = "version"                 -> v < Base
    [] field = "kind"                    -> v \in AadKind
    [] field = "type_tag"                -> IsUtf8(v)
    [] field \in {"array_len", "chain_id"} \cup Payload -> TRUE
    [] OTHER                             -> Len(v) = FixedLength(field)

\* A value of the type of a field.
IsValue(field, v) ==
  /\ IF IsString(field) THEN v \in ByteString /\ Len(v) < Powers[MaxWidth]
                        ELSE v \in Nat /\ v < Powers[MaxWidth]
  /\ FieldOK(field, v)

WriteField(field, v) ==
  IF IsString(field) THEN WriteHeader(Major(field), Len(v)) \o v
                     ELSE WriteHeader(Major(field), v)

WriteFields(fields, value) ==
  LET written[i \in 0..Len(fields)] ==
        IF i = 0 THEN <<>> ELSE written[i - 1] \o WriteField(fields[i], value[fields[i]])
  IN  written[Len(fields)]

\* A reader: whether all went well, the bytes ahead and the fields behind.
Reader(buf) == [ok |-> TRUE, rest |-> buf, value |-> [field \in {} |-> 0]]

With(value, field, v) ==
  [f \in DOMAIN value \cup {field} |-> IF f = field THEN v ELSE value[f]]

\* Reads the value of a field behind its header h.
ReadValue(r, field, h) ==
  LET n == IF IsString(field) THEN h.argument ELSE 0
      v == IF IsString(field) THEN SubSeq(h.rest, 1, n) ELSE h.argument
  IN  IF r.ok /\ h.ok /\ h.major = Major(field) /\ n <= Len(h.rest) /\ FieldOK(field, v)
        THEN [ok |-> TRUE, rest |-> SubSeq(h.rest, n + 1, Len(h.rest)),
              value |-> With(r.value, field, v)]
        ELSE [ok |-> FALSE, rest |-> r.rest, value |-> r.value]

ReadField(r, field) == ReadValue(r, field, ReadHeader(r.rest))

ReadFields(r, fields) ==
  LET reader[i \in 0..Len(fields)] ==
        IF i = 0 THEN r ELSE ReadField(reader[i - 1], fields[i])
  IN  reader[Len(fields)]

(***************************************************************************)
(* AAD.                                                                    *)
(***************************************************************************)
\* array_length of a kind: its body, the version and the kind.
ArrayLength(kind) == IF kind \in {1, 2} THEN 7 ELSE 9

\* The bodies of SystemInput, SystemHandle, Enclave and Reader AAD, as encode
\* writes them ...
EncodedBody(kind) ==
  CASE kind = 1 -> <<"chain_id", "domain_id", "contract", "type_tag", "key_id">>
    [] kind = 2 -> <<"chain_id", "domain_id", "handle_id", "type_tag", "key_id">>
    [] kind = 3 -> <<"chain_id", "domain_id", "request_id", "handle_id", "type_tag",
                     "attestation_digest", "key_id">>
    [] kind = 4 -> <<"chain_id", "domain_id", "request_id", "handle_id", "reader_id",
                     "type_tag", "key_id">>

\* Mutant: two identifiers of an Enclave AAD are read the other way round.
DecodedBodySwapped(kind) ==
  IF kind = 3 THEN <<"chain_id", "domain_id", "handle_id", "request_id", "type_tag",
                     "attestation_digest", "key_id">>
              ELSE EncodedBody(kind)

\* ... and as the decode_*_body functions read them.
DecodedBody(kind) ==
  CASE kind = 1 -> <<"chain_id", "domain_id", "contract", "type_tag", "key_id">>
    [] kind = 2 -> <<"chain_id", "domain_id", "handle_id", "type_tag", "key_id">>
    [] kind = 3 -> <<"chain_id", "domain_id", "request_id", "handle_id", "type_tag",
                     "attestation_digest", "key_id">>
    [] kind = 4 -> <<"chain_id", "domain_id", "request_id", "handle_id", "reader_id",
                     "type_tag", "key_id">>

EncodeAad(aad) ==
  WriteHeader(ARRAY, ArrayLength(aad.kind))
    \o WriteField("version", aad.version)
    \o WriteField("kind", aad.kind)
    \o WriteFields(EncodedBody(aad.kind), aad)

DecodePrefix(buf) ==
  ReadField(ReadField(ReadField(Reader(buf), "array_len"), "version"), "kind")

\* The value a reader has at the end of its bytes, if all went well.
Result(r) ==
  [ok |-> r.ok /\ r.rest = <<>>,
   value |-> [field \in DOMAIN r.value \ {"array_len"} |-> r.value[field]]]

Refused == [ok |-> FALSE, value |-> <<>>]

\* decode_with_prefix, after the prefix p, for a decoder that expects one of
\* these kinds.
DecodeWithPrefix(kinds, p) ==
  IF p.ok /\ p.value.kind \in kinds /\ p.value.array_len = ArrayLength(p.value.kind)
    THEN Result(ReadFields(p, DecodedBody(p.value.kind)))
    ELSE Refused

DecodeAad(kinds, buf) == DecodeWithPrefix(kinds, DecodePrefix(buf))

(***************************************************************************)
(* Envelopes.                                                              *)
(***************************************************************************)
Envelope == {"System", "Enclave", "Reader"}

EnvelopeLength(env) == IF env = "System" THEN 6 ELSE 4

EncodedEnvelope(env) ==
  IF env = "System"
    THEN <<"key_id", "enc", "wrapped_key", "nonce", "ciphertext", "aad">>
    ELSE <<"version", "aad", "wrapped_key", "ciphertext">>

DecodedEnvelope(env) ==
  IF env = "System"
    THEN <<"key_id", "enc", "wrapped_key", "nonce", "ciphertext", "aad">>
    ELSE <<"version", "aad", "wrapped_key", "ciphertext">>

EncodeEnvelope(env, value) ==
  WriteHeader(ARRAY, EnvelopeLength(env)) \o WriteFields(EncodedEnvelope(env), value)

\* Mutant: any AAD will do.
AadMatchesAny(env, kind) == TRUE

AadMatches(env, kind) ==
  CASE env = "System"  -> kind \in {1, 2}
    [] env = "Enclave" -> kind = 3
    [] env = "Reader"  -> kind = 4

\* bind_aad_to_envelope: the AAD decodes, and is of a kind the envelope takes.
BindAad(env, aad_bytes) ==
  LET aad == DecodeAad(AadKind, aad_bytes) IN aad.ok /\ AadMatches(env, aad.value.kind)

DecodeEnvelope(env, buf) ==
  LET a == ReadField(Reader(buf), "array_len")
      d == Result(ReadFields(a, DecodedEnvelope(env)))
  IN  IF a.ok /\ a.value.array_len = EnvelopeLength(env) /\ d.ok /\ BindAad(env, d.value.aad)
        THEN d ELSE Refused

(***************************************************************************)
(* A value is encoded, and its bytes are changed on their way.             *)
(***************************************************************************)
\* The fields of a value: those the type of the source has.
Fields(m) ==
  IF m.as = "Aad" THEN {"version", "kind"} \cup Range(EncodedBody(m.value.kind))
                  ELSE Range(EncodedEnvelope(m.as))

\* What is encoded are values of these types.
ASSUME MessageAssumption ==
  /\ Byte \subseteq 0..(Base - 1)
  /\ \A m \in Messages :
       /\ m = [as |-> m.as, value |-> m.value] /\ m.as \in Envelope \cup {"Aad"}
       /\ m.as = "Aad" => m.value.kind \in AadKind
       /\ m.value = [field \in Fields(m) |-> m.value[field]]
       /\ \A field \in Fields(m) : IsValue(field, m.value[field])

Encode(m) == IF m.as = "Aad" THEN EncodeAad(m.value) ELSE EncodeEnvelope(m.as, m.value)

Decode(as, buf) == IF as = "Aad" THEN DecodeAad(AadKind, buf) ELSE DecodeEnvelope(as, buf)

\* What the decoders make of the bytes.
Readings(buf) ==
  {[as |-> as, value |-> Decode(as, buf).value] :
     as \in {x \in Envelope \cup {"Aad"} : Decode(x, buf).ok}}

Damage ==
  /\ edits < MaxEdits
  /\ edits' = edits + 1
  /\ \E i \in 1..Len(bytes) :
       \/ bytes' = RemoveAt(bytes, i)
       \/ \E b \in Byte : \/ bytes' = ReplaceAt(bytes, i, b)
                          \/ bytes' = InsertAt(bytes, i + 1, b)
  /\ UNCHANGED sent

Init ==
  /\ sent \in Messages
  /\ bytes = Encode(sent)
  /\ edits = 0

Spec == Init /\ [][Damage]_vars

(***************************************************************************)
(* Properties.                                                             *)
(***************************************************************************)
\* What arrives as it was encoded is read as what was sent and as nothing
\* else, by the decoder of its type alone.  An envelope around an AAD that is
\* not its own, which encode does not notice, is not read as what it was (a
\* Reader envelope around the AAD of an Enclave has the bytes of an Enclave
\* envelope).
RoundTrip ==
  edits = 0 =>
    IF sent.as = "Aad" \/ BindAad(sent.as, sent.value.aad)
      THEN Readings(bytes) = {sent}
      ELSE \A m \in Readings(bytes) : m.as # sent.as

\* Decoding is strict: whatever the bytes, a value is read from its own
\* encoding only, so that no two byte strings are read as the same value, and
\* the AAD an Enclave rebuilds from the fields it checked is the very one it
\* was sent.  This is so for the AAD in an envelope too.
Canonical ==
  \A m \in Readings(bytes) :
    /\ Encode(m) = bytes
    /\ m.as # "Aad" =>
         EncodeAad(DecodeAad(AadKind, m.value.aad).value) = m.value.aad

\* No byte string has two readings: as two envelopes (those of an Enclave and
\* of a Reader have the same form), as an envelope and an AAD, or as AAD of
\* two kinds.
OneReading ==
  /\ \A m, n \in Readings(bytes) : m = n
  /\ \A j, k \in AadKind :
       DecodeAad({j}, bytes).ok /\ DecodeAad({k}, bytes).ok => j = k
=============================================================================
