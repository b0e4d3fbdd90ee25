------------------------- MODULE MCCiphertextBinding -------------------------
(***************************************************************************)
(* A byte of seven bits, with all forms of an argument in reach: numbers   *)
(* below 10 in the initial byte, then one to four bytes.  Identifiers are  *)
(* one byte, contracts two.  One AAD of each kind, an envelope around each *)
(* and one around the wrong one; any two changes to any of them, with the  *)
(* bytes that make a header longer, another type, or another length.       *)
(***************************************************************************)
EXTENDS CiphertextBinding

MCWidth == <<1, 2, 3, 4>>

\* Bytes from 100 on never occur in UTF-8.
MCIsUtf8(s) == \A i \in DOMAIN s : s[i] < 100

\* 10 and 74 announce an argument of one byte, for a number and for an array.
MCByte == {0, 10, 74, 100}

Aad(kind, chain_id) ==
  [field \in {"version", "kind"} \cup {EncodedBody(kind)[i] : i \in DOMAIN EncodedBody(kind)} |->
     CASE field = "version"    -> 1
       [] field = "kind"       -> kind
       [] field = "chain_id"   -> chain_id
       [] field = "contract"   -> <<5, 5>>
       [] field = "type_tag"   -> <<7>>
       [] field = "request_id" -> <<3>>
       [] field = "handle_id"  -> <<4>>
       [] OTHER                -> <<6>>]

Enveloped(as, aad) ==
  [as |-> as,
   value |-> [field \in {EncodedEnvelope(as)[i] : i \in DOMAIN EncodedEnvelope(as)} |->
                CASE field = "version" -> 1
                  [] field = "aad"     -> EncodeAad(aad)
                  [] field = "enc"     -> <<>>
                  [] OTHER             -> <<6>>]]

MCMessages ==
  {[as |-> "Aad", value |-> Aad(1, 9)],
   [as |-> "Aad", value |-> Aad(2, 10)],
   [as |-> "Aad", value |-> Aad(3, 300)],
   [as |-> "Aad", value |-> Aad(4, 128 * 128 * 5)],
   [as |-> "Aad", value |-> Aad(1, 128 * 128 * 128)],
   Enveloped("System", Aad(1, 1)),
   Enveloped("System", Aad(2, 1)),
   Enveloped("Enclave", Aad(3, 1)),
   Enveloped("Reader", Aad(4, 1)),
   Enveloped("Reader", Aad(3, 1))}
=============================================================================
