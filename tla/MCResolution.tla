----------------------------- MODULE MCResolution ---------------------------
(***************************************************************************)
(* Two Source Handles with different ciphertexts, a comparison of them and *)
(* a selection by its result; one of the sources may be mined again with   *)
(* the other ciphertext.  Any one event may be discarded at any time.      *)
(***************************************************************************)
EXTENDS Resolution

CONSTANTS a, b, d, c,             \* Handle Keys
          D1,                     \* a Domain Id
          r1, r2, r3, r4, r5,
          enc_a, enc_b,           \* ciphertexts
          q                       \* a request

MCHandleKey     == {a, b, d, c}
\* One chain and one contract: Handle Ids are Handle Keys.
MCHandleIdOf(k) == k
MCDomainId      == {D1}
MCChainEventRef == {r1, r2, r3, r4, r5}
MCCiphertext    == {enc_a, enc_b}
MCOrphanSignals == {{r} : r \in MCChainEventRef}

\* The result names all it was computed from.
MCExecute(task) ==
  [key |-> task.output_handle_key, op |-> task.operation_code,
   of |-> task.input_system_ciphertexts]

Import(k, enc, r) ==
  [kind |-> "ImportedHandle", domain_id |-> D1, handle_key |-> k,
   handle_type |-> "Suint256", system_ciphertext |-> enc, event_ref |-> r]
Derive(k, op, out, ins, r) ==
  [kind |-> "DerivedHandleOperation", domain_id |-> D1, handle_key |-> k,
   operation_code |-> op, output_handle_type |-> out,
   input_handle_keys |-> ins, event_ref |-> r]

MCChainEvents ==
  {Import(a, enc_a, r1),
   Import(b, enc_b, r2),
   Derive(d, "Lt", "Sbool", <<a, b>>, r3),
   Derive(c, "Select", "Suint256", <<d, b, b>>, r4),
   Import(a, enc_b, r5)}
=============================================================================
