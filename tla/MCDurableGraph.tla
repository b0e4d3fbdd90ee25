--------------------------- MODULE MCDurableGraph ---------------------------
(***************************************************************************)
(* A Plaintext Handle, a Derived Handle over it and one over that, and a   *)
(* second event for the Derived Handle's key.  A crash may come anywhere,  *)
(* and the graph be restored for either of two MPC keys.                   *)
(***************************************************************************)
EXTENDS DurableGraph

CONSTANTS a, d, c,                \* Handle Keys
          D1,                     \* a Domain Id
          r1, r2, r3, r4,
          enc                     \* a ciphertext or public value

MCHandleKey     == {a, d, c}
\* One chain and one contract: Handle Ids are Handle Keys.
MCHandleIdOf(k) == k
MCDomainId      == {D1}
MCChainEventRef == {r1, r2, r3, r4}
MCCiphertext    == {enc}
MCOrphanSignals == {{}} \cup {{r} : r \in MCChainEventRef} \cup {{r1, r3}}

Derive(k, op, ins, r) ==
  [kind |-> "DerivedHandleOperation", domain_id |-> D1, handle_key |-> k,
   operation_code |-> op, output_handle_type |-> "Suint256",
   input_handle_keys |-> ins, event_ref |-> r]

MCChainEvents ==
  {[kind |-> "PlaintextHandle", domain_id |-> D1, handle_key |-> a,
    handle_type |-> "Suint256", public_value |-> enc, event_ref |-> r1],
   Derive(d, "Add", <<a, a>>, r2),
   Derive(c, "Sub", <<d, a>>, r3),
   Derive(d, "Sub", <<c, a>>, r4)}
=============================================================================
