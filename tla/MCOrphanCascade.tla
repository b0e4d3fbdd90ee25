--------------------------- MODULE MCOrphanCascade --------------------------
(***************************************************************************)
(* A small chain for the loop of apply_orphan_discard: lineage four levels *)
(* deep, so that a discard at its root needs several passes, and cyclic    *)
(* lineage through a Failed record.                                        *)
(***************************************************************************)
EXTENDS OrphanCascade

CONSTANTS a, d, c, f,             \* Handle Keys
          D1,                     \* Domain Ids
          r1, r3, r4, r6, r7,
          enc                     \* a ciphertext

MCHandleKey     == {a, d, c, f}
\* One chain and one contract: Handle Ids are Handle Keys.
MCHandleIdOf(k) == k
MCDomainId      == {D1}
MCChainEventRef == {r1, r3, r4, r6, r7}
MCCiphertext    == {enc}
\* One discard names one reference, or the two of the chain's ends.
MCOrphanSignals == {{r} : r \in MCChainEventRef} \cup {{r1, r7}}

Import(k, r) ==
  [kind |-> "ImportedHandle", domain_id |-> D1, handle_key |-> k,
   handle_type |-> "Suint256", system_ciphertext |-> enc, event_ref |-> r]
Derive(k, ins, r) ==
  [kind |-> "DerivedHandleOperation", domain_id |-> D1, handle_key |-> k,
   operation_code |-> "Add", output_handle_type |-> "Suint256",
   input_handle_keys |-> ins, event_ref |-> r]

\* A chain a, d, c of three levels, f over its end, and a second event for d
\* that takes c and f as inputs: mined before the first it is recorded as
\* Failed, and c and f then close cycles through it.
MCChainEvents ==
  {Import(a, r1),
   Derive(d, <<a, a>>, r3),
   Derive(c, <<d, d>>, r4),
   Derive(d, <<c, f>>, r6),
   Derive(f, <<c, a>>, r7)}
=============================================================================
