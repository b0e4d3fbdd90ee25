-------------------------- MODULE MCChainIngestion --------------------------
(***************************************************************************)
(* A chain that forks after its first event.  Both branches mine the same  *)
(* derivation d (with other references); one continues with a derivation   *)
(* over d, the other imports one more handle first.                        *)
(***************************************************************************)
EXTENDS ChainIngestion

CONSTANTS a, b, d, c,             \* Handle Keys
          D1,                     \* a Domain Id
          r1, r2, r3, s2, s3, s4, \* references: r of the one branch, s of the other
          enc                     \* a ciphertext

MCHandleKey     == {a, b, d, c}
\* One chain and one contract: Handle Ids are Handle Keys.
MCHandleIdOf(k) == k
MCDomainId      == {D1}
MCChainEventRef == {r1, r2, r3, s2, s3, s4}
MCCiphertext    == {enc}

Import(k, r) ==
  [kind |-> "ImportedHandle", domain_id |-> D1, handle_key |-> k,
   handle_type |-> "Suint256", system_ciphertext |-> enc, event_ref |-> r]
Derive(k, op, ins, r) ==
  [kind |-> "DerivedHandleOperation", domain_id |-> D1, handle_key |-> k,
   operation_code |-> op, output_handle_type |-> "Suint256",
   input_handle_keys |-> ins, event_ref |-> r]

First == Import(a, r1)
Main  == {First, Derive(d, "Add", <<a, a>>, r2), Derive(c, "Sub", <<d, a>>, r3)}
Side  == {First, Import(b, s2), Derive(d, "Add", <<a, a>>, s3), Derive(c, "Add", <<d, b>>, s4)}

MCChainEvents == Main \cup Side
MCBranch      == {Main, Side}

PositionOf == [x \in {r1} |-> 1] @@ [x \in {r2, s2} |-> 2] @@ [x \in {r3, s3} |-> 3]
                @@ [x \in {s4} |-> 4]
MCLogPosition == [e \in MCChainEvents |-> PositionOf[e.event_ref]]
=============================================================================
