---------------------------- MODULE MCHandleGraph ---------------------------
(***************************************************************************)
(* A small chain for the Handle Graph Core: two Source Handles, a Derived  *)
(* Handle over them and one over that; a second event for the key of a     *)
(* Source and of a Derived Handle (re-mined with other content, one of     *)
(* them closing a lineage cycle); and a Derived Handle of another domain.  *)
(* They are decoded from logs, among which are some that decode to nothing. *)
(***************************************************************************)
EXTENDS ChainLogDecoder, CoordinatorApi, FiniteSets

CONSTANTS chain,                  \* a Chain Id
          symvm, contract,        \* the contract that emits the logs, and one with handles
          a, p, d, c, x,          \* Handle Ids
          D1, D2,                 \* Domain Ids
          r1, r2, r3, r4, r5, r6, r7,
          enc, bytes              \* a ciphertext; bytes that are none

MCHandleKey ==
  [chain_id : {chain}, contract_address : {symvm, contract}, handle_id : {a, p, d, c, x}]
\* One chain: the Handle Id alone.
MCHandleIdOf(k) == k.handle_id
MCDomainId      == {D1, D2}
MCChainEventRef == {r1, r2, r3, r4, r5, r6, r7}
MCCiphertext    == {enc}
\* One discard names at most two references.
MCOrphanSignals == {R \in SUBSET MCChainEventRef : Cardinality(R) <= 2}

Word(address) == [padding |-> 0, address |-> address]

Log(event, dom, k, data, r) ==
  [chain_id |-> chain, contract_address |-> symvm, event_ref |-> r,
   topics |-> <<event, dom, Word(contract), k>>, data |-> data]

ImportData(t, ciphertext) ==
  [abi |-> "HandleImportedV1", handle_type |-> t, system_ciphertext |-> ciphertext]
OperationData(op, t, ins) ==
  [abi |-> "OperationRequestedV1", output_type |-> t, operation |-> op, input_handles |-> ins]

Import(k, t, r) == Log("HandleImportedV1", D1, k, ImportData(t, enc), r)
Plain(k, t, r) ==
  Log("HandleFromPlaintextV1", D1, k,
      [abi |-> "HandleFromPlaintextV1", handle_type |-> t, plaintext |-> enc], r)
Derive(dom, k, op, t, ins, r) ==
  Log("OperationRequestedV1", dom, k, OperationData(op, t, ins), r)

\* The bytes before the address are not zero in the log of the operation on d.
SoundLogs ==
  {Import(a, 1, r1),
   Plain(p, 1, r2),
   Derive(D1, d, 1, 1, <<a, p>>, r3),
   [Derive(D1, c, 2, 1, <<d, a>>, r4) EXCEPT !.topics[3].padding = 1],
   Import(a, 2, r5),
   Derive(D1, d, 1, 1, <<c, a>>, r6),
   Derive(D2, x, 4, 2, <<a, p>>, r7)}

\* An unknown Handle Type, an unknown operation, an import that is no envelope,
\* data of another event, another event's signature, three topics, and none.
UnsoundLogs ==
  {Import(x, 0, r1), Import(x, 3, r1), Derive(D1, x, 0, 1, <<a, p>>, r1),
   Derive(D1, x, 12, 1, <<a, p>>, r1),
   Log("HandleImportedV1", D1, x, ImportData(1, bytes), r1),
   Log("HandleFromPlaintextV1", D1, x, ImportData(1, enc), r1),
   Log("HandleRetired", D1, x, ImportData(1, enc), r1),
   [Import(x, 1, r1) EXCEPT !.topics = <<"HandleImportedV1", D1, Word(contract)>>],
   [Import(x, 1, r1) EXCEPT !.topics = <<>>]}

MCChainLogs == SoundLogs \cup UnsoundLogs
=============================================================================
