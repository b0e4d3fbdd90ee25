----------------------------- MODULE HandleGraph ----------------------------
(***************************************************************************)
(* The Handle Graph Core (crates/handle-graph-core): the lineage-aware     *)
(* record of every Handle the chain has named.  Chain Events create Handle *)
(* Records, Orphan Discard tombstones the records of discarded events and  *)
(* everything derived from them, and Resolution moves a Pending Derived    *)
(* Handle to Ready or Failed, once.                                        *)
(*                                                                         *)
(* Every operation of the core takes &mut self, so each is one action.     *)
(* Calls that return an error or Idempotent change nothing and are         *)
(* stuttering steps.  The field is_canonical is TRUE in every record the   *)
(* code constructs and is never assigned afterwards: it is left out, and a *)
(* record is canonical here when it is not tombstoned.  A ciphertext is a  *)
(* symbolic value; the Materialization Receipt is stored and dropped       *)
(* together with the ciphertext and is left out.                           *)
(***************************************************************************)
EXTENDS HandleOperations

CONSTANTS
  HandleKey,         \* the Handle Keys
  DomainId,          \* the Domain Ids
  ChainEventRef,     \* the references of Chain Events
  SystemCiphertext,  \* the ciphertexts chain events and Resolution supply
  KeyId,             \* the identifiers of MPC keys
  ChainEvents,       \* the Chain Events that may be ingested
  OrphanSignals,     \* the sets of references one Orphan Discard may be given
  HandleIdOf(_)      \* the chain and the Handle Id of a Handle Key: all of it but
                     \* the contract

(***************************************************************************)
(* The three kinds of Chain Event.                                         *)
(***************************************************************************)
ImportedHandle ==
  [kind : {"ImportedHandle"}, domain_id : DomainId, handle_key : HandleKey,
   handle_type : HandleType, system_ciphertext : SystemCiphertext,
   event_ref : ChainEventRef]

PlaintextHandle ==
  [kind : {"PlaintextHandle"}, domain_id : DomainId, handle_key : HandleKey,
   handle_type : HandleType, public_value : SystemCiphertext,
   event_ref : ChainEventRef]

DerivedHandleOperation ==
  [kind : {"DerivedHandleOperation"}, domain_id : DomainId,
   handle_key : HandleKey, operation_code : OperationCode,
   output_handle_type : HandleType, input_handle_keys : Seq(HandleKey),
   event_ref : ChainEventRef]

ASSUME ChainEventsAssumption ==
  \A e \in ChainEvents : \/ e \in ImportedHandle
                         \/ e \in PlaintextHandle
                         \/ e \in DerivedHandleOperation

ASSUME OrphanSignalsAssumption == OrphanSignals \subseteq SUBSET ChainEventRef

VARIABLES
  records,          \* Handle Key -> Handle Record, for the keys the chain named
  consumed_events,  \* the references of the Chain Events already applied
  plaintext_key_id  \* the key the graph's plaintext_materializer binds

graphVars == <<records, consumed_events, plaintext_key_id>>

(***************************************************************************)
(* Handle States, Handle Lineage and Handle Records.                       *)
(***************************************************************************)
IngestionFailure  == {"WrongArity", "UnknownInputHandle",
                      "WrongInputHandleType", "WrongOutputHandleType"}
ResolutionFailure == {"MpcTransformationFailure", "EnclaveExecutionFailure",
                      "MaterializationFailure"}

Pending     == [tag |-> "Pending"]
Ready(c)    == [tag |-> "Ready", system_ciphertext |-> c]
Failed(why) == [tag |-> "Failed", reason |-> why]

Source           == [tag |-> "Source"]
Derived(op, ins) == [tag |-> "Derived", operation_code |-> op,
                     input_handle_keys |-> ins]

IsDerived(rec) == rec.lineage.tag = "Derived"

\* The Handle Keys a record depends on.
LineageInputs(l) ==
  IF l.tag = "Derived"
    THEN {l.input_handle_keys[i] : i \in DOMAIN l.input_handle_keys}
    ELSE {}

Inputs(rec) == LineageInputs(rec.lineage)

Tombstoned(recs) == {k \in DOMAIN recs : recs[k].is_tombstoned}
Canonical(recs)  == {k \in DOMAIN recs : ~recs[k].is_tombstoned}

\* canonical_handle: what a normal read of the graph sees of a key.
CanonicalReady(recs) == {k \in Canonical(recs) : recs[k].state.tag = "Ready"}

(***************************************************************************)
(* Ingestion.                                                              *)
(***************************************************************************)
InputTypes(recs, e) ==
  [i \in DOMAIN e.input_handle_keys |-> recs[e.input_handle_keys[i]].handle_type]

\* Mutant: an input may be of another domain.
KnownInputOfAnyDomain(recs, e, k) == k \in DOMAIN recs

\* An input is known if the chain named it before in the same domain, whether
\* or not it was tombstoned since.
KnownInput(recs, e, k) == k \in DOMAIN recs /\ recs[k].domain_id = e.domain_id

\* validate_derived: the state a new Derived Handle is recorded with.
DerivedState(recs, e) ==
  LET ins   == e.input_handle_keys
      types == InputTypes(recs, e)
  IN  CASE Len(ins) # ExpectedArity(e.operation_code) ->
             Failed("WrongArity")
        [] /\ Len(ins) = ExpectedArity(e.operation_code)
           /\ \E i \in DOMAIN ins : ~KnownInput(recs, e, ins[i]) ->
             Failed("UnknownInputHandle")
        [] OTHER ->
             IF ~InputTypesOK(e.operation_code, types)
               THEN Failed("WrongInputHandleType")
               ELSE IF ~OutputTypeOK(e.operation_code, types, e.output_handle_type)
                      THEN Failed("WrongOutputHandleType")
                      ELSE Pending

\* The envelope PlaintextMaterializer::materialize builds from public facts:
\* bound to the handle's chain, domain, Handle Id and type and to the active MPC
\* key, and hiding the public value.  The contract is not part of it (build_aad).
MaterializedPlaintext(e) ==
  [domain_id |-> e.domain_id, handle_id |-> HandleIdOf(e.handle_key),
   handle_type |-> e.handle_type, key_id |-> plaintext_key_id,
   value |-> e.public_value]

\* The record apply_imported, apply_plaintext and apply_derived insert.
NewRecord(recs, e) ==
  [domain_id     |-> e.domain_id,
   handle_type   |-> IF e.kind = "DerivedHandleOperation"
                       THEN e.output_handle_type ELSE e.handle_type,
   state         |-> CASE e.kind = "ImportedHandle" ->
                            Ready(e.system_ciphertext)
                       [] e.kind = "PlaintextHandle" ->
                            Ready(MaterializedPlaintext(e))
                       [] e.kind = "DerivedHandleOperation" ->
                            DerivedState(recs, e),
   event_ref     |-> e.event_ref,
   lineage       |-> IF e.kind = "DerivedHandleOperation"
                       THEN Derived(e.operation_code, e.input_handle_keys)
                       ELSE Source,
   is_tombstoned |-> FALSE]

\* The record map with key k bound to rec.
Put(recs, k, rec) ==
  [j \in DOMAIN recs \cup {k} |-> IF j = k THEN rec ELSE recs[j]]

\* Mutant: the last record of a key wins.
RecordsAfterLastWins(recs, e) == Put(recs, e.handle_key, NewRecord(recs, e))

\* Mutant: a tombstoned record makes room for a new one.
RecordsAfterTombstone(recs, e) ==
  IF e.handle_key \in Canonical(recs) THEN recs ELSE Put(recs, e.handle_key, NewRecord(recs, e))

\* Mutant: a Derived Handle that fails validation is not recorded.
RecordsAfterValid(recs, e) ==
  IF e.handle_key \in DOMAIN recs \/ NewRecord(recs, e).state.tag = "Failed"
    THEN recs ELSE Put(recs, e.handle_key, NewRecord(recs, e))

\* duplicate_rejection: the first record of a key wins, even a tombstoned one.
RecordsAfter(recs, e) ==
  IF e.handle_key \in DOMAIN recs
    THEN recs
    ELSE Put(recs, e.handle_key, NewRecord(recs, e))

\* apply_chain_event, for an event not consumed before.
ApplyChainEvent(e) ==
  /\ e.event_ref \notin consumed_events
  /\ consumed_events' = consumed_events \cup {e.event_ref}
  /\ records' = RecordsAfter(records, e)
  /\ UNCHANGED plaintext_key_id

(***************************************************************************)
(* Orphan Discard.  The loop of apply_orphan_discard tombstones dependents *)
(* of tombstoned records until no record is left to tombstone: its result  *)
(* is the least set of keys that contains the tombstones it started from   *)
(* and is closed under lineage (module OrphanCascade models the loop).     *)
(***************************************************************************)
\* Mutant: the inputs of a discarded record are discarded with it.
DependentsBothWays(recs, T) ==
  {k \in DOMAIN recs : \/ Inputs(recs[k]) \cap T # {}
                       \/ \E t \in T \cap DOMAIN recs : k \in Inputs(recs[t])}

\* Keys of a record with an input in T (depends_on_tombstoned_input).
Dependents(recs, T) == {k \in DOMAIN recs : Inputs(recs[k]) \cap T # {}}

CascadeClosed(recs, T) == Dependents(recs, T) \subseteq T

\* Mutant: the dependents of dependents are forgotten.
CascadeOnce(recs, T) == T \cup Dependents(recs, T)

Cascade(recs, T) ==
  {k \in DOMAIN recs :
     \A S \in SUBSET DOMAIN recs : T \subseteq S /\ CascadeClosed(recs, S) => k \in S}

\* The tombstones apply_orphan_discard starts its cascade from.
DirectlyTombstoned(recs, refs) ==
  {k \in Canonical(recs) : recs[k].event_ref \in refs}

\* Mutant: the cascade starts from the records tombstoned just now.
TombstonesAfterFresh(recs, refs) ==
  Tombstoned(recs) \cup Cascade(recs, DirectlyTombstoned(recs, refs))

TombstonesAfter(recs, refs) ==
  Cascade(recs, Tombstoned(recs) \cup DirectlyTombstoned(recs, refs))

\* mark_tombstoned
MarkTombstoned(recs, T) ==
  [k \in DOMAIN recs |->
     IF k \in T THEN [recs[k] EXCEPT !.is_tombstoned = TRUE] ELSE recs[k]]

Discarded(recs, refs) ==
  LET T == TombstonesAfter(recs, refs) IN MarkTombstoned(recs, T)

ApplyOrphanDiscard(refs) ==
  /\ records' = Discarded(records, refs)
  /\ UNCHANGED <<consumed_events, plaintext_key_id>>

(***************************************************************************)
(* Resolution results.  Both transitions accept only a canonical Pending   *)
(* Derived Handle; anything else is a typed error that changes nothing.    *)
(***************************************************************************)
\* Mutant: the checks of lineage and state are dropped.
ResolvableUnchecked(recs, k) == k \in DOMAIN recs /\ ~recs[k].is_tombstoned

Resolvable(recs, k) ==
  /\ k \in DOMAIN recs
  /\ ~recs[k].is_tombstoned
  /\ IsDerived(recs[k])
  /\ recs[k].state = Pending

WithState(recs, k, s) == [recs EXCEPT ![k] = [@ EXCEPT !.state = s]]

MaterializeDerivedHandle(k, c) ==
  /\ Resolvable(records, k)
  /\ records' = WithState(records, k, Ready(c))
  /\ UNCHANGED <<consumed_events, plaintext_key_id>>

FailDerivedHandle(k, why) ==
  /\ Resolvable(records, k)
  /\ records' = WithState(records, k, Failed(why))
  /\ UNCHANGED <<consumed_events, plaintext_key_id>>

(***************************************************************************)
(* Resolution Readiness: the canonical Pending Derived Handles whose       *)
(* inputs are all canonical and Ready (readiness_for).                     *)
(***************************************************************************)
ReadyToResolve(recs) ==
  {k \in DOMAIN recs : Resolvable(recs, k) /\ Inputs(recs[k]) \subseteq CanonicalReady(recs)}

\* The inputs' ciphertexts, in the order of the operation's inputs.
InputCiphertexts(recs, ins) == [i \in DOMAIN ins |-> recs[ins[i]].state.system_ciphertext]

(***************************************************************************)
(* The specification of the core alone, whatever its callers do.           *)
(***************************************************************************)
\* HandleGraphCore::with_plaintext_materializer: no records, nothing consumed.
GraphInit ==
  /\ records = [k \in {} |-> k]
  /\ consumed_events = {}
  /\ plaintext_key_id \in KeyId

GraphNext ==
  \/ \E e \in ChainEvents : ApplyChainEvent(e)
  \/ \E refs \in OrphanSignals : ApplyOrphanDiscard(refs)
  \/ \E k \in HandleKey, c \in SystemCiphertext : MaterializeDerivedHandle(k, c)
  \/ \E k \in HandleKey, why \in ResolutionFailure : FailDerivedHandle(k, why)

GraphSpec == GraphInit /\ [][GraphNext]_graphVars

(***************************************************************************)
(* Type invariant.                                                         *)
(***************************************************************************)
IsHandleState(s) ==
  \/ s = Pending
  \/ s.tag = "Ready" /\ s = Ready(s.system_ciphertext)
  \/ \E why \in IngestionFailure \cup ResolutionFailure : s = Failed(why)

IsLineage(l) ==
  \/ l = Source
  \/ /\ l.tag = "Derived"
     /\ l = Derived(l.operation_code, l.input_handle_keys)
     /\ l.operation_code \in OperationCode
     /\ l.input_handle_keys \in Seq(HandleKey)

IsHandleRecord(rec) ==
  /\ rec = [domain_id |-> rec.domain_id, handle_type |-> rec.handle_type,
            state |-> rec.state, event_ref |-> rec.event_ref,
            lineage |-> rec.lineage, is_tombstoned |-> rec.is_tombstoned]
  /\ rec.domain_id \in DomainId
  /\ rec.handle_type \in HandleType
  /\ IsHandleState(rec.state)
  /\ rec.event_ref \in ChainEventRef
  /\ IsLineage(rec.lineage)
  /\ rec.is_tombstoned \in BOOLEAN
  \* Source Handles are Ready from the start.
  /\ ~IsDerived(rec) => rec.state.tag = "Ready"

\* Every record is a well-formed Handle Record, consumed_events a set of
\* references, and the materializer's key one of the keys.
TypeOK ==
  /\ DOMAIN records \subseteq HandleKey
  /\ \A k \in DOMAIN records : IsHandleRecord(records[k])
  /\ consumed_events \subseteq ChainEventRef
  /\ plaintext_key_id \in KeyId

(***************************************************************************)
(* Safety.                                                                 *)
(***************************************************************************)
\* A Derived Handle that passed validation at ingestion.
Accepted(rec) ==
  /\ IsDerived(rec)
  /\ rec.state.tag = "Failed" => rec.state.reason \in ResolutionFailure

\* The lineage of rec satisfies the rules validate_derived checks.
ValidRecord(recs, rec) ==
  LET ins   == rec.lineage.input_handle_keys
      types == [i \in DOMAIN ins |-> recs[ins[i]].handle_type]
  IN  /\ Len(ins) = ExpectedArity(rec.lineage.operation_code)
      /\ \A i \in DOMAIN ins : /\ ins[i] \in DOMAIN recs
                               /\ recs[ins[i]].domain_id = rec.domain_id
      /\ InputTypesOK(rec.lineage.operation_code, types)
      /\ OutputTypeOK(rec.lineage.operation_code, types, rec.handle_type)

\* A Derived Handle that passed validation goes on satisfying it: its inputs
\* stay bound, in its domain and of the types the operation requires, however
\* many events, duplicates and discards follow.  (validate_derived checks
\* once; nothing rebinds or removes a record afterwards.)
ValidLineage ==
  \A k \in DOMAIN records :
    Accepted(records[k]) => ValidRecord(records, records[k])

\* The lineage of accepted Derived Handles is well founded: no set of them
\* waits for itself.  A cycle would leave its members Pending for ever.
AcyclicLineage ==
  \A S \in SUBSET {k \in DOMAIN records : Accepted(records[k])} :
    S # {} => \E k \in S : Inputs(records[k]) \cap S = {}

\* Nothing consumed is lost and nothing is recorded without being consumed:
\* the event of every record is consumed, and the key a consumed event named
\* is bound.
ConsumedAccounted ==
  /\ \A k \in DOMAIN records : records[k].event_ref \in consumed_events
  /\ \A e \in ChainEvents : e.event_ref \in consumed_events =>
       \E f \in ChainEvents : /\ f.event_ref = e.event_ref
                              /\ f.handle_key \in DOMAIN records

\* What may become of a record: only its state and its tombstone change; a
\* tombstoned record changes no more at all; the state changes only for a
\* Pending Derived Handle, to a result of Resolution.
RecordKept(old, new) ==
  /\ new = [old EXCEPT !.state = new.state, !.is_tombstoned = new.is_tombstoned]
  /\ old.is_tombstoned => new = old
  /\ new.state # old.state =>
       /\ old.state = Pending
       /\ IsDerived(old)
       /\ \/ new.state.tag = "Ready"
          \/ \E why \in ResolutionFailure : new.state = Failed(why)

\* The first record of a key is kept for good: no event, discard or result
\* removes it, rebinds it, clears its tombstone or moves it out of Ready or
\* Failed.
RecordLifecycle ==
  [][\A k \in DOMAIN records :
       k \in DOMAIN records' /\ RecordKept(records[k], records'[k])]_graphVars

\* A step that tombstones anything leaves no canonical record behind that
\* depends on a tombstoned one: Orphan Discard cascades completely.
DiscardCascades ==
  [][(\E k \in DOMAIN records : records'[k] # records[k] /\ records'[k].is_tombstoned)
       => CascadeClosed(records', Tombstoned(records'))]_graphVars

\* In every reachable graph an Orphan Discard would tombstone a record only for
\* a reason: its own event is discarded, or it can be followed through
\* tombstoned inputs to a record that was tombstoned before or whose event is.
\* (No set of newly tombstoned records supports only itself, not even one on a
\* cycle of Failed Derived Handles.)
DiscardIsGrounded ==
  \A refs \in OrphanSignals :
    LET after == TombstonesAfter(records, refs)
        fresh == after \ (Tombstoned(records) \cup DirectlyTombstoned(records, refs))
    IN  \A S \in SUBSET fresh :
          S # {} => \E k \in S : Inputs(records[k]) \cap (after \ S) # {}
=============================================================================
