-------------------------- MODULE DurableGraph_proofs -----------------------
(***************************************************************************)
(* What crashes leave in the store, for any chain, any operations and a    *)
(* crash between any two writes.  The argument: the graph in memory is     *)
(* always the store carried forward by the writes that are still owed, and *)
(* a record that is new is written alone, before anything can name it.     *)
(***************************************************************************)
EXTENDS DurableGraph, HandleGraph_proofs

(***************************************************************************)
(* The inductive invariant.                                                *)
(***************************************************************************)
PendingRecords == pending_direct \cup pending_cascade

\* What is owed is of the graph in memory.
OwedTypeOK ==
  /\ TypeOK
  /\ DOMAIN durable_records \subseteq HandleKey
  /\ \A k \in DOMAIN durable_records : IsHandleRecord(durable_records[k])
  /\ durable_consumed \subseteq ChainEventRef
  /\ PendingRecords \subseteq DOMAIN records
  /\ pending_event \subseteq consumed_events

\* Each stored record is one the graph in memory has, perhaps further on.
MemoryIsAhead ==
  \A k \in DOMAIN durable_records :
    k \in DOMAIN records /\ RecordKept(durable_records[k], records[k])

\* A record the store does not have is the only one that is owed.
NewIsAlone ==
  \A k \in DOMAIN records \ DOMAIN durable_records :
    pending_direct = {k} /\ pending_cascade = {}

\* The inputs of an accepted record were stored before it.
InputsStored ==
  \A k \in DOMAIN durable_records :
    Accepted(records[k]) => Inputs(records[k]) \subseteq DOMAIN durable_records

\* The key of a consumed event is bound: in memory and in the store.
ConsumedBound ==
  \A e \in ChainEvents : e.event_ref \in consumed_events => e.handle_key \in DOMAIN records

\* If tombstones are owed, nothing else is, and the cascade is complete.
TombstonesOwed ==
  DiscardWriting => /\ \A k \in PendingRecords : records[k].is_tombstoned
                    /\ CascadeClosed(records, Tombstoned(records))

DurableInv ==
  /\ OwedTypeOK
  /\ StoreMirrors
  /\ MemoryIsAhead
  /\ NewIsAlone
  /\ ValidLineage
  /\ AcyclicLineage
  /\ InputsStored
  /\ ConsumedBound
  /\ ConsumedIsBound
  /\ TombstonesOwed

(***************************************************************************)
(* The operators of the store's graph are those of the graph in memory.    *)
(***************************************************************************)
LEMMA StoreOperators ==
  /\ \A rec : Durable!IsHandleRecord(rec) <=> IsHandleRecord(rec)
  /\ \A old, new : Durable!RecordKept(old, new) <=> RecordKept(old, new)
  /\ \A rec : Durable!Accepted(rec) <=> Accepted(rec)
  /\ \A rec : Durable!Inputs(rec) = Inputs(rec)
  /\ \A recs, rec : Durable!ValidRecord(recs, rec) <=> ValidRecord(recs, rec)
<1>1. \A rec : Durable!IsHandleRecord(rec) <=> IsHandleRecord(rec)
  BY DEF Durable!IsHandleRecord, IsHandleRecord, Durable!IsHandleState, IsHandleState,
         Durable!IsLineage, IsLineage, Durable!IsDerived, IsDerived, Durable!Pending, Pending,
         Durable!Ready, Ready, Durable!Failed, Failed, Durable!Source, Source,
         Durable!Derived, Derived, Durable!IngestionFailure, IngestionFailure,
         Durable!ResolutionFailure, ResolutionFailure, Durable!HandleType, HandleType,
         Durable!OperationCode, OperationCode, Durable!Arithmetic, Arithmetic,
         Durable!Comparison, Comparison, Durable!Logical, Logical
<1>2. \A old, new : Durable!RecordKept(old, new) <=> RecordKept(old, new)
  BY DEF Durable!RecordKept, RecordKept, Durable!IsDerived, IsDerived, Durable!Pending,
         Pending, Durable!Failed, Failed, Durable!ResolutionFailure, ResolutionFailure
<1>3. \A rec : Durable!Accepted(rec) <=> Accepted(rec)
  BY DEF Durable!Accepted, Accepted, Durable!IsDerived, IsDerived,
         Durable!ResolutionFailure, ResolutionFailure
<1>4. \A rec : Durable!Inputs(rec) = Inputs(rec)
  BY DEF Durable!Inputs, Inputs, Durable!LineageInputs, LineageInputs
<1>5. \A recs, rec : Durable!ValidRecord(recs, rec) <=> ValidRecord(recs, rec)
  <2>1. \A op : Durable!ExpectedArity(op) = ExpectedArity(op)
    BY DEF Durable!ExpectedArity, ExpectedArity
  <2>2. \A op, ts : Durable!InputTypesOK(op, ts) <=> InputTypesOK(op, ts)
    BY DEF Durable!InputTypesOK, InputTypesOK, Durable!RequiredInput, RequiredInput,
           Durable!Arithmetic, Arithmetic, Durable!Comparison, Comparison,
           Durable!Logical, Logical
  <2>3. \A op, ts, out : Durable!OutputTypeOK(op, ts, out) <=> OutputTypeOK(op, ts, out)
    BY DEF Durable!OutputTypeOK, OutputTypeOK, Durable!RequiredOutput, RequiredOutput,
           Durable!Arithmetic, Arithmetic, Durable!Comparison, Comparison,
           Durable!Logical, Logical
  <2>. QED
    BY <2>1, <2>2, <2>3 DEF Durable!ValidRecord, ValidRecord
<1>. QED
  BY <1>1, <1>2, <1>3, <1>4, <1>5

LEMMA StoreTypeOK == OwedTypeOK => Durable!TypeOK
BY StoreOperators DEF OwedTypeOK, TypeOK, Durable!TypeOK

\* A kept record is accepted exactly if it was.
LEMMA KeptAccepted ==
  ASSUME NEW old, NEW new, IsHandleRecord(old), RecordKept(old, new)
  PROVE  Accepted(new) <=> Accepted(old)
<1>1. IsDerived(new) <=> IsDerived(old)
  BY KeptFields
<1>2. CASE new.state = old.state
  BY <1>1, <1>2 DEF Accepted
<1>3. CASE new.state # old.state
  <2>1. /\ old.state = Pending
        /\ \/ new.state.tag = "Ready"
           \/ \E why \in ResolutionFailure : new.state = Failed(why)
    BY <1>3 DEF RecordKept
  <2>2. new.state.tag = "Failed" => new.state.reason \in ResolutionFailure
    <3>1. \A why : Failed(why).tag = "Failed" /\ Failed(why).reason = why
      BY DEF Failed
    <3>. QED
      BY <2>1, <3>1, Zenon
  <2>3. old.state.tag # "Failed"
    BY <2>1 DEF Pending
  <2>. QED
    BY <1>1, <2>2, <2>3 DEF Accepted
<1>. QED
  BY <1>2, <1>3

(***************************************************************************)
(* The lineage of the store is the lineage of the graph in memory, cut     *)
(* down to a part that contains the inputs of what it contains.            *)
(***************************************************************************)
LEMMA StoreLineage == DurableInv => DurableLineage
<1> SUFFICES ASSUME DurableInv PROVE DurableLineage
  OBVIOUS
<1>1. ASSUME NEW k \in DOMAIN durable_records
      PROVE  /\ k \in DOMAIN records
             /\ IsHandleRecord(durable_records[k])
             /\ RecordKept(durable_records[k], records[k])
             /\ Accepted(records[k]) <=> Accepted(durable_records[k])
             /\ records[k].lineage = durable_records[k].lineage
             /\ records[k].handle_type = durable_records[k].handle_type
             /\ records[k].domain_id = durable_records[k].domain_id
             /\ Inputs(records[k]) = Inputs(durable_records[k])
  BY KeptFields, KeptAccepted DEF DurableInv, OwedTypeOK, MemoryIsAhead
<1>2. ASSUME NEW k \in DOMAIN durable_records, Accepted(durable_records[k])
      PROVE  ValidRecord(durable_records, durable_records[k])
  <2> DEFINE ins == durable_records[k].lineage.input_handle_keys
  <2>1. ValidRecord(records, records[k])
    BY <1>1, <1>2 DEF DurableInv, ValidLineage
  <2>2. \A i \in DOMAIN ins : ins[i] \in DOMAIN durable_records
    <3>1. Inputs(durable_records[k]) \subseteq DOMAIN durable_records
      BY <1>1, <1>2 DEF DurableInv, InputsStored
    <3>2. durable_records[k].lineage.tag = "Derived"
      BY <1>2 DEF Accepted, IsDerived
    <3>. QED
      BY <3>1, <3>2 DEF Inputs, LineageInputs
  <2>3. [i \in DOMAIN ins |-> durable_records[ins[i]].handle_type] =
          [i \in DOMAIN ins |-> records[ins[i]].handle_type]
    BY <1>1, <2>2
  <2>4. \A i \in DOMAIN ins :
          durable_records[ins[i]].domain_id = records[ins[i]].domain_id
    BY <1>1, <2>2
  <2>5. /\ Len(ins) = ExpectedArity(durable_records[k].lineage.operation_code)
        /\ \A i \in DOMAIN ins : records[ins[i]].domain_id = durable_records[k].domain_id
        /\ InputTypesOK(durable_records[k].lineage.operation_code,
                        [i \in DOMAIN ins |-> records[ins[i]].handle_type])
        /\ OutputTypeOK(durable_records[k].lineage.operation_code,
                        [i \in DOMAIN ins |-> records[ins[i]].handle_type],
                        durable_records[k].handle_type)
    BY <1>1, <2>1 DEF ValidRecord
  <2>. QED
    BY <2>2, <2>3, <2>4, <2>5 DEF ValidRecord
<1>3. ASSUME NEW S \in SUBSET {k \in DOMAIN durable_records : Accepted(durable_records[k])},
             S # {}
      PROVE  \E k \in S : Inputs(durable_records[k]) \cap S = {}
  <2>1. S \subseteq {k \in DOMAIN records : Accepted(records[k])}
    BY <1>1
  <2>2. PICK k \in S : Inputs(records[k]) \cap S = {}
    BY <1>3, <2>1 DEF DurableInv, AcyclicLineage
  <2>. QED
    BY <1>1, <2>2
<1>4. Durable!ValidLineage
  BY <1>2, StoreOperators DEF Durable!ValidLineage
<1>5. Durable!AcyclicLineage
  BY <1>3, StoreOperators DEF Durable!AcyclicLineage
<1>. QED
  BY <1>4, <1>5 DEF DurableLineage

(***************************************************************************)
(* Operations.  Each changes only the graph in memory, and owes the store  *)
(* what it changed.                                                        *)
(***************************************************************************)
\* What an operation owes, in one formula.
OwesItsChanges ==
  /\ \A k \in DOMAIN records :
       k \notin PendingRecords' => records'[k] = records[k]
  /\ \A k \in DOMAIN records' \ DOMAIN records :
       pending_direct' = {k} /\ pending_cascade' = {}
  /\ PendingRecords' \subseteq DOMAIN records'
  /\ consumed_events' = consumed_events \cup pending_event'
  /\ \A e \in ChainEvents :
       e.event_ref \in pending_event' => e.handle_key \in DOMAIN records'

LEMMA IngestOwes ==
  ASSUME DurableInv, NEW e \in ChainEvents, IngestWithPersistence(e)
  PROVE  /\ TypeOK' /\ RecordsKept /\ OneNewRecord
         /\ OwesItsChanges
         /\ TombstonesOwed'
<1>1. TypeOK /\ Idle /\ ApplyChainEvent(e)
  BY DEF DurableInv, OwedTypeOK, IngestWithPersistence
<1>2. TypeOK' /\ RecordsKept /\ OneNewRecord
  BY <1>1, IngestKeepsType, IngestStep
<1>3. /\ DOMAIN records' = DOMAIN records \cup {e.handle_key}
      /\ \A k \in DOMAIN records : records'[k] = records[k]
      /\ e.handle_key \notin DOMAIN records =>
           records'[e.handle_key] = NewRecord(records, e)
  BY <1>1, RecordsAfterFacts DEF ApplyChainEvent
<1>4. /\ pending_direct' = {e.handle_key} \ DOMAIN records
      /\ pending_cascade' = {}
      /\ pending_event' = {e.event_ref}
      /\ consumed_events' = consumed_events \cup {e.event_ref}
  BY <1>1 DEF IngestWithPersistence, RecordToPut, Idle, ApplyChainEvent
<1>5. OwesItsChanges
  <2>1. \A f \in ChainEvents :
          f.event_ref \in pending_event' => f.handle_key \in DOMAIN records'
    BY <1>3, <1>4, EventRefsAssumption
  <2>. QED
    BY <1>3, <1>4, <2>1 DEF OwesItsChanges, PendingRecords
<1>6. ~DiscardWriting'
  <2>1. NewRecord(records, e).is_tombstoned = FALSE
    BY NewRecordFacts
  <2>2. \A k \in PendingRecords' : ~records'[k].is_tombstoned
    BY <1>3, <1>4, <2>1 DEF PendingRecords
  <2>. QED
    BY <2>2 DEF DiscardWriting, PendingRecords
<1>. QED
  BY <1>2, <1>5, <1>6 DEF TombstonesOwed

\* A discard owes the records it flipped.
LEMMA DiscardOwes ==
  ASSUME DurableInv, NEW refs, DiscardWithPersistence(refs)
  PROVE  /\ TypeOK' /\ RecordsKept /\ OneNewRecord
         /\ OwesItsChanges
         /\ TombstonesOwed'
<1>1. TypeOK /\ Idle /\ ApplyOrphanDiscard(refs)
  BY DEF DurableInv, OwedTypeOK, DiscardWithPersistence
<1>2. TypeOK' /\ RecordsKept /\ OneNewRecord
  BY <1>1, DiscardKeepsType, DiscardStep DEF OneNewRecord
<1> DEFINE after == TombstonesAfter(records, refs)
<1>3. /\ DOMAIN records' = DOMAIN records
      /\ Tombstoned(records') = after
      /\ CascadeClosed(records', Tombstoned(records'))
      /\ \A k \in DOMAIN records :
           /\ records'[k] = [records[k] EXCEPT !.is_tombstoned = records'[k].is_tombstoned]
           /\ records'[k].is_tombstoned \in BOOLEAN
           /\ records[k].is_tombstoned => records'[k] = records[k]
  BY <1>1, DiscardedFacts DEF ApplyOrphanDiscard, TypeOK
<1>4. DirectlyTombstoned(records, refs) \subseteq after
  <2>1. Tombstoned(records) \cup DirectlyTombstoned(records, refs) \in SUBSET DOMAIN records
    BY DEF Tombstoned, DirectlyTombstoned, Canonical
  <2>. QED
    BY <2>1, CascadeIsLeastClosed DEF TombstonesAfter
<1> HIDE DEF after
<1>5. /\ pending_direct' = DirectlyTombstoned(records, refs)
      /\ pending_cascade' =
           (after \ Tombstoned(records)) \ DirectlyTombstoned(records, refs)
      /\ pending_event' = {}
      /\ consumed_events' = consumed_events
  BY <1>1 DEF DiscardWithPersistence, CascadeToPut, Flipped, Idle, ApplyOrphanDiscard, after
<1>6. PendingRecords' \subseteq after
  BY <1>4, <1>5 DEF PendingRecords
<1>7. after \subseteq DOMAIN records
  BY <1>3 DEF Tombstoned
<1>8. ASSUME NEW k \in DOMAIN records, k \notin PendingRecords'
      PROVE  records'[k] = records[k]
  <2>1. IsHandleRecord(records[k])
    BY <1>1 DEF TypeOK
  <2>2. CASE records[k].is_tombstoned
    BY <1>3, <2>2
  <2>3. CASE ~records[k].is_tombstoned
    <3>1. k \notin after
      BY <1>5, <1>8, <2>3 DEF PendingRecords, Tombstoned
    <3>2. records'[k].is_tombstoned = records[k].is_tombstoned
      BY <1>3, <2>1, <2>3, <3>1 DEF Tombstoned, IsHandleRecord
    <3>3. records'[k] = [records[k] EXCEPT !.is_tombstoned = records[k].is_tombstoned]
      BY <1>3, <3>2
    <3>. QED
      BY <2>1, <3>3 DEF IsHandleRecord
  <2>. QED
    BY <2>2, <2>3
<1>9. OwesItsChanges
  BY <1>3, <1>5, <1>6, <1>7, <1>8 DEF OwesItsChanges
<1>10. \A k \in PendingRecords' : records'[k].is_tombstoned
  BY <1>3, <1>6 DEF Tombstoned
<1>. QED
  BY <1>2, <1>3, <1>9, <1>10 DEF TombstonesOwed

\* A result owes the record it settled.
LEMMA ResultOwes ==
  ASSUME DurableInv, NEW k, ResultWithPersistence(k)
  PROVE  /\ TypeOK' /\ RecordsKept /\ OneNewRecord
         /\ OwesItsChanges
         /\ TombstonesOwed'
<1>1. TypeOK /\ Idle
  BY DEF DurableInv, OwedTypeOK, ResultWithPersistence
<1>2. PICK s : /\ IsHandleState(s)
               /\ \/ s.tag = "Ready"
                  \/ \E why \in ResolutionFailure : s = Failed(why)
               /\ Resolvable(records, k)
               /\ records' = WithState(records, k, s)
               /\ UNCHANGED <<consumed_events, plaintext_key_id>>
  <2>1. \A c : Ready(c).tag = "Ready"
    BY DEF Ready
  <2>. QED
    BY <2>1, ResolutionStates
       DEF ResultWithPersistence, MaterializeDerivedHandle, FailDerivedHandle
<1>3. RecordsKept /\ DOMAIN records' = DOMAIN records
  BY <1>1, <1>2, ResultStep
<1>4. k \in DOMAIN records /\ IsHandleRecord(records[k]) /\ ~records[k].is_tombstoned
  BY <1>1, <1>2 DEF Resolvable, TypeOK
<1>5. records'[k].is_tombstoned = records[k].is_tombstoned
  <2>1. records'[k] = [records[k] EXCEPT !.state = s]
    BY <1>2, <1>4 DEF WithState
  <2>. QED
    BY <1>4, <2>1 DEF IsHandleRecord
<1>6. TypeOK'
  BY <1>1, MaterializeKeepsType, FailKeepsType DEF ResultWithPersistence
<1>7. /\ pending_direct' = {k}
      /\ pending_cascade' = {}
      /\ pending_event' = {}
      /\ consumed_events' = consumed_events
  BY <1>1, <1>2 DEF ResultWithPersistence, Idle
<1>8. OwesItsChanges
  BY <1>2, <1>3, <1>4, <1>7 DEF OwesItsChanges, PendingRecords, WithState
<1>9. ~DiscardWriting'
  BY <1>4, <1>5, <1>7 DEF DiscardWriting
<1>. QED
  BY <1>3, <1>6, <1>8, <1>9 DEF OneNewRecord, TombstonesOwed

\* An operation starts from a store that holds the whole graph, so that what
\* it owes afterwards is what it changed.
LEMMA OperationKeepsInv ==
  ASSUME DurableInv, Idle, UNCHANGED storeVars,
         TypeOK', RecordsKept, OneNewRecord, OwesItsChanges, TombstonesOwed'
  PROVE  DurableInv'
<1>1. /\ DOMAIN records \subseteq HandleKey
      /\ DOMAIN durable_records = DOMAIN records
      /\ \A k \in DOMAIN records : durable_records[k] = records[k]
      /\ durable_consumed = consumed_events
  BY DEF Idle, DurableInv, OwedTypeOK, StoreMirrors, TypeOK
<1>2. durable_records' = durable_records /\ durable_consumed' = durable_consumed
  BY DEF storeVars
<1>3. DOMAIN records \subseteq DOMAIN records'
  BY DEF RecordsKept
<1>4. OwedTypeOK'
  <2>1. pending_event' \subseteq consumed_events'
    BY DEF OwesItsChanges
  <2>. QED
    BY <1>2, <2>1 DEF OwedTypeOK, OwesItsChanges, DurableInv
<1>5. StoreMirrors'
  <2>1. durable_consumed' \cup pending_event' = consumed_events'
    BY <1>1, <1>2 DEF OwesItsChanges
  <2>2. ASSUME NEW k \in HandleKey, k \notin PendingRecords'
        PROVE  /\ k \in DOMAIN records' <=> k \in DOMAIN durable_records'
               /\ k \in DOMAIN records' => durable_records'[k] = records'[k]
    <3>1. k \in DOMAIN records' => k \in DOMAIN records
      BY <2>2 DEF OwesItsChanges, PendingRecords
    <3>. QED
      BY <1>1, <1>2, <1>3, <2>2, <3>1 DEF OwesItsChanges
  <2>. QED
    BY <2>1, <2>2 DEF StoreMirrors, PendingRecords
<1>6. MemoryIsAhead'
  BY <1>1, <1>2 DEF MemoryIsAhead, RecordsKept
<1>7. NewIsAlone'
  BY <1>1, <1>2 DEF NewIsAlone, OwesItsChanges
<1>8. ValidLineage' /\ AcyclicLineage'
  BY LineageStep, AcyclicStep DEF DurableInv, OwedTypeOK
<1>9. InputsStored'
  <2>1. ASSUME NEW k \in DOMAIN records, Accepted(records'[k])
        PROVE  Inputs(records'[k]) \subseteq DOMAIN records
    <3>1. IsHandleRecord(records[k]) /\ RecordKept(records[k], records'[k])
      BY DEF DurableInv, OwedTypeOK, TypeOK, RecordsKept
    <3>2. Accepted(records[k]) /\ Inputs(records'[k]) = Inputs(records[k])
      BY <2>1, <3>1, KeptFields
    <3>. QED
      BY <1>1, <3>2 DEF DurableInv, InputsStored
  <2>. QED
    BY <1>1, <1>2, <2>1 DEF InputsStored
<1>10. ConsumedBound'
  BY <1>3 DEF ConsumedBound, DurableInv, OwesItsChanges
<1>11. ConsumedIsBound'
  BY <1>2 DEF ConsumedIsBound, DurableInv
<1>. QED
  BY <1>4, <1>5, <1>6, <1>7, <1>8, <1>9, <1>10, <1>11 DEF DurableInv

(***************************************************************************)
(* Writes.                                                                 *)
(***************************************************************************)
\* A write brings one record of the store up to the graph in memory.
LEMMA PutFacts ==
  ASSUME DurableInv, NEW k, PutHandleRecord(k)
  PROVE  /\ k \in PendingRecords
         /\ k \in DOMAIN records
         /\ DOMAIN durable_records' = DOMAIN durable_records \cup {k}
         /\ durable_records'[k] = records[k]
         /\ \A j \in DOMAIN durable_records :
              j # k => durable_records'[j] = durable_records[j]
         /\ pending_direct' = pending_direct \ {k}
         /\ pending_cascade' = pending_cascade \ {k}
         /\ PendingRecords' = PendingRecords \ {k}
         /\ UNCHANGED <<graphVars, durable_consumed, pending_event>>
BY DEF PutHandleRecord, PendingRecords, DurableInv, OwedTypeOK, Put

LEMMA PutKeepsInv ==
  ASSUME DurableInv, NEW k, PutHandleRecord(k)
  PROVE  DurableInv'
<1>1. UNCHANGED <<records, consumed_events, plaintext_key_id>>
  BY PutFacts DEF graphVars
<1>2. TypeOK' /\ ValidLineage' /\ AcyclicLineage' /\ ConsumedBound'
  BY <1>1 DEF DurableInv, OwedTypeOK, TypeOK, ValidLineage, AcyclicLineage, ConsumedBound
<1>3. IsHandleRecord(records[k]) /\ k \in HandleKey
  BY PutFacts DEF DurableInv, OwedTypeOK, TypeOK
<1>4. OwedTypeOK'
  <2>1. /\ DOMAIN durable_records' \subseteq HandleKey
        /\ \A j \in DOMAIN durable_records' : IsHandleRecord(durable_records'[j])
    <3>1. ASSUME NEW j \in DOMAIN durable_records'
          PROVE  j \in HandleKey /\ IsHandleRecord(durable_records'[j])
      <4>1. CASE j = k
        BY <1>3, <4>1, PutFacts
      <4>2. CASE j # k
        <5>1. j \in DOMAIN durable_records /\ durable_records'[j] = durable_records[j]
          BY <4>2, PutFacts
        <5>. QED
          BY <5>1 DEF DurableInv, OwedTypeOK
      <4>. QED
        BY <4>1, <4>2
    <3>. QED
      BY <3>1
  <2>2. PendingRecords' \subseteq DOMAIN records'
    BY <1>1, PutFacts DEF DurableInv, OwedTypeOK
  <2>3. durable_consumed' \subseteq ChainEventRef /\ pending_event' \subseteq consumed_events'
    BY <1>1, PutFacts DEF DurableInv, OwedTypeOK
  <2>. QED
    BY <1>2, <2>1, <2>2, <2>3 DEF OwedTypeOK
<1>5. StoreMirrors'
  <2>1. durable_consumed' \cup pending_event' = consumed_events'
    BY <1>1, PutFacts DEF DurableInv, StoreMirrors
  <2>2. ASSUME NEW j \in HandleKey, j \notin PendingRecords'
        PROVE  /\ j \in DOMAIN records' <=> j \in DOMAIN durable_records'
               /\ j \in DOMAIN records' => durable_records'[j] = records'[j]
    <3>1. CASE j = k
      BY <1>1, <3>1, PutFacts
    <3>2. CASE j # k
      <4>1. j \notin PendingRecords
        BY <2>2, <3>2, PutFacts
      <4>2. /\ j \in DOMAIN records <=> j \in DOMAIN durable_records
            /\ j \in DOMAIN records => durable_records[j] = records[j]
        BY <4>1 DEF DurableInv, StoreMirrors, PendingRecords
      <4>. QED
        <5>1. j \in DOMAIN durable_records' <=> j \in DOMAIN durable_records
          BY <3>2, PutFacts
        <5>2. j \in DOMAIN durable_records => durable_records'[j] = durable_records[j]
          BY <3>2, PutFacts
        <5>. QED
          BY <1>1, <4>2, <5>1, <5>2
    <3>. QED
      BY <3>1, <3>2
  <2>. QED
    BY <2>1, <2>2 DEF StoreMirrors, PendingRecords
<1>6. MemoryIsAhead'
  <2>1. RecordKept(records[k], records[k])
    BY <1>3, UnchangedIsKept
  <2>. QED
    <3>1. ASSUME NEW j \in DOMAIN durable_records'
          PROVE  j \in DOMAIN records /\ RecordKept(durable_records'[j], records[j])
      <4>1. CASE j = k
        BY <2>1, <4>1, PutFacts
      <4>2. CASE j # k
        BY <4>2, PutFacts DEF DurableInv, MemoryIsAhead
      <4>. QED
        BY <4>1, <4>2
    <3>. QED
      BY <1>1, <3>1 DEF MemoryIsAhead
<1>7. NewIsAlone'
  BY <1>1, PutFacts DEF DurableInv, NewIsAlone
<1>8. InputsStored'
  <2>1. ASSUME NEW j \in DOMAIN durable_records', Accepted(records[j])
        PROVE  Inputs(records[j]) \subseteq DOMAIN durable_records'
    <3>1. CASE j \in DOMAIN durable_records
      BY <2>1, <3>1, PutFacts DEF DurableInv, InputsStored
    <3>2. CASE j \notin DOMAIN durable_records
      <4>1. j = k /\ k \in DOMAIN records
        BY <3>2, PutFacts
      <4>2. \A i \in DOMAIN records : i = k \/ i \in DOMAIN durable_records
        BY <3>2, <4>1 DEF DurableInv, NewIsAlone
      <4>3. Inputs(records[k]) \subseteq DOMAIN records
        BY <2>1, <4>1 DEF DurableInv, ValidLineage, ValidRecord, Inputs, LineageInputs
      <4>. QED
        BY <4>1, <4>2, <4>3, PutFacts
    <3>. QED
      BY <3>1, <3>2
  <2>. QED
    BY <1>1, <2>1 DEF InputsStored
<1>9. ConsumedIsBound'
  BY <1>1, PutFacts DEF DurableInv, ConsumedIsBound
<1>10. TombstonesOwed'
  BY <1>1, PutFacts DEF DurableInv, TombstonesOwed, DiscardWriting, PendingRecords
<1>. QED
  BY <1>2, <1>4, <1>5, <1>6, <1>7, <1>8, <1>9, <1>10 DEF DurableInv

\* An event is recorded when its record is stored.
LEMMA RecordEventKeepsInv ==
  ASSUME DurableInv, RecordConsumedEvent
  PROVE  DurableInv'
<1>1. /\ UNCHANGED <<records, consumed_events, plaintext_key_id, durable_records,
                     pending_direct, pending_cascade>>
      /\ durable_consumed' = durable_consumed \cup pending_event
      /\ pending_event' = {}
      /\ pending_direct = {}
      /\ pending_cascade = {}
  BY DEF RecordConsumedEvent, RecordsWritten, graphVars
<1>2. DOMAIN durable_records = DOMAIN records
  BY <1>1 DEF DurableInv, NewIsAlone, MemoryIsAhead
<1>3. OwedTypeOK' /\ StoreMirrors'
  BY <1>1 DEF DurableInv, OwedTypeOK, TypeOK, PendingRecords, StoreMirrors
<1>4. MemoryIsAhead' /\ NewIsAlone' /\ ValidLineage' /\ AcyclicLineage' /\ InputsStored'
  BY <1>1 DEF DurableInv, MemoryIsAhead, NewIsAlone, ValidLineage, AcyclicLineage, InputsStored
<1>5. ConsumedBound' /\ TombstonesOwed'
  BY <1>1 DEF DurableInv, ConsumedBound, TombstonesOwed, DiscardWriting, PendingRecords
<1>6. ConsumedIsBound'
  <2>1. durable_consumed' \subseteq consumed_events
    BY <1>1 DEF DurableInv, StoreMirrors
  <2>. QED
    BY <1>1, <1>2, <2>1 DEF DurableInv, ConsumedBound, ConsumedIsBound
<1>. QED
  BY <1>3, <1>4, <1>5, <1>6 DEF DurableInv

\* After a crash the graph in memory is the store.
LEMMA CrashKeepsInv ==
  ASSUME DurableInv, CrashAndRestore
  PROVE  DurableInv'
<1>1. /\ records' = durable_records
      /\ consumed_events' = durable_consumed
      /\ plaintext_key_id' \in KeyId
      /\ pending_direct' = {} /\ pending_cascade' = {} /\ pending_event' = {}
      /\ durable_records' = durable_records
      /\ durable_consumed' = durable_consumed
  BY DEF CrashAndRestore, storeVars
<1>2. OwedTypeOK' /\ StoreMirrors'
  BY <1>1 DEF DurableInv, OwedTypeOK, TypeOK, PendingRecords, StoreMirrors
<1>3. ValidLineage' /\ AcyclicLineage'
  <2>1. Durable!ValidLineage /\ Durable!AcyclicLineage
    BY StoreLineage DEF DurableLineage
  <2>. QED
    BY <1>1, <2>1, StoreOperators DEF Durable!ValidLineage, Durable!AcyclicLineage,
                                      ValidLineage, AcyclicLineage
<1>4. MemoryIsAhead' /\ NewIsAlone'
  BY <1>1, UnchangedIsKept DEF DurableInv, OwedTypeOK, MemoryIsAhead, NewIsAlone
<1>5. InputsStored'
  <2>1. ASSUME NEW k \in DOMAIN records', Accepted(records'[k])
        PROVE  Inputs(records'[k]) \subseteq DOMAIN records'
    BY <1>3, <2>1 DEF ValidLineage, ValidRecord, Inputs, LineageInputs, Accepted, IsDerived
  <2>. QED
    BY <1>1, <2>1 DEF InputsStored
<1>6. ConsumedBound' /\ ConsumedIsBound' /\ TombstonesOwed'
  BY <1>1 DEF DurableInv, ConsumedBound, ConsumedIsBound, TombstonesOwed, DiscardWriting
<1>. QED
  BY <1>2, <1>3, <1>4, <1>5, <1>6 DEF DurableInv

(***************************************************************************)
(* Theorems.                                                               *)
(***************************************************************************)
LEMMA DurableStep ==
  ASSUME DurableInv, [Next]_vars
  PROVE  DurableInv'
<1>1. ASSUME NEW e \in ChainEvents, IngestWithPersistence(e) PROVE DurableInv'
  BY <1>1, IngestOwes, OperationKeepsInv DEF IngestWithPersistence
<1>2. ASSUME NEW refs \in OrphanSignals, DiscardWithPersistence(refs) PROVE DurableInv'
  BY <1>2, DiscardOwes, OperationKeepsInv DEF DiscardWithPersistence
<1>3. ASSUME NEW k \in HandleKey, ResultWithPersistence(k) PROVE DurableInv'
  BY <1>3, ResultOwes, OperationKeepsInv DEF ResultWithPersistence
<1>4. CASE Write
  BY <1>4, PutKeepsInv, RecordEventKeepsInv DEF Write
<1>5. CASE CrashAndRestore
  BY <1>5, CrashKeepsInv
<1>6. CASE UNCHANGED vars
  <2>1. UNCHANGED <<records, consumed_events, plaintext_key_id, durable_records,
                    durable_consumed, pending_direct, pending_cascade, pending_event>>
    BY <1>6 DEF vars, graphVars, storeVars, pendingVars
  <2>. QED
    BY <2>1 DEF DurableInv, OwedTypeOK, TypeOK, PendingRecords, StoreMirrors, MemoryIsAhead,
                NewIsAlone, ValidLineage, AcyclicLineage, InputsStored, ConsumedBound,
                ConsumedIsBound, TombstonesOwed, DiscardWriting
<1>. QED
  BY <1>1, <1>2, <1>3, <1>4, <1>5, <1>6 DEF Next, Operation

\* The graph in memory is the store and the writes still owed, whatever the
\* operations and wherever the crashes.
THEOREM DurableCorrect == Spec => []DurableInv
<1>1. Init => DurableInv
  <2> SUFFICES ASSUME Init PROVE DurableInv
    OBVIOUS
  <2>1. /\ records = [k \in {} |-> k] /\ durable_records = [k \in {} |-> k]
        /\ consumed_events = {} /\ durable_consumed = {}
        /\ pending_direct = {} /\ pending_cascade = {} /\ pending_event = {}
        /\ plaintext_key_id \in KeyId
    BY DEF Init, GraphInit
  <2>. QED
    BY <2>1 DEF DurableInv, OwedTypeOK, TypeOK, PendingRecords, StoreMirrors, MemoryIsAhead,
                NewIsAlone, ValidLineage, AcyclicLineage, InputsStored, ConsumedBound,
                ConsumedIsBound, TombstonesOwed, DiscardWriting
<1>. QED
  BY <1>1, DurableStep, PTL DEF Spec

\* The store holds a well-formed graph at every moment.
THEOREM DurableTypeCorrect == Spec => []DurableTypeOK
<1>1. DurableInv => DurableTypeOK
  BY StoreTypeOK DEF DurableInv, OwedTypeOK, DurableTypeOK, PendingRecords
<1>. QED
  BY <1>1, DurableCorrect, PTL

\* No crash loses an event.
THEOREM ConsumedIsNeverLost == Spec => []ConsumedIsBound
BY DurableCorrect, PTL DEF DurableInv

\* The store lags behind the graph in memory by the writes still owed only.
THEOREM StoreMirrorsGraph == Spec => []StoreMirrors
BY DurableCorrect, PTL DEF DurableInv

\* Whatever a crash leaves in the store is a graph with valid lineage.
THEOREM StoredLineageCorrect == Spec => []DurableLineage
BY DurableCorrect, StoreLineage, PTL

\* No step takes a record from the store, and what a write changes of one it
\* may change.
LEMMA StoredStep ==
  ASSUME DurableInv, [Next]_vars, NEW j \in DOMAIN durable_records
  PROVE  j \in DOMAIN durable_records' /\ RecordKept(durable_records[j], durable_records'[j])
<1>1. RecordKept(durable_records[j], durable_records[j])
  BY UnchangedIsKept DEF DurableInv, OwedTypeOK
<1>2. CASE UNCHANGED durable_records
  BY <1>1, <1>2
<1>3. ASSUME NEW k, PutHandleRecord(k)
      PROVE  j \in DOMAIN durable_records' /\ RecordKept(durable_records[j], durable_records'[j])
  <2>1. CASE j = k
    BY <1>3, <2>1, PutFacts DEF DurableInv, MemoryIsAhead
  <2>2. CASE j # k
    BY <1>1, <1>3, <2>2, PutFacts
  <2>. QED
    BY <2>1, <2>2
<1>. QED
  BY <1>2, <1>3 DEF Next, Operation, Write, IngestWithPersistence, DiscardWithPersistence,
                    ResultWithPersistence, RecordConsumedEvent, CrashAndRestore, storeVars, vars

\* A stored record never regresses, over crashes, replays and duplicates.
THEOREM StoredRecordsLiveOnce == Spec => DurableLifecycle
<1> DEFINE Kept == \A k \in DOMAIN durable_records :
                     k \in DOMAIN durable_records' /\ Durable!RecordKept(durable_records[k], durable_records'[k])
<1>1. DurableInv /\ [Next]_vars => [Kept]_(Durable!graphVars)
  BY StoredStep, StoreOperators
<1>. QED
  BY <1>1, DurableCorrect, PTL DEF Spec, DurableLifecycle, Durable!RecordLifecycle

\* What a call has returned with is in the store when it returns; the store
\* never regresses, and the graph in memory is never behind the store.
THEOREM AcknowledgedIsKept == Spec => AcknowledgedSurvives
<1> SUFFICES ASSUME NEW k \in HandleKey
             PROVE  /\ Spec => [](Idle /\ Withdrawn(k) => []Withdrawn(k))
                    /\ \A tag \in {"Ready", "Failed"} :
                         Spec => [](Idle /\ Answered(k, tag) => []Answered(k, tag))
  BY DEF AcknowledgedSurvives
<1>1. Spec => [](Idle /\ Withdrawn(k) => []Withdrawn(k))
  <2> DEFINE Stored == k \in DOMAIN durable_records /\ durable_records[k].is_tombstoned
  <2>1. DurableInv /\ Idle /\ Withdrawn(k) => Stored
    BY DEF DurableInv, StoreMirrors, Idle, Withdrawn, Tombstoned
  <2>2. DurableInv /\ Stored /\ [Next]_vars => Stored'
    BY StoredStep DEF RecordKept
  <2>3. DurableInv /\ Stored => Withdrawn(k)
    BY DEF DurableInv, MemoryIsAhead, RecordKept, Withdrawn, Tombstoned
  <2>. QED
    BY <2>1, <2>2, <2>3, DurableCorrect, PTL DEF Spec
<1>2. ASSUME NEW tag \in {"Ready", "Failed"}
      PROVE  Spec => [](Idle /\ Answered(k, tag) => []Answered(k, tag))
  <2> DEFINE Stored == k \in DOMAIN durable_records /\ durable_records[k].state.tag = tag
  <2>1. DurableInv /\ Idle /\ Answered(k, tag) => Stored
    BY DEF DurableInv, StoreMirrors, Idle, Answered
  <2>2. ASSUME NEW old, NEW new, RecordKept(old, new), old.state.tag = tag
        PROVE  new.state.tag = tag
    BY <2>2 DEF RecordKept, Pending
  <2>3. DurableInv /\ Stored /\ [Next]_vars => Stored'
    BY <2>2, StoredStep
  <2>4. DurableInv /\ Stored => Answered(k, tag)
    BY <2>2 DEF DurableInv, MemoryIsAhead, Answered
  <2>. QED
    BY <2>1, <2>3, <2>4, DurableCorrect, PTL DEF Spec
<1>. QED
  BY <1>1, <1>2

\* When the last write of a discard is done, no canonical record in the store
\* depends on a tombstoned one, wherever an earlier discard was interrupted.
THEOREM DiscardsHeal == Spec => DiscardHeals
<1> DEFINE Heals == DiscardWriting /\ Write /\ ~DiscardWriting'
                      => CascadeClosed(durable_records', Tombstoned(durable_records'))
<1>1. DurableInv /\ [Next]_vars => Heals
  <2> SUFFICES ASSUME DurableInv, DurableInv', DiscardWriting, Write, ~DiscardWriting'
               PROVE  CascadeClosed(durable_records', Tombstoned(durable_records'))
    BY DurableStep
  <2>1. PICK k : PutHandleRecord(k)
    BY DEF Write, RecordConsumedEvent, RecordsWritten, DiscardWriting
  <2>2. /\ records' = records
        /\ CascadeClosed(records, Tombstoned(records))
        /\ \A j \in PendingRecords : records[j].is_tombstoned
    BY <2>1, PutFacts DEF DurableInv, TombstonesOwed, graphVars
  <2>3. PendingRecords' = {}
    BY <2>1, <2>2, PutFacts DEF DiscardWriting, PendingRecords
  <2>4. /\ DOMAIN durable_records' = DOMAIN records
        /\ \A j \in DOMAIN records : durable_records'[j] = records[j]
    BY <2>2, <2>3 DEF DurableInv, OwedTypeOK, StoreMirrors, TypeOK, PendingRecords
  <2>. QED
    BY <2>2, <2>4 DEF CascadeClosed, Dependents, Tombstoned
<1>. QED
  BY <1>1, DurableCorrect, PTL DEF Spec, DiscardHeals
=============================================================================
