-------------------------- MODULE HandleGraph_proofs ------------------------
(***************************************************************************)
(* Proofs about the Handle Graph Core.  The lemmas speak of the operators  *)
(* on a record map, so that every module that composes the core can use    *)
(* them; the theorems are about GraphSpec.                                 *)
(***************************************************************************)
EXTENDS HandleGraph, TLAPS

(***************************************************************************)
(* The cascade.                                                            *)
(***************************************************************************)
\* The result of the cascade contains the tombstones it starts from, is
\* closed under lineage, and is contained in every set that does both.
LEMMA CascadeIsLeastClosed ==
  ASSUME NEW recs, NEW T \in SUBSET DOMAIN recs
  PROVE  /\ T \subseteq Cascade(recs, T)
         /\ Cascade(recs, T) \subseteq DOMAIN recs
         /\ CascadeClosed(recs, Cascade(recs, T))
         /\ \A S \in SUBSET DOMAIN recs :
              T \subseteq S /\ CascadeClosed(recs, S) => Cascade(recs, T) \subseteq S
<1>1. T \subseteq Cascade(recs, T)
  BY DEF Cascade
<1>2. Cascade(recs, T) \subseteq DOMAIN recs
  BY DEF Cascade
<1>3. ASSUME NEW S \in SUBSET DOMAIN recs, T \subseteq S, CascadeClosed(recs, S)
      PROVE  Cascade(recs, T) \subseteq S
  BY <1>3 DEF Cascade
<1>4. CascadeClosed(recs, Cascade(recs, T))
  <2>1. SUFFICES ASSUME NEW k \in Dependents(recs, Cascade(recs, T)),
                        NEW S \in SUBSET DOMAIN recs,
                        T \subseteq S, CascadeClosed(recs, S)
                 PROVE  k \in S
    BY DEF CascadeClosed, Dependents, Cascade
  <2>2. Cascade(recs, T) \subseteq S
    BY <1>3, <2>1
  <2>3. k \in Dependents(recs, S)
    BY <2>2 DEF Dependents
  <2>. QED
    BY <2>1, <2>3 DEF CascadeClosed
<1>. QED
  BY <1>1, <1>2, <1>3, <1>4

\* Orphan Discard changes nothing but tombstones, keeps those there are, and
\* leaves no record dependent on a tombstoned one untombstoned.
LEMMA DiscardedFacts ==
  ASSUME NEW recs, NEW refs,
         \A k \in DOMAIN recs : IsHandleRecord(recs[k])
  PROVE  /\ DOMAIN Discarded(recs, refs) = DOMAIN recs
         /\ \A k \in DOMAIN recs :
              LET new == Discarded(recs, refs)[k]
              IN  /\ new = [recs[k] EXCEPT !.is_tombstoned = new.is_tombstoned]
                  /\ new.is_tombstoned \in BOOLEAN
                  /\ recs[k].is_tombstoned => new = recs[k]
         /\ Tombstoned(Discarded(recs, refs)) = TombstonesAfter(recs, refs)
         /\ CascadeClosed(Discarded(recs, refs), Tombstoned(Discarded(recs, refs)))
<1> DEFINE start == Tombstoned(recs) \cup DirectlyTombstoned(recs, refs)
           C     == TombstonesAfter(recs, refs)
           new   == Discarded(recs, refs)
<1>1. start \in SUBSET DOMAIN recs
  BY DEF Tombstoned, DirectlyTombstoned, Canonical
<1>2. /\ start \subseteq C
      /\ C \subseteq DOMAIN recs
      /\ CascadeClosed(recs, C)
  BY <1>1, CascadeIsLeastClosed DEF TombstonesAfter
<1>3. new = [k \in DOMAIN recs |-> IF k \in C
                                   THEN [recs[k] EXCEPT !.is_tombstoned = TRUE]
                                   ELSE recs[k]]
  BY DEF Discarded, MarkTombstoned
<1> HIDE DEF C, new
<1>4. ASSUME NEW k \in DOMAIN recs
      PROVE  /\ new[k] = [recs[k] EXCEPT !.is_tombstoned = new[k].is_tombstoned]
             /\ new[k].is_tombstoned \in BOOLEAN
             /\ recs[k].is_tombstoned => new[k] = recs[k]
             /\ new[k].is_tombstoned <=> k \in C
             /\ new[k].lineage = recs[k].lineage
  <2>1. recs[k].is_tombstoned => k \in C
    BY <1>2 DEF Tombstoned
  <2>2. recs[k].is_tombstoned \in BOOLEAN
    BY DEF IsHandleRecord
  <2>3. CASE k \in C
    <3>1. new[k] = [recs[k] EXCEPT !.is_tombstoned = TRUE]
      BY <1>3, <2>3
    <3>2. recs[k] = [domain_id |-> recs[k].domain_id,
                     handle_type |-> recs[k].handle_type,
                     state |-> recs[k].state, event_ref |-> recs[k].event_ref,
                     lineage |-> recs[k].lineage,
                     is_tombstoned |-> recs[k].is_tombstoned]
      BY DEF IsHandleRecord
    <3>. QED
      BY <3>1, <3>2, <2>2, <2>3
  <2>4. CASE k \notin C
    BY <1>3, <2>1, <2>2, <2>4 DEF IsHandleRecord
  <2>. QED
    BY <2>3, <2>4
<1>5. DOMAIN new = DOMAIN recs
  BY <1>3
<1>6. Tombstoned(new) = C
  BY <1>2, <1>4, <1>5 DEF Tombstoned
<1>7. CascadeClosed(new, C)
  <2>1. ASSUME NEW k \in DOMAIN recs PROVE Inputs(new[k]) = Inputs(recs[k])
    BY <1>4 DEF Inputs
  <2>. QED
    BY <2>1, <1>2, <1>5 DEF CascadeClosed, Dependents
<1>. QED
  BY <1>4, <1>5, <1>6, <1>7 DEF new, C

(***************************************************************************)
(* Ingestion and Resolution, as operators on the record map.               *)
(***************************************************************************)
\* Ingestion records a Derived Handle as Pending or as Failed with the reason
\* validation found.
LEMMA DerivedStateCases ==
  ASSUME NEW recs, NEW e
  PROVE  \/ DerivedState(recs, e) = Pending
         \/ \E why \in IngestionFailure : DerivedState(recs, e) = Failed(why)
<1> DEFINE ins   == e.input_handle_keys
           types == InputTypes(recs, e)
<1>1. CASE Len(ins) # ExpectedArity(e.operation_code)
  BY <1>1 DEF DerivedState, IngestionFailure
<1>2. CASE /\ Len(ins) = ExpectedArity(e.operation_code)
           /\ \E i \in DOMAIN ins : \/ ins[i] \notin DOMAIN recs
                                    \/ recs[ins[i]].domain_id # e.domain_id
  BY <1>2 DEF DerivedState, IngestionFailure
<1>3. CASE /\ Len(ins) = ExpectedArity(e.operation_code)
           /\ ~ \E i \in DOMAIN ins : \/ ins[i] \notin DOMAIN recs
                                      \/ recs[ins[i]].domain_id # e.domain_id
  BY <1>3 DEF DerivedState, IngestionFailure
<1>. QED
  BY <1>1, <1>2, <1>3

\* What ingestion inserts is a well-formed, canonical Handle Record of the
\* event's reference and domain.
LEMMA NewRecordFacts ==
  ASSUME NEW recs, NEW e \in ChainEvents
  PROVE  /\ e.handle_key \in HandleKey
         /\ e.event_ref \in ChainEventRef
         /\ IsHandleRecord(NewRecord(recs, e))
         /\ NewRecord(recs, e).event_ref = e.event_ref
         /\ NewRecord(recs, e).domain_id = e.domain_id
         /\ NewRecord(recs, e).is_tombstoned = FALSE
         /\ IsDerived(NewRecord(recs, e)) =>
              /\ e \in DerivedHandleOperation
              /\ NewRecord(recs, e).lineage =
                   Derived(e.operation_code, e.input_handle_keys)
              /\ NewRecord(recs, e).handle_type = e.output_handle_type
              /\ NewRecord(recs, e).state = DerivedState(recs, e)
<1> DEFINE rec == NewRecord(recs, e)
<1>1. CASE e \in ImportedHandle
  <2>1. rec = [domain_id |-> e.domain_id, handle_type |-> e.handle_type,
               state |-> Ready(e.system_ciphertext), event_ref |-> e.event_ref,
               lineage |-> Source, is_tombstoned |-> FALSE]
    BY <1>1 DEF ImportedHandle, NewRecord
  <2>. QED
    BY <1>1, <2>1 DEF ImportedHandle, IsHandleRecord, IsHandleState, IsLineage,
                      IsDerived, Source, Ready
<1>2. CASE e \in PlaintextHandle
  <2>1. rec = [domain_id |-> e.domain_id, handle_type |-> e.handle_type,
               state |-> Ready(MaterializedPlaintext(e)), event_ref |-> e.event_ref,
               lineage |-> Source, is_tombstoned |-> FALSE]
    BY <1>2 DEF PlaintextHandle, NewRecord
  <2>. QED
    BY <1>2, <2>1 DEF PlaintextHandle, IsHandleRecord, IsHandleState, IsLineage,
                      IsDerived, Source, Ready
<1>3. CASE e \in DerivedHandleOperation
  <2>1. rec = [domain_id |-> e.domain_id, handle_type |-> e.output_handle_type,
               state |-> DerivedState(recs, e), event_ref |-> e.event_ref,
               lineage |-> Derived(e.operation_code, e.input_handle_keys),
               is_tombstoned |-> FALSE]
    BY <1>3 DEF DerivedHandleOperation, NewRecord
  <2>2. IsHandleState(DerivedState(recs, e))
    BY DerivedStateCases DEF IsHandleState
  <2>3. IsLineage(Derived(e.operation_code, e.input_handle_keys))
    BY <1>3 DEF DerivedHandleOperation, IsLineage, Derived
  <2>4. IsDerived(rec)
    BY <2>1 DEF IsDerived, Derived
  <2>. QED
    BY <1>3, <2>1, <2>2, <2>3, <2>4 DEF DerivedHandleOperation, IsHandleRecord
<1>. QED
  BY <1>1, <1>2, <1>3, ChainEventsAssumption

\* Ingestion adds at most one record and changes none.
LEMMA RecordsAfterFacts ==
  ASSUME NEW recs, NEW e
  PROVE  /\ DOMAIN RecordsAfter(recs, e) =
              DOMAIN recs \cup {e.handle_key}
         /\ \A k \in DOMAIN recs : RecordsAfter(recs, e)[k] = recs[k]
         /\ e.handle_key \notin DOMAIN recs =>
              RecordsAfter(recs, e)[e.handle_key] = NewRecord(recs, e)
BY DEF RecordsAfter, Put

\* Materialization and failure change the state of one canonical Pending
\* Derived Handle.
LEMMA WithStateFacts ==
  ASSUME NEW recs, NEW k, NEW s, Resolvable(recs, k),
         IsHandleRecord(recs[k]), IsHandleState(s)
  PROVE  /\ DOMAIN WithState(recs, k, s) = DOMAIN recs
         /\ \A j \in DOMAIN recs : j # k => WithState(recs, k, s)[j] = recs[j]
         /\ WithState(recs, k, s)[k] = [recs[k] EXCEPT !.state = s]
         /\ WithState(recs, k, s)[k].state = s
         /\ WithState(recs, k, s)[k].lineage = recs[k].lineage
         /\ WithState(recs, k, s)[k].is_tombstoned = recs[k].is_tombstoned
         /\ WithState(recs, k, s)[k].event_ref = recs[k].event_ref
         /\ WithState(recs, k, s)[k].domain_id = recs[k].domain_id
         /\ WithState(recs, k, s)[k].handle_type = recs[k].handle_type
         /\ IsHandleRecord(WithState(recs, k, s)[k])
<1>1. /\ DOMAIN WithState(recs, k, s) = DOMAIN recs
      /\ \A j \in DOMAIN recs : j # k => WithState(recs, k, s)[j] = recs[j]
      /\ WithState(recs, k, s)[k] = [recs[k] EXCEPT !.state = s]
  BY DEF WithState, Resolvable
<1>2. [recs[k] EXCEPT !.state = s] =
        [domain_id |-> recs[k].domain_id, handle_type |-> recs[k].handle_type,
         state |-> s, event_ref |-> recs[k].event_ref,
         lineage |-> recs[k].lineage, is_tombstoned |-> recs[k].is_tombstoned]
  BY DEF IsHandleRecord
<1>3. IsDerived(recs[k])
  BY DEF Resolvable
<1>. QED
  BY <1>1, <1>2, <1>3 DEF IsHandleRecord, IsDerived

\* The states Resolution can give a handle are Handle States.
LEMMA ResolutionStates ==
  /\ \A c : IsHandleState(Ready(c))
  /\ \A why \in ResolutionFailure : IsHandleState(Failed(why))
BY DEF IsHandleState, Ready, Failed

(***************************************************************************)
(* Type correctness.                                                       *)
(***************************************************************************)
LEMMA IngestKeepsType ==
  ASSUME TypeOK, NEW e \in ChainEvents, ApplyChainEvent(e)
  PROVE  TypeOK'
<1>1. /\ e.handle_key \in HandleKey
      /\ e.event_ref \in ChainEventRef
      /\ IsHandleRecord(NewRecord(records, e))
  BY NewRecordFacts
<1>2. /\ DOMAIN records' = DOMAIN records \cup {e.handle_key}
      /\ \A k \in DOMAIN records : records'[k] = records[k]
      /\ e.handle_key \notin DOMAIN records =>
           records'[e.handle_key] = NewRecord(records, e)
  BY RecordsAfterFacts DEF ApplyChainEvent
<1>3. ASSUME NEW k \in DOMAIN records' PROVE IsHandleRecord(records'[k])
  BY <1>1, <1>2 DEF TypeOK
<1>. QED
  BY <1>1, <1>2, <1>3 DEF TypeOK, ApplyChainEvent

LEMMA DiscardKeepsType ==
  ASSUME TypeOK, NEW refs, ApplyOrphanDiscard(refs)
  PROVE  TypeOK'
<1>1. /\ DOMAIN records' = DOMAIN records
      /\ \A k \in DOMAIN records :
           /\ records'[k] = [records[k] EXCEPT !.is_tombstoned = records'[k].is_tombstoned]
           /\ records'[k].is_tombstoned \in BOOLEAN
  BY DiscardedFacts DEF TypeOK, ApplyOrphanDiscard
<1>2. ASSUME NEW k \in DOMAIN records
      PROVE  IsHandleRecord(records'[k])
  <2>1. IsHandleRecord(records[k])
    BY DEF TypeOK
  <2>2. records'[k] =
          [domain_id |-> records[k].domain_id,
           handle_type |-> records[k].handle_type,
           state |-> records[k].state, event_ref |-> records[k].event_ref,
           lineage |-> records[k].lineage,
           is_tombstoned |-> records'[k].is_tombstoned]
    BY <1>1, <2>1 DEF IsHandleRecord
  <2>. QED
    BY <1>1, <2>1, <2>2 DEF IsHandleRecord, IsDerived
<1>. QED
  BY <1>1, <1>2 DEF TypeOK, ApplyOrphanDiscard

LEMMA MaterializeKeepsType ==
  ASSUME TypeOK, NEW k, NEW c, MaterializeDerivedHandle(k, c)
  PROVE  TypeOK'
<1>1. /\ Resolvable(records, k)
      /\ k \in DOMAIN records
      /\ IsHandleRecord(records[k])
      /\ IsHandleState(Ready(c))
      /\ records' = WithState(records, k, Ready(c))
  BY ResolutionStates DEF MaterializeDerivedHandle, Resolvable, TypeOK
<1>2. /\ DOMAIN records' = DOMAIN records
      /\ \A j \in DOMAIN records : j # k => records'[j] = records[j]
      /\ IsHandleRecord(records'[k])
  <2>1. DOMAIN records' = DOMAIN records
    BY <1>1, WithStateFacts
  <2>2. \A j \in DOMAIN records : j # k => records'[j] = records[j]
    BY <1>1 DEF WithState
  <2>3. IsHandleRecord(records'[k])
    BY <1>1, WithStateFacts
  <2>. QED
    BY <2>1, <2>2, <2>3
<1>. QED
  BY <1>1, <1>2 DEF TypeOK, MaterializeDerivedHandle

LEMMA FailKeepsType ==
  ASSUME TypeOK, NEW k, NEW why \in ResolutionFailure, FailDerivedHandle(k, why)
  PROVE  TypeOK'
<1>1. /\ Resolvable(records, k)
      /\ k \in DOMAIN records
      /\ IsHandleRecord(records[k])
      /\ IsHandleState(Failed(why))
      /\ records' = WithState(records, k, Failed(why))
  BY ResolutionStates DEF FailDerivedHandle, Resolvable, TypeOK
<1>2. /\ DOMAIN records' = DOMAIN records
      /\ \A j \in DOMAIN records : j # k => records'[j] = records[j]
      /\ IsHandleRecord(records'[k])
  <2>1. DOMAIN records' = DOMAIN records
    BY <1>1, WithStateFacts
  <2>2. \A j \in DOMAIN records : j # k => records'[j] = records[j]
    BY <1>1 DEF WithState
  <2>3. IsHandleRecord(records'[k])
    BY <1>1, WithStateFacts
  <2>. QED
    BY <2>1, <2>2, <2>3
<1>. QED
  BY <1>1, <1>2 DEF TypeOK, FailDerivedHandle

\* The Handle Graph Core only ever holds well-formed Handle Records, whatever
\* events, discards and resolution results it is given.
THEOREM GraphTypeCorrect == GraphSpec => []TypeOK
<1>1. GraphInit => TypeOK
  BY DEF GraphInit, TypeOK
<1>2. TypeOK /\ [GraphNext]_graphVars => TypeOK'
  <2> SUFFICES ASSUME TypeOK, [GraphNext]_graphVars PROVE TypeOK'
    OBVIOUS
  <2>1. ASSUME NEW e \in ChainEvents, ApplyChainEvent(e) PROVE TypeOK'
    BY <2>1, IngestKeepsType
  <2>2. ASSUME NEW refs \in OrphanSignals, ApplyOrphanDiscard(refs) PROVE TypeOK'
    BY <2>2, DiscardKeepsType
  <2>3. ASSUME NEW k \in HandleKey, NEW c \in SystemCiphertext,
               MaterializeDerivedHandle(k, c)
        PROVE  TypeOK'
    BY <2>3, MaterializeKeepsType
  <2>4. ASSUME NEW k \in HandleKey, NEW why \in ResolutionFailure,
               FailDerivedHandle(k, why)
        PROVE  TypeOK'
    BY <2>4, FailKeepsType
  <2>5. CASE UNCHANGED graphVars
    BY <2>5 DEF graphVars, TypeOK
  <2>. QED
    BY <2>1, <2>2, <2>3, <2>4, <2>5 DEF GraphNext
<1>. QED
  BY <1>1, <1>2, PTL DEF GraphSpec

(***************************************************************************)
(* The life of a record.  A step of the graph keeps every record and adds  *)
(* at most one, the one ingestion makes of an event.                       *)
(***************************************************************************)
RecordsKept ==
  \A k \in DOMAIN records :
    k \in DOMAIN records' /\ RecordKept(records[k], records'[k])

OneNewRecord ==
  \/ DOMAIN records' = DOMAIN records
  \/ \E e \in ChainEvents :
       /\ e.handle_key \notin DOMAIN records
       /\ DOMAIN records' = DOMAIN records \cup {e.handle_key}
       /\ records'[e.handle_key] = NewRecord(records, e)

LEMMA UnchangedIsKept ==
  ASSUME NEW rec, IsHandleRecord(rec)
  PROVE  RecordKept(rec, rec)
<1>1. rec = [rec EXCEPT !.state = rec.state, !.is_tombstoned = rec.is_tombstoned]
  BY DEF IsHandleRecord
<1>. QED
  BY <1>1 DEF RecordKept

LEMMA IngestStep ==
  ASSUME TypeOK, NEW e \in ChainEvents, ApplyChainEvent(e)
  PROVE  RecordsKept /\ OneNewRecord
<1>1. /\ DOMAIN records' = DOMAIN records \cup {e.handle_key}
      /\ \A k \in DOMAIN records : records'[k] = records[k]
      /\ e.handle_key \notin DOMAIN records =>
           records'[e.handle_key] = NewRecord(records, e)
  BY RecordsAfterFacts DEF ApplyChainEvent
<1>2. RecordsKept
  BY <1>1, UnchangedIsKept DEF RecordsKept, TypeOK
<1>3. OneNewRecord
  BY <1>1 DEF OneNewRecord
<1>. QED
  BY <1>2, <1>3

LEMMA DiscardStep ==
  ASSUME TypeOK, NEW refs, ApplyOrphanDiscard(refs)
  PROVE  /\ RecordsKept
         /\ DOMAIN records' = DOMAIN records
         /\ \A k \in DOMAIN records : records'[k].state = records[k].state
<1>1. /\ DOMAIN records' = DOMAIN records
      /\ \A k \in DOMAIN records :
           /\ records'[k] = [records[k] EXCEPT !.is_tombstoned = records'[k].is_tombstoned]
           /\ records[k].is_tombstoned => records'[k] = records[k]
  BY DiscardedFacts DEF TypeOK, ApplyOrphanDiscard
<1>2. ASSUME NEW k \in DOMAIN records
      PROVE  /\ RecordKept(records[k], records'[k])
             /\ records'[k].state = records[k].state
  <2> DEFINE old == records[k]
             new == records'[k]
  <2>1. old = [domain_id |-> old.domain_id, handle_type |-> old.handle_type,
               state |-> old.state, event_ref |-> old.event_ref,
               lineage |-> old.lineage, is_tombstoned |-> old.is_tombstoned]
    BY DEF TypeOK, IsHandleRecord
  <2>2. /\ new = [old EXCEPT !.is_tombstoned = new.is_tombstoned]
        /\ old.is_tombstoned => new = old
    BY <1>1
  <2> HIDE DEF old, new
  <2>3. new.state = old.state
    BY <2>1, <2>2
  <2>4. new = [old EXCEPT !.state = new.state, !.is_tombstoned = new.is_tombstoned]
    BY <2>1, <2>2, <2>3
  <2>. QED
    BY <2>2, <2>3, <2>4 DEF RecordKept, old, new
<1>. QED
  BY <1>1, <1>2 DEF RecordsKept

\* Materialization and failure, in one lemma: the state of a Resolvable
\* handle becomes a result of Resolution.
LEMMA ResultStep ==
  ASSUME TypeOK, NEW k, NEW s, Resolvable(records, k), IsHandleState(s),
         \/ s.tag = "Ready"
         \/ \E why \in ResolutionFailure : s = Failed(why),
         records' = WithState(records, k, s)
  PROVE  RecordsKept /\ DOMAIN records' = DOMAIN records
<1>1. k \in DOMAIN records /\ IsHandleRecord(records[k])
  BY DEF Resolvable, TypeOK
<1>2. /\ DOMAIN records' = DOMAIN records
      /\ \A j \in DOMAIN records : j # k => records'[j] = records[j]
      /\ records'[k] = [records[k] EXCEPT !.state = s]
  BY <1>1 DEF WithState
<1>3. RecordKept(records[k], records'[k])
  <2> DEFINE old == records[k]
             new == records'[k]
  <2>1. old = [domain_id |-> old.domain_id, handle_type |-> old.handle_type,
               state |-> old.state, event_ref |-> old.event_ref,
               lineage |-> old.lineage, is_tombstoned |-> old.is_tombstoned]
    BY <1>1 DEF IsHandleRecord
  <2>2. new = [old EXCEPT !.state = s]
    BY <1>2
  <2>3. /\ ~old.is_tombstoned
        /\ IsDerived(old)
        /\ old.state = Pending
    BY DEF Resolvable
  <2> HIDE DEF old, new
  <2>4. new.state = s /\ new.is_tombstoned = old.is_tombstoned
    BY <2>1, <2>2
  <2>5. new = [old EXCEPT !.state = new.state, !.is_tombstoned = new.is_tombstoned]
    BY <2>1, <2>2, <2>4
  <2>. QED
    BY <2>3, <2>4, <2>5 DEF RecordKept, old, new
<1>. QED
  BY <1>1, <1>2, <1>3, UnchangedIsKept DEF RecordsKept, TypeOK

\* Every step of the core is one of these.
LEMMA GraphStep ==
  ASSUME TypeOK, [GraphNext]_graphVars
  PROVE  RecordsKept /\ OneNewRecord
<1>1. ASSUME NEW e \in ChainEvents, ApplyChainEvent(e)
      PROVE  RecordsKept /\ OneNewRecord
  BY <1>1, IngestStep
<1>2. ASSUME NEW refs \in OrphanSignals, ApplyOrphanDiscard(refs)
      PROVE  RecordsKept /\ OneNewRecord
  BY <1>2, DiscardStep DEF OneNewRecord
<1>3. ASSUME NEW k \in HandleKey, NEW c \in SystemCiphertext,
             MaterializeDerivedHandle(k, c)
      PROVE  RecordsKept /\ OneNewRecord
  <2>1. IsHandleState(Ready(c)) /\ Ready(c).tag = "Ready"
    BY ResolutionStates DEF Ready
  <2>. QED
    BY <1>3, <2>1, ResultStep DEF MaterializeDerivedHandle, OneNewRecord
<1>4. ASSUME NEW k \in HandleKey, NEW why \in ResolutionFailure,
             FailDerivedHandle(k, why)
      PROVE  RecordsKept /\ OneNewRecord
  <2>1. IsHandleState(Failed(why))
    BY ResolutionStates
  <2>. QED
    BY <1>4, <2>1, ResultStep DEF FailDerivedHandle, OneNewRecord
<1>5. CASE UNCHANGED graphVars
  BY <1>5, UnchangedIsKept DEF graphVars, TypeOK, RecordsKept, OneNewRecord
<1>. QED
  BY <1>1, <1>2, <1>3, <1>4, <1>5 DEF GraphNext

\* The first record of a Handle Key is kept for good, and changes only as the
\* Handle State machine allows.
THEOREM RecordsLiveOnce == GraphSpec => RecordLifecycle
<1>1. TypeOK /\ [GraphNext]_graphVars =>
        [\A k \in DOMAIN records :
           k \in DOMAIN records' /\ RecordKept(records[k], records'[k])]_graphVars
  BY GraphStep DEF RecordsKept
<1>. QED
  BY <1>1, GraphTypeCorrect, PTL DEF GraphSpec, RecordLifecycle

(***************************************************************************)
(* Lineage.  ValidLineage is inductive together with TypeOK: the inputs of *)
(* an accepted record were bound before it and are kept.  AcyclicLineage   *)
(* needs ValidLineage: a record that is new cannot be an input of one that *)
(* was accepted before.                                                    *)
(***************************************************************************)
\* The fields of a kept record that validation read are kept.
LEMMA KeptFields ==
  ASSUME NEW old, NEW new, IsHandleRecord(old), RecordKept(old, new)
  PROVE  /\ new.lineage = old.lineage
         /\ new.handle_type = old.handle_type
         /\ new.domain_id = old.domain_id
         /\ new.event_ref = old.event_ref
         /\ IsDerived(new) <=> IsDerived(old)
         /\ Inputs(new) = Inputs(old)
         /\ Accepted(new) => Accepted(old)
<1>1. old = [domain_id |-> old.domain_id, handle_type |-> old.handle_type,
             state |-> old.state, event_ref |-> old.event_ref,
             lineage |-> old.lineage, is_tombstoned |-> old.is_tombstoned]
  BY DEF IsHandleRecord
<1>2. new = [old EXCEPT !.state = new.state, !.is_tombstoned = new.is_tombstoned]
  BY DEF RecordKept
<1>3. /\ new.lineage = old.lineage
      /\ new.handle_type = old.handle_type
      /\ new.domain_id = old.domain_id
      /\ new.event_ref = old.event_ref
  BY <1>1, <1>2
<1>4. Accepted(new) => Accepted(old)
  BY <1>3 DEF Accepted, RecordKept, IsDerived, Pending
<1>. QED
  BY <1>3, <1>4 DEF IsDerived, Inputs

\* An event whose Derived Handle ingestion accepts passed every check.
LEMMA AcceptedEventIsValid ==
  ASSUME NEW recs, NEW e \in ChainEvents, Accepted(NewRecord(recs, e))
  PROVE  /\ ValidRecord(recs, NewRecord(recs, e))
         /\ Inputs(NewRecord(recs, e)) \subseteq DOMAIN recs
<1> DEFINE ins   == e.input_handle_keys
           types == InputTypes(recs, e)
           rec   == NewRecord(recs, e)
<1>1. /\ e \in DerivedHandleOperation
      /\ rec.lineage = Derived(e.operation_code, e.input_handle_keys)
      /\ rec.handle_type = e.output_handle_type
      /\ rec.domain_id = e.domain_id
      /\ rec.state = DerivedState(recs, e)
  BY NewRecordFacts DEF Accepted
<1>2. DerivedState(recs, e) = Pending
  <2>1. ASSUME NEW why \in IngestionFailure, DerivedState(recs, e) = Failed(why)
        PROVE  FALSE
    BY <1>1, <2>1 DEF Accepted, Failed, IngestionFailure, ResolutionFailure
  <2>. QED
    BY <2>1, DerivedStateCases
<1>3. Len(ins) = ExpectedArity(e.operation_code)
  BY <1>2 DEF DerivedState, Pending, Failed
<1>4. ~ \E i \in DOMAIN ins : \/ ins[i] \notin DOMAIN recs
                             \/ recs[ins[i]].domain_id # e.domain_id
  BY <1>2, <1>3 DEF DerivedState, KnownInput, Pending, Failed
<1>5. /\ InputTypesOK(e.operation_code, types)
      /\ OutputTypeOK(e.operation_code, types, e.output_handle_type)
  BY <1>2, <1>3, <1>4 DEF DerivedState, Pending, Failed
<1>6. /\ rec.lineage.input_handle_keys = ins
      /\ rec.lineage.operation_code = e.operation_code
      /\ rec.lineage.tag = "Derived"
  BY <1>1 DEF Derived
<1>7. ValidRecord(recs, rec)
  BY <1>1, <1>3, <1>4, <1>5, <1>6 DEF ValidRecord, InputTypes
<1>8. Inputs(rec) \subseteq DOMAIN recs
  BY <1>4, <1>6 DEF Inputs, LineageInputs
<1>. QED
  BY <1>7, <1>8

\* The rules a record satisfied go on holding when the records are kept.
LEMMA ValidRecordKept ==
  ASSUME TypeOK, RecordsKept, NEW old, NEW new, ValidRecord(records, old),
         new.lineage = old.lineage, new.handle_type = old.handle_type,
         new.domain_id = old.domain_id
  PROVE  ValidRecord(records', new)
<1> DEFINE ins == old.lineage.input_handle_keys
<1>1. \A i \in DOMAIN ins :
        /\ ins[i] \in DOMAIN records
        /\ ins[i] \in DOMAIN records'
        /\ records'[ins[i]].domain_id = records[ins[i]].domain_id
        /\ records'[ins[i]].handle_type = records[ins[i]].handle_type
  BY KeptFields DEF ValidRecord, RecordsKept, TypeOK
<1>2. [i \in DOMAIN ins |-> records'[ins[i]].handle_type] =
        [i \in DOMAIN ins |-> records[ins[i]].handle_type]
  BY <1>1
<1>. QED
  BY <1>1, <1>2 DEF ValidRecord

LEMMA LineageStep ==
  ASSUME TypeOK, ValidLineage, RecordsKept, OneNewRecord
  PROVE  ValidLineage'
<1>1. SUFFICES ASSUME NEW k \in DOMAIN records', Accepted(records'[k])
               PROVE  ValidRecord(records', records'[k])
  BY DEF ValidLineage
<1>2. CASE k \in DOMAIN records
  <2>1. IsHandleRecord(records[k]) /\ RecordKept(records[k], records'[k])
    BY <1>2 DEF TypeOK, RecordsKept
  <2>2. ValidRecord(records, records[k])
    BY <1>1, <1>2, <2>1, KeptFields DEF ValidLineage
  <2>. QED
    BY <2>1, <2>2, KeptFields, ValidRecordKept
<1>3. CASE k \notin DOMAIN records
  <2>1. PICK e \in ChainEvents : k = e.handle_key /\ records'[k] = NewRecord(records, e)
    BY <1>1, <1>3 DEF OneNewRecord
  <2>2. ValidRecord(records, records'[k])
    BY <1>1, <2>1, AcceptedEventIsValid
  <2>. QED
    BY <2>2, ValidRecordKept
<1>. QED
  BY <1>2, <1>3

LEMMA AcyclicStep ==
  ASSUME TypeOK, ValidLineage, AcyclicLineage, RecordsKept, OneNewRecord
  PROVE  AcyclicLineage'
<1> DEFINE Old == {k \in DOMAIN records : Accepted(records[k])}
<1>1. ASSUME NEW k \in DOMAIN records, Accepted(records'[k])
      PROVE  k \in Old /\ Inputs(records'[k]) = Inputs(records[k])
  BY <1>1, KeptFields DEF TypeOK, RecordsKept
<1>2. ASSUME NEW k \in Old PROVE Inputs(records[k]) \subseteq DOMAIN records
  BY DEF ValidLineage, ValidRecord, Inputs, LineageInputs
<1>3. SUFFICES ASSUME NEW S \in SUBSET {k \in DOMAIN records' : Accepted(records'[k])},
                      S # {}
               PROVE  \E k \in S : Inputs(records'[k]) \cap S = {}
  BY DEF AcyclicLineage
<1>4. CASE S \subseteq DOMAIN records
  <2>1. S \subseteq Old
    BY <1>1, <1>3, <1>4
  <2>2. PICK k \in S : Inputs(records[k]) \cap S = {}
    BY <1>3, <2>1 DEF AcyclicLineage
  <2>. QED
    BY <1>1, <1>3, <1>4, <2>2
<1>5. CASE ~(S \subseteq DOMAIN records)
  <2>1. PICK e \in ChainEvents :
          /\ e.handle_key \notin DOMAIN records
          /\ DOMAIN records' = DOMAIN records \cup {e.handle_key}
          /\ records'[e.handle_key] = NewRecord(records, e)
    BY <1>3, <1>5 DEF OneNewRecord
  <2> DEFINE n == e.handle_key
             R == S \ {n}
  <2>2. n \in S /\ R \subseteq DOMAIN records
    BY <1>3, <1>5, <2>1
  <2>3. Inputs(records'[n]) \subseteq DOMAIN records
    BY <1>3, <2>1, <2>2, AcceptedEventIsValid
  <2>4. CASE R = {}
    BY <2>1, <2>2, <2>3, <2>4
  <2>5. CASE R # {}
    <3>1. R \subseteq Old
      BY <1>1, <1>3, <2>2
    <3>2. PICK k \in R : Inputs(records[k]) \cap R = {}
      BY <2>5, <3>1 DEF AcyclicLineage
    <3>3. Inputs(records'[k]) = Inputs(records[k]) /\ k \in Old
      BY <1>1, <1>3, <2>2, <3>2
    <3>4. n \notin Inputs(records[k])
      BY <1>2, <2>1, <3>3
    <3>. QED
      BY <3>2, <3>3, <3>4
  <2>. QED
    BY <2>4, <2>5
<1>. QED
  BY <1>4, <1>5

\* Accepted Derived Handles keep valid, well-founded lineage for ever.
THEOREM LineageCorrect == GraphSpec => [](ValidLineage /\ AcyclicLineage)
<1>1. GraphInit => ValidLineage /\ AcyclicLineage
  BY DEF GraphInit, ValidLineage, AcyclicLineage
<1>2. TypeOK /\ (ValidLineage /\ AcyclicLineage) /\ [GraphNext]_graphVars
        => (ValidLineage /\ AcyclicLineage)'
  BY GraphStep, LineageStep, AcyclicStep
<1>. QED
  BY <1>1, <1>2, GraphTypeCorrect, PTL DEF GraphSpec

(***************************************************************************)
(* Orphan Discard.                                                         *)
(***************************************************************************)
\* Whenever a step tombstones a record, no canonical record is left that
\* depends on a tombstoned one.
THEOREM DiscardIsComplete == GraphSpec => DiscardCascades
<1> DEFINE Discards == \E k \in DOMAIN records :
                         records'[k] # records[k] /\ records'[k].is_tombstoned
           Closed == CascadeClosed(records', Tombstoned(records'))
<1>1. TypeOK /\ [GraphNext]_graphVars => [Discards => Closed]_graphVars
  <2> SUFFICES ASSUME TypeOK, GraphNext, Discards PROVE Closed
    OBVIOUS
  <2>1. ASSUME NEW e \in ChainEvents, ApplyChainEvent(e) PROVE Closed
    <3>1. \A k \in DOMAIN records : records'[k] = records[k]
      BY <2>1 DEF ApplyChainEvent, RecordsAfter, Put
    <3>. QED
      BY <3>1
  <2>2. ASSUME NEW refs, ApplyOrphanDiscard(refs) PROVE Closed
    BY <2>2, DiscardedFacts DEF ApplyOrphanDiscard, TypeOK
  <2>3. ASSUME NEW k, NEW s, IsHandleState(s), Resolvable(records, k),
               records' = WithState(records, k, s)
        PROVE  Closed
    <3>1. k \in DOMAIN records /\ IsHandleRecord(records[k])
      BY <2>3 DEF Resolvable, TypeOK
    <3>2. records'[k] = [records[k] EXCEPT !.state = s]
      BY <2>3, <3>1 DEF WithState
    <3>3. \A j \in DOMAIN records : j # k => records'[j] = records[j]
      BY <2>3 DEF WithState
    <3>4. records'[k].is_tombstoned = FALSE
      BY <2>3, <3>1, <3>2 DEF Resolvable, IsHandleRecord
    <3>. QED
      BY <3>3, <3>4
  <2>4. ASSUME NEW k, NEW c, MaterializeDerivedHandle(k, c) PROVE Closed
    BY <2>3, <2>4, ResolutionStates DEF MaterializeDerivedHandle
  <2>5. ASSUME NEW k, NEW why \in ResolutionFailure, FailDerivedHandle(k, why)
        PROVE  Closed
    BY <2>3, <2>5, ResolutionStates DEF FailDerivedHandle
  <2>. QED
    BY <2>1, <2>2, <2>4, <2>5 DEF GraphNext
<1>. QED
  BY <1>1, GraphTypeCorrect, PTL DEF GraphSpec, DiscardCascades

(***************************************************************************)
(* Consumed events.                                                        *)
(***************************************************************************)
\* Records and consumed events account for each other.
THEOREM EventsAccounted == GraphSpec => []ConsumedAccounted
<1>1. GraphInit => ConsumedAccounted
  BY DEF GraphInit, ConsumedAccounted
<1>2. TypeOK /\ ConsumedAccounted /\ [GraphNext]_graphVars => ConsumedAccounted'
  <2> SUFFICES ASSUME TypeOK, ConsumedAccounted, [GraphNext]_graphVars
               PROVE  ConsumedAccounted'
    OBVIOUS
  <2>1. /\ \A k \in DOMAIN records : /\ k \in DOMAIN records'
                                   /\ records'[k].event_ref = records[k].event_ref
        /\ OneNewRecord
    BY GraphStep, KeptFields DEF RecordsKept, TypeOK
  <2>2. ASSUME NEW e \in ChainEvents, ApplyChainEvent(e) PROVE ConsumedAccounted'
    <3>1. /\ DOMAIN records' = DOMAIN records \cup {e.handle_key}
          /\ e.handle_key \notin DOMAIN records =>
               records'[e.handle_key] = NewRecord(records, e)
      BY <2>2, RecordsAfterFacts DEF ApplyChainEvent
    <3>2. NewRecord(records, e).event_ref = e.event_ref
      BY NewRecordFacts
    <3>3. consumed_events' = consumed_events \cup {e.event_ref}
      BY <2>2 DEF ApplyChainEvent
    <3>4. \A k \in DOMAIN records' : records'[k].event_ref \in consumed_events'
      BY <2>1, <3>1, <3>2, <3>3 DEF ConsumedAccounted
    <3>5. ASSUME NEW g \in ChainEvents, g.event_ref \in consumed_events'
          PROVE  \E f \in ChainEvents : /\ f.event_ref = g.event_ref
                                        /\ f.handle_key \in DOMAIN records'
      BY <3>1, <3>3, <3>5 DEF ConsumedAccounted
    <3>. QED
      BY <3>4, <3>5 DEF ConsumedAccounted
  <2>3. ASSUME DOMAIN records' = DOMAIN records, consumed_events' = consumed_events
        PROVE  ConsumedAccounted'
    BY <2>1, <2>3 DEF ConsumedAccounted
  <2>4. ASSUME NEW refs, ApplyOrphanDiscard(refs) PROVE ConsumedAccounted'
    BY <2>3, <2>4, DiscardStep DEF ApplyOrphanDiscard
  <2>5. ASSUME NEW k, NEW c, MaterializeDerivedHandle(k, c) PROVE ConsumedAccounted'
    BY <2>3, <2>5 DEF MaterializeDerivedHandle, WithState
  <2>6. ASSUME NEW k, NEW why, FailDerivedHandle(k, why) PROVE ConsumedAccounted'
    BY <2>3, <2>6 DEF FailDerivedHandle, WithState
  <2>7. CASE UNCHANGED graphVars
    BY <2>3, <2>7 DEF graphVars
  <2>. QED
    BY <2>2, <2>4, <2>5, <2>6, <2>7 DEF GraphNext
<1>. QED
  BY <1>1, <1>2, GraphTypeCorrect, PTL DEF GraphSpec

\* No accepted Derived Handle waits for itself.
THEOREM LineageIsAcyclic == GraphSpec => []AcyclicLineage
BY LineageCorrect, PTL

(***************************************************************************)
(* Discards take no more than they must.  What is left of the closure      *)
(* without an unsupported set would be closed itself, and smaller.         *)
(***************************************************************************)
LEMMA NoSelfSupport ==
  ASSUME NEW recs, NEW T \in SUBSET DOMAIN recs,
         NEW S \in SUBSET (Cascade(recs, T) \ T), S # {}
  PROVE  \E k \in S : Inputs(recs[k]) \cap (Cascade(recs, T) \ S) # {}
<1> DEFINE after == Cascade(recs, T)
           rest  == after \ S
<1>1. SUFFICES ASSUME \A k \in S : Inputs(recs[k]) \cap rest = {} PROVE FALSE
  OBVIOUS
<1>2. /\ T \subseteq after
      /\ after \subseteq DOMAIN recs
      /\ CascadeClosed(recs, after)
      /\ \A U \in SUBSET DOMAIN recs :
           T \subseteq U /\ CascadeClosed(recs, U) => after \subseteq U
  BY CascadeIsLeastClosed
<1>3. CascadeClosed(recs, rest)
  BY <1>1, <1>2 DEF CascadeClosed, Dependents
<1>4. after \subseteq rest
  BY <1>2, <1>3
<1>. QED
  BY <1>4

\* In no graph would a discard tombstone a record without a cause.
THEOREM DiscardsAreGrounded == GraphSpec => []DiscardIsGrounded
<1>1. DiscardIsGrounded
  <2> SUFFICES ASSUME NEW refs,
                      NEW S \in SUBSET (TombstonesAfter(records, refs)
                                         \ (Tombstoned(records) \cup DirectlyTombstoned(records, refs))),
                      S # {}
               PROVE  \E k \in S :
                        Inputs(records[k]) \cap (TombstonesAfter(records, refs) \ S) # {}
    BY DEF DiscardIsGrounded
  <2> DEFINE T == Tombstoned(records) \cup DirectlyTombstoned(records, refs)
  <2>1. T \in SUBSET DOMAIN records
    BY DEF Tombstoned, DirectlyTombstoned, Canonical
  <2>2. TombstonesAfter(records, refs) = Cascade(records, T)
    BY DEF TombstonesAfter
  <2>. QED
    BY <2>1, <2>2, NoSelfSupport
<1>. QED
  BY <1>1, PTL
=============================================================================
