------------------------- MODULE OrphanCascade_proofs -----------------------
(***************************************************************************)
(* The loop of apply_orphan_discard implements the atomic discard of       *)
(* HandleGraph, for every lineage graph and every set of orphaned events.  *)
(***************************************************************************)
EXTENDS OrphanCascade, HandleGraph_proofs

(***************************************************************************)
(* mark_tombstoned.                                                        *)
(***************************************************************************)
\* Marking keeps the shape of the records and their lineage, and adds T to
\* the tombstones.
LEMMA MarkFacts ==
  ASSUME NEW recs, NEW T \in SUBSET DOMAIN recs,
         \A k \in DOMAIN recs : IsHandleRecord(recs[k])
  PROVE  /\ DOMAIN MarkTombstoned(recs, T) = DOMAIN recs
         /\ \A k \in DOMAIN recs : /\ IsHandleRecord(MarkTombstoned(recs, T)[k])
                                   /\ Inputs(MarkTombstoned(recs, T)[k]) = Inputs(recs[k])
         /\ Tombstoned(MarkTombstoned(recs, T)) = Tombstoned(recs) \cup T
<1> DEFINE new == MarkTombstoned(recs, T)
<1>1. DOMAIN new = DOMAIN recs
  BY DEF MarkTombstoned
<1>2. ASSUME NEW k \in DOMAIN recs
      PROVE  /\ IsHandleRecord(new[k])
             /\ Inputs(new[k]) = Inputs(recs[k])
             /\ new[k].is_tombstoned <=> recs[k].is_tombstoned \/ k \in T
  <2>1. IsHandleRecord(recs[k])
    OBVIOUS
  <2>2. CASE k \in T
    <3>1. new[k] = [recs[k] EXCEPT !.is_tombstoned = TRUE]
      BY <2>2 DEF MarkTombstoned
    <3>2. new[k] =
            [domain_id |-> recs[k].domain_id, handle_type |-> recs[k].handle_type,
             state |-> recs[k].state, event_ref |-> recs[k].event_ref,
             lineage |-> recs[k].lineage, is_tombstoned |-> TRUE]
      BY <2>1, <3>1 DEF IsHandleRecord
    <3>. QED
      BY <2>1, <2>2, <3>2 DEF IsHandleRecord, IsDerived, Inputs
  <2>3. CASE k \notin T
    BY <2>1, <2>3 DEF MarkTombstoned
  <2>. QED
    BY <2>2, <2>3
<1>. QED
  BY <1>1, <1>2 DEF Tombstoned

\* Marking twice is marking the union.
LEMMA MarkTwice ==
  ASSUME NEW recs, NEW S, NEW T
  PROVE  MarkTombstoned(MarkTombstoned(recs, S), T) = MarkTombstoned(recs, S \cup T)
BY DEF MarkTombstoned

\* Marking what is tombstoned already changes nothing.
LEMMA MarkTombstonedAgain ==
  ASSUME NEW recs, \A k \in DOMAIN recs : IsHandleRecord(recs[k]),
         recs = [k \in DOMAIN recs |-> recs[k]]
  PROVE  MarkTombstoned(recs, Tombstoned(recs)) = recs
<1>1. ASSUME NEW k \in Tombstoned(recs)
      PROVE  [recs[k] EXCEPT !.is_tombstoned = TRUE] = recs[k]
  <2>1. recs[k].is_tombstoned = TRUE /\ IsHandleRecord(recs[k])
    BY DEF Tombstoned, IsHandleRecord
  <2>. QED
    BY <2>1 DEF IsHandleRecord
<1>. QED
  BY <1>1 DEF MarkTombstoned

(***************************************************************************)
(* The loop invariant, with the types it needs.                            *)
(***************************************************************************)
CascadeInv ==
  /\ TypeOK
  /\ records = [k \in DOMAIN records |-> records[k]]
  /\ \A k \in DOMAIN before : IsHandleRecord(before[k])
  /\ LoopInv
  /\ OutcomeIsDelta

\* While the call runs, the lineage of records is that of before.
LEMMA LoopLineage ==
  ASSUME CascadeInv, pc = "cascade"
  PROVE  /\ DOMAIN records = DOMAIN before
         /\ \A k \in DOMAIN before : Inputs(records[k]) = Inputs(before[k])
<1>1. Tombstoned(records) \subseteq DOMAIN before
  BY DEF CascadeInv, LoopInv, Cascade
<1>. QED
  BY <1>1, MarkFacts DEF CascadeInv, LoopInv

\* The call marks the orphaned events' records, which starts the cascade.
LEMMA BeginKeepsInv ==
  ASSUME CascadeInv, NEW refs \in OrphanSignals, BeginDiscard(refs)
  PROVE  CascadeInv'
<1> DEFINE direct == DirectlyTombstoned(records, refs)
<1>1. /\ direct \subseteq DOMAIN records
      /\ direct \cap Tombstoned(records) = {}
      /\ \A k \in DOMAIN records : IsHandleRecord(records[k])
  BY DEF DirectlyTombstoned, Canonical, Tombstoned, CascadeInv, TypeOK
<1>2. /\ DOMAIN records' = DOMAIN records
      /\ \A k \in DOMAIN records : IsHandleRecord(records'[k])
      /\ Tombstoned(records') = Tombstoned(records) \cup direct
  BY <1>1, MarkFacts DEF BeginDiscard
<1>3. TypeOK'
  BY <1>2 DEF CascadeInv, TypeOK, BeginDiscard
<1>4. records' = [k \in DOMAIN records' |-> records'[k]]
  BY DEF BeginDiscard, MarkTombstoned
<1>5. CascadeStart' = Tombstoned(records) \cup direct
  BY DEF CascadeStart, BeginDiscard
<1>6. records' = MarkTombstoned(records, Tombstoned(records) \cup direct)
  <2>1. MarkTombstoned(records, Tombstoned(records)) = records
    BY <1>1, MarkTombstonedAgain DEF CascadeInv
  <2>. QED
    BY <2>1, MarkTwice DEF BeginDiscard
<1>7. CascadeStart' \subseteq Cascade(before, CascadeStart)'
  BY <1>1, <1>5, CascadeIsLeastClosed DEF BeginDiscard, Tombstoned
<1>8. LoopInv'
  BY <1>2, <1>5, <1>6, <1>7 DEF LoopInv, BeginDiscard
<1>9. OutcomeIsDelta'
  BY <1>1, <1>2 DEF OutcomeIsDelta, BeginDiscard
<1>. QED
  BY <1>1, <1>3, <1>4, <1>8, <1>9 DEF CascadeInv, BeginDiscard

\* A pass stays inside the least closed set, because that set is closed.
LEMMA PassKeepsInv ==
  ASSUME CascadeInv, CascadePass
  PROVE  CascadeInv'
<1> DEFINE T     == Tombstoned(records)
           newly == NewlyTombstoned(records)
<1>1. /\ newly \subseteq DOMAIN records
      /\ newly \cap T = {}
      /\ \A k \in DOMAIN records : IsHandleRecord(records[k])
  BY DEF NewlyTombstoned, Dependents, CascadeInv, TypeOK
<1>2. /\ DOMAIN records' = DOMAIN records
      /\ \A k \in DOMAIN records : IsHandleRecord(records'[k])
      /\ Tombstoned(records') = T \cup newly
  BY <1>1, MarkFacts DEF CascadePass
<1>3. TypeOK'
  BY <1>2 DEF CascadeInv, TypeOK, CascadePass
<1>4. records' = [k \in DOMAIN records' |-> records'[k]]
  BY DEF CascadePass, MarkTombstoned
<1>5. records' = MarkTombstoned(before, T \cup newly)
  BY MarkTwice DEF CascadePass, CascadeInv, LoopInv
<1>6. CascadeStart' = CascadeStart /\ Cascade(before, CascadeStart)' = Cascade(before, CascadeStart)
  BY DEF CascadePass, CascadeStart
<1>7. newly \subseteq Cascade(before, CascadeStart)
  <2> DEFINE C == Cascade(before, CascadeStart)
  <2>1. CascadeStart \in SUBSET DOMAIN before
    BY DEF CascadeStart, Tombstoned, DirectlyTombstoned, Canonical
  <2>2. CascadeClosed(before, C)
    BY <2>1, CascadeIsLeastClosed
  <2>3. newly \subseteq Dependents(before, T)
    BY LoopLineage DEF CascadePass, NewlyTombstoned, Dependents
  <2>4. T \subseteq C
    BY DEF CascadePass, CascadeInv, LoopInv
  <2>. QED
    BY <2>2, <2>3, <2>4 DEF CascadeClosed, Dependents
<1>8. LoopInv'
  BY <1>2, <1>5, <1>6, <1>7 DEF CascadeInv, LoopInv, CascadePass
<1>9. OutcomeIsDelta'
  <2>1. Tombstoned(before) \subseteq T
    BY DEF CascadePass, CascadeInv, LoopInv, CascadeStart
  <2>2. newly \cap (directly_tombstoned \cup cascade_tombstoned) = {}
    BY <1>1 DEF CascadePass, CascadeInv, OutcomeIsDelta
  <2>. QED
    BY <1>1, <1>2, <2>1, <2>2 DEF CascadePass, CascadeInv, OutcomeIsDelta
<1>. QED
  BY <1>3, <1>4, <1>8, <1>9 DEF CascadeInv, CascadePass

\* Between calls the core's other operations run.
LEMMA OtherKeepsInv ==
  ASSUME CascadeInv, OtherOperation
  PROVE  CascadeInv'
<1>1. TypeOK'
  BY IngestKeepsType, MaterializeKeepsType, FailKeepsType
     DEF CascadeInv, OtherOperation
<1>2. records' = [k \in DOMAIN records' |-> records'[k]]
  <2>1. ASSUME NEW e, ApplyChainEvent(e)
        PROVE  records' = [k \in DOMAIN records' |-> records'[k]]
    BY <2>1 DEF ApplyChainEvent, RecordsAfter, Put, CascadeInv
  <2>2. ASSUME NEW j, NEW s, records' = WithState(records, j, s)
        PROVE  records' = [k \in DOMAIN records' |-> records'[k]]
    BY <2>2 DEF WithState, CascadeInv
  <2>. QED
    BY <2>1, <2>2 DEF OtherOperation, MaterializeDerivedHandle, FailDerivedHandle
<1>3. LoopInv' /\ OutcomeIsDelta' /\ UNCHANGED before
  BY DEF OtherOperation, callVars, outcomeVars, LoopInv, OutcomeIsDelta
<1>. QED
  BY <1>1, <1>2, <1>3 DEF CascadeInv

\* The loop invariant holds throughout every call.
THEOREM CascadeInvariant == Spec => []CascadeInv
<1>1. Init => CascadeInv
  BY DEF Init, GraphInit, CascadeInv, TypeOK, LoopInv, OutcomeIsDelta
<1>2. CascadeInv /\ [Next]_vars => CascadeInv'
  <2> SUFFICES ASSUME CascadeInv, [Next]_vars PROVE CascadeInv'
    OBVIOUS
  <2>1. CASE EndDiscard
    BY <2>1 DEF EndDiscard, CascadeInv, TypeOK, LoopInv, OutcomeIsDelta, graphVars
  <2>2. CASE UNCHANGED vars
    BY <2>2 DEF vars, graphVars, callVars, outcomeVars, CascadeInv, TypeOK, LoopInv,
                OutcomeIsDelta, CascadeStart
  <2>. QED
    BY <2>1, <2>2, BeginKeepsInv, PassKeepsInv, OtherKeepsInv DEF Next
<1>. QED
  BY <1>1, <1>2, PTL DEF Spec

\* The outcome names exactly the records the call has flipped, each once.
THEOREM OutcomeCorrect == Spec => []OutcomeIsDelta
BY CascadeInvariant, PTL DEF CascadeInv

(***************************************************************************)
(* Refinement.                                                             *)
(***************************************************************************)
\* The loop only ends on a closed set of tombstones, and the least one is
\* the only closed set it can have reached.
LEMMA EndIsDiscard ==
  ASSUME CascadeInv, EndDiscard
  PROVE  orphaned \in OrphanSignals /\ records = Discarded(before, orphaned)
<1> DEFINE T == Tombstoned(records)
           C == Cascade(before, CascadeStart)
<1>1. /\ T \in SUBSET DOMAIN before
      /\ CascadeStart \in SUBSET DOMAIN before
  BY LoopLineage DEF EndDiscard, Tombstoned, CascadeStart, DirectlyTombstoned, Canonical
<1>2. CascadeClosed(before, T)
  BY LoopLineage DEF EndDiscard, NewlyTombstoned, CascadeClosed, Dependents
<1>3. C \subseteq T
  BY <1>1, <1>2, CascadeIsLeastClosed DEF EndDiscard, CascadeInv, LoopInv
<1>4. T = C /\ records = MarkTombstoned(before, T)
  BY <1>3 DEF EndDiscard, CascadeInv, LoopInv
<1>5. C = TombstonesAfter(before, orphaned)
  BY DEF TombstonesAfter, CascadeStart
<1>6. orphaned \in OrphanSignals
  BY DEF EndDiscard, CascadeInv, LoopInv
<1>. QED
  BY <1>4, <1>5, <1>6 DEF Discarded

\* The operators of the instance are those of HandleGraph.
LEMMA SameDiscard ==
  \A recs, refs : Atomic!Discarded(recs, refs) = Discarded(recs, refs)
BY DEF Discarded, Atomic!Discarded, TombstonesAfter, Atomic!TombstonesAfter,
       MarkTombstoned, Atomic!MarkTombstoned, Cascade, Atomic!Cascade,
       Tombstoned, Atomic!Tombstoned, DirectlyTombstoned,
       Atomic!DirectlyTombstoned, Canonical, Atomic!Canonical, CascadeClosed,
       Atomic!CascadeClosed, Dependents, Atomic!Dependents, Inputs, Atomic!Inputs,
       LineageInputs, Atomic!LineageInputs

LEMMA SameIngest ==
  \A recs, e : Atomic!RecordsAfter(recs, e) = RecordsAfter(recs, e)
BY DEF RecordsAfter, Atomic!RecordsAfter, Put, Atomic!Put, NewRecord,
       Atomic!NewRecord, DerivedState, Atomic!DerivedState, Ready, Atomic!Ready,
       Failed, Atomic!Failed, Pending, Atomic!Pending, Source, Atomic!Source,
       Derived, Atomic!Derived, InputTypes, Atomic!InputTypes,
       MaterializedPlaintext, Atomic!MaterializedPlaintext, ExpectedArity,
       Atomic!ExpectedArity, InputTypesOK, Atomic!InputTypesOK, OutputTypeOK,
       Atomic!OutputTypeOK

\* apply_orphan_discard, loop and all, implements the atomic discard of
\* HandleGraph: every theorem about GraphSpec holds of what callers see.
THEOREM CascadeRefinesAtomic == Spec => ImplementsAtomic
<1>1. Init => Atomic!GraphInit
  BY DEF Init, GraphInit, Atomic!GraphInit, Visible
<1>2. CascadeInv /\ [Next]_vars => [Atomic!GraphNext]_(Atomic!graphVars)
  <2> SUFFICES ASSUME CascadeInv, [Next]_vars
               PROVE  Atomic!GraphNext \/ UNCHANGED <<Visible, consumed_events, plaintext_key_id>>
    BY DEF Atomic!graphVars
  <2>1. ASSUME NEW refs \in OrphanSignals, BeginDiscard(refs)
        PROVE  UNCHANGED <<Visible, consumed_events, plaintext_key_id>>
    BY <2>1 DEF BeginDiscard, Visible
  <2>2. CASE CascadePass
    BY <2>2 DEF CascadePass, Visible
  <2>3. CASE EndDiscard
    <3>1. /\ Visible = before
          /\ Visible' = records
          /\ UNCHANGED <<consumed_events, plaintext_key_id>>
      BY <2>3 DEF EndDiscard, Visible, graphVars
    <3>2. Atomic!ApplyOrphanDiscard(orphaned)
      BY <2>3, <3>1, EndIsDiscard, SameDiscard DEF Atomic!ApplyOrphanDiscard
    <3>. QED
      BY <2>3, <3>2, EndIsDiscard DEF Atomic!GraphNext
  <2>4. CASE OtherOperation
    <3>1. Visible = records /\ Visible' = records'
      BY <2>4 DEF OtherOperation, callVars, Visible
    <3>2. ASSUME NEW e \in ChainEvents, ApplyChainEvent(e)
          PROVE  Atomic!ApplyChainEvent(e)
      BY <3>1, <3>2, SameIngest DEF ApplyChainEvent, Atomic!ApplyChainEvent
    <3>3. ASSUME NEW k \in HandleKey, NEW c \in SystemCiphertext,
                 MaterializeDerivedHandle(k, c)
          PROVE  Atomic!MaterializeDerivedHandle(k, c)
      BY <3>1, <3>3 DEF MaterializeDerivedHandle, Atomic!MaterializeDerivedHandle,
         Resolvable, Atomic!Resolvable, WithState, Atomic!WithState, IsDerived,
         Atomic!IsDerived, Pending, Atomic!Pending, Ready, Atomic!Ready
    <3>4. ASSUME NEW k \in HandleKey, NEW why \in ResolutionFailure,
                 FailDerivedHandle(k, why)
          PROVE  Atomic!FailDerivedHandle(k, why)
      BY <3>1, <3>4 DEF FailDerivedHandle, Atomic!FailDerivedHandle,
         Resolvable, Atomic!Resolvable, WithState, Atomic!WithState, IsDerived,
         Atomic!IsDerived, Pending, Atomic!Pending, Failed, Atomic!Failed
    <3>. QED
      BY <2>4, <3>2, <3>3, <3>4 DEF OtherOperation, Atomic!GraphNext,
         ResolutionFailure, Atomic!ResolutionFailure
  <2>5. CASE UNCHANGED vars
    BY <2>5 DEF vars, graphVars, callVars, Visible
  <2>. QED
    BY <2>1, <2>2, <2>3, <2>4, <2>5 DEF Next
<1>. QED
  BY <1>1, <1>2, CascadeInvariant, PTL DEF Spec, ImplementsAtomic, Atomic!GraphSpec
=============================================================================
