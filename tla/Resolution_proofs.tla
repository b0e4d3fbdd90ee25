-------------------------- MODULE Resolution_proofs -------------------------
(***************************************************************************)
(* Safety of resolution, for any driver, any chain and any max_attempts.   *)
(* The argument: a task's snapshot can only grow stale together with its   *)
(* output handle, because nothing changes the ciphertext of a Ready record *)
(* and a discard of an input takes its dependents with it.                 *)
(***************************************************************************)
EXTENDS Resolution, HandleGraph_proofs

(***************************************************************************)
(* The view of a Coordinator.  The Handle Graph Core implements the view a *)
(* Coordinator is promised, for any chain, any discards and any results:   *)
(* each operation maps to one step of CoordinatorView or to none.          *)
(***************************************************************************)
\* What the host does to the graph, in one formula.
GraphOperation ==
  \/ \E e \in ChainEvents : ApplyChainEvent(e)
  \/ \E refs : ApplyOrphanDiscard(refs)
  \/ \E k, c : MaterializeDerivedHandle(k, c)
  \/ \E k : \E why \in ResolutionFailure : FailDerivedHandle(k, why)
  \/ UNCHANGED graphVars

\* The view and the withdrawn keys of the refinement.
view == [k \in HandleKey |-> HandleStateView(records, k)]
withdrawn == Tombstoned(records)
viewVars == <<view, withdrawn>>

\* A key reads unknown exactly when it has no canonical record.
LEMMA UnknownIsNotCanonical ==
  ASSUME NEW recs, NEW k
  PROVE  HandleStateView(recs, k) = View!Unknown <=> k \notin Canonical(recs)
BY DEF HandleStateView, ProjectState, View!Unknown

\* The categories of what ingestion refuses and of what resolution reports.
LEMMA Categories ==
  /\ \A why \in IngestionFailure : FailureCategory(why) \in View!RefusalCategory
  /\ \A why \in ResolutionFailure : FailureCategory(why) \in View!ResolutionCategory
BY DEF FailureCategory, IngestionFailure, ResolutionFailure, View!RefusalCategory,
       View!ResolutionCategory

\* A record that stays as it is keeps its view.
LEMMA SameRecordSameView ==
  ASSUME NEW j, j \in DOMAIN records' <=> j \in DOMAIN records,
         j \in DOMAIN records => records'[j] = records[j]
  PROVE  /\ HandleStateView(records', j) = HandleStateView(records, j)
         /\ j \in withdrawn' <=> j \in withdrawn
BY DEF HandleStateView, Canonical, withdrawn, Tombstoned

\* An event announces the handle it names, if its key was never named.
LEMMA IngestAnnounces ==
  ASSUME TypeOK, NEW e \in ChainEvents, ApplyChainEvent(e)
  PROVE  [View!Next]_viewVars
<1> DEFINE k == e.handle_key
<1>1. CASE k \in DOMAIN records
  BY <1>1 DEF ApplyChainEvent, RecordsAfter, viewVars, view, withdrawn
<1>2. CASE k \notin DOMAIN records
  <2>1. /\ k \in HandleKey
        /\ DOMAIN records' = DOMAIN records \cup {k}
        /\ records'[k] = NewRecord(records, e)
        /\ \A j \in DOMAIN records : records'[j] = records[j]
    BY <1>2, NewRecordFacts DEF ApplyChainEvent, RecordsAfter, Put
  <2>2. ~records'[k].is_tombstoned
    BY <2>1 DEF NewRecord
  <2>3. \A j : j # k => /\ HandleStateView(records', j) = HandleStateView(records, j)
                        /\ j \in withdrawn' <=> j \in withdrawn
    BY <2>1, SameRecordSameView
  <2>4. k \notin withdrawn /\ UNCHANGED withdrawn
    BY <1>2, <2>1, <2>2, <2>3 DEF withdrawn, Tombstoned
  <2>5. view[k] = View!Unknown
    BY <1>2, <2>1, UnknownIsNotCanonical DEF view, Canonical
  <2>6. view' = [view EXCEPT ![k] = view'[k]]
    BY <2>1, <2>3 DEF view
  <2>7. view'[k] = ProjectState(records'[k].state)
    BY <2>1, <2>2 DEF view, HandleStateView, Canonical
  <2>8. \/ view'[k] = View!Pending
        \/ view'[k].tag = "Ready"
        \/ \E category \in View!RefusalCategory : view'[k] = View!Failed(category)
    <3>1. \/ records'[k].state.tag = "Ready"
          \/ records'[k].state = DerivedState(records, e)
      <4>1. CASE e.kind = "ImportedHandle"
        BY <2>1, <4>1 DEF NewRecord, Ready
      <4>2. CASE e.kind = "PlaintextHandle"
        BY <2>1, <4>2 DEF NewRecord, Ready
      <4>3. CASE e.kind = "DerivedHandleOperation"
        BY <2>1, <4>3 DEF NewRecord
      <4>. QED
        BY <4>1, <4>2, <4>3, ChainEventsAssumption
           DEF ImportedHandle, PlaintextHandle, DerivedHandleOperation
    <3>2. CASE records'[k].state.tag = "Ready"
      BY <2>7, <3>2 DEF ProjectState
    <3>3. CASE records'[k].state = Pending
      BY <2>7, <3>3 DEF ProjectState, Pending, View!Pending
    <3>4. ASSUME NEW why \in IngestionFailure, records'[k].state = Failed(why)
          PROVE  \E category \in View!RefusalCategory : view'[k] = View!Failed(category)
      <4>1. view'[k] = View!Failed(FailureCategory(why))
        BY <2>7, <3>4 DEF ProjectState, Failed, View!Failed
      <4>. QED
        BY <4>1, Categories
    <3>. QED
      BY <3>1, <3>2, <3>3, <3>4, DerivedStateCases
  <2>9. View!Announce(k)
    BY <2>4, <2>5, <2>6, <2>8 DEF View!Announce, View!OnlyViewOf, view, withdrawn
  <2>. QED
    BY <2>1, <2>9 DEF View!Next
<1>. QED
  BY <1>1, <1>2

\* A discard withdraws what it tombstones.
LEMMA DiscardWithdraws ==
  ASSUME TypeOK, NEW refs, ApplyOrphanDiscard(refs)
  PROVE  View!Withdraw
<1>1. /\ RecordsKept
      /\ DOMAIN records' = DOMAIN records
      /\ DOMAIN records \subseteq HandleKey
      /\ \A k \in DOMAIN records : records'[k].state = records[k].state
      /\ \A k \in DOMAIN records : records[k].is_tombstoned => records'[k].is_tombstoned
  BY DiscardStep DEF TypeOK, RecordsKept, RecordKept
<1> DEFINE keys == withdrawn' \ withdrawn
<1>2. withdrawn \subseteq withdrawn'
  BY <1>1 DEF withdrawn, Tombstoned
<1>3. \A k \in keys : k \in Canonical(records) /\ k \in HandleKey
  BY <1>1 DEF withdrawn, Tombstoned, Canonical
<1>4. \A k \in keys : view[k] # View!Unknown
  BY <1>3, UnknownIsNotCanonical DEF view
<1>5. ASSUME NEW k \in HandleKey
      PROVE  HandleStateView(records', k) =
               IF k \in keys THEN View!Unknown ELSE HandleStateView(records, k)
  <2>1. CASE k \in keys
    BY <2>1 DEF HandleStateView, Canonical, withdrawn, Tombstoned, View!Unknown
  <2>2. CASE k \notin keys
    <3>1. k \in Canonical(records') <=> k \in Canonical(records)
      BY <1>1, <2>2 DEF Canonical, withdrawn, Tombstoned
    <3>. QED
      BY <1>1, <2>2, <3>1 DEF HandleStateView, Canonical
  <2>. QED
    BY <2>1, <2>2
<1>6. view' = [k \in HandleKey |-> IF k \in keys THEN View!Unknown ELSE view[k]]
  BY <1>5 DEF view
<1>. QED
  BY <1>2, <1>4, <1>6 DEF View!Withdraw, view, withdrawn

\* A result settles its handle.
LEMMA ResultSettles ==
  ASSUME TypeOK, NEW k, NEW s, Resolvable(records, k), records' = WithState(records, k, s),
         \/ s.tag = "Ready"
         \/ \E why \in ResolutionFailure : s = Failed(why)
  PROVE  k \in HandleKey /\ View!Settle(k)
<1>1. /\ k \in DOMAIN records
      /\ k \in HandleKey
      /\ IsHandleRecord(records[k])
      /\ ~records[k].is_tombstoned
      /\ records[k].state = Pending
  BY DEF Resolvable, TypeOK
<1>2. /\ DOMAIN records' = DOMAIN records
      /\ \A j \in DOMAIN records : j # k => records'[j] = records[j]
      /\ records'[k] = [records[k] EXCEPT !.state = s]
  BY <1>1 DEF WithState
<1>3. records'[k].state = s /\ ~records'[k].is_tombstoned
  BY <1>1, <1>2 DEF IsHandleRecord
<1>4. \A j : j # k => /\ HandleStateView(records', j) = HandleStateView(records, j)
                      /\ j \in withdrawn' <=> j \in withdrawn
  BY <1>2, SameRecordSameView
<1>5. UNCHANGED withdrawn
  BY <1>1, <1>2, <1>3, <1>4 DEF withdrawn, Tombstoned
<1>6. view[k] = View!Pending
  BY <1>1 DEF view, HandleStateView, Canonical, ProjectState, Pending, View!Pending
<1>7. view' = [view EXCEPT ![k] = view'[k]]
  BY <1>1, <1>4 DEF view
<1>8. view'[k] = ProjectState(s)
  BY <1>1, <1>2, <1>3 DEF view, HandleStateView, Canonical
<1>9. \/ view'[k].tag = "Ready"
      \/ \E category \in View!ResolutionCategory : view'[k] = View!Failed(category)
  <2>1. CASE s.tag = "Ready"
    BY <1>8, <2>1 DEF ProjectState
  <2>2. ASSUME NEW why \in ResolutionFailure, s = Failed(why)
        PROVE  \E category \in View!ResolutionCategory : view'[k] = View!Failed(category)
    <3>1. view'[k] = View!Failed(FailureCategory(why))
      BY <1>8, <2>2 DEF ProjectState, Failed, View!Failed
    <3>. QED
      BY <3>1, Categories
  <2>. QED
    BY <2>1, <2>2
<1>. QED
  BY <1>1, <1>5, <1>6, <1>7, <1>9 DEF View!Settle, View!OnlyViewOf, view, withdrawn

\* Every operation is a step of the view or none.
LEMMA ViewStep ==
  ASSUME TypeOK, GraphOperation
  PROVE  [View!Next]_viewVars
<1>1. ASSUME NEW refs, ApplyOrphanDiscard(refs) PROVE View!Next
  BY <1>1, DiscardWithdraws DEF View!Next
<1>2. ASSUME NEW k, NEW c, MaterializeDerivedHandle(k, c) PROVE View!Next
  BY <1>2, ResultSettles DEF MaterializeDerivedHandle, Ready, View!Next
<1>3. ASSUME NEW k, NEW why \in ResolutionFailure, FailDerivedHandle(k, why)
      PROVE  View!Next
  BY <1>3, ResultSettles DEF FailDerivedHandle, View!Next
<1>4. CASE UNCHANGED graphVars
  BY <1>4 DEF graphVars, viewVars, view, withdrawn
<1>. QED
  BY <1>1, <1>2, <1>3, <1>4, IngestAnnounces DEF GraphOperation

\* In the beginning every key is unknown and none withdrawn.
LEMMA ViewInit == GraphInit => View!Init
BY DEF GraphInit, View!Init, View!Unknown, HandleStateView, Canonical, Tombstoned

\* The core implements what a Coordinator is promised, whatever its callers do.
THEOREM GraphImplementsView == GraphSpec => ImplementsView
<1>1. TypeOK /\ [GraphNext]_graphVars => [View!Next]_viewVars
  <2> SUFFICES ASSUME TypeOK, [GraphNext]_graphVars PROVE [View!Next]_viewVars
    OBVIOUS
  <2>1. GraphOperation
    BY DEF GraphNext, GraphOperation
  <2>. QED
    BY <2>1, ViewStep
<1>. QED
  BY <1>1, ViewInit, GraphTypeCorrect, PTL
     DEF GraphSpec, ImplementsView, View!Spec, viewVars, view, withdrawn

(***************************************************************************)
(* What an operation of the graph keeps.                                   *)
(***************************************************************************)
\* A record that is still canonical has lost none of its canonical inputs.
InputsFollow ==
  \A j \in DOMAIN records :
    ~records'[j].is_tombstoned =>
      \A i \in Inputs(records[j]) \cap DOMAIN records :
        records'[i].is_tombstoned => records[i].is_tombstoned

\* Results change no tombstone.
LEMMA ResultFollows ==
  ASSUME TypeOK, NEW k, NEW s, Resolvable(records, k), records' = WithState(records, k, s)
  PROVE  InputsFollow
<1>1. k \in DOMAIN records /\ IsHandleRecord(records[k])
  BY DEF Resolvable, TypeOK
<1>2. /\ \A j \in DOMAIN records : j # k => records'[j] = records[j]
      /\ records'[k] = [records[k] EXCEPT !.state = s]
  BY <1>1 DEF WithState
<1>3. records'[k].is_tombstoned = records[k].is_tombstoned
  BY <1>1, <1>2 DEF IsHandleRecord
<1>. QED
  BY <1>2, <1>3 DEF InputsFollow

\* A discard tombstones the dependents of what it tombstones.
LEMMA DiscardFollows ==
  ASSUME TypeOK, NEW refs, ApplyOrphanDiscard(refs)
  PROVE  InputsFollow
<1>1. /\ DOMAIN records' = DOMAIN records
      /\ CascadeClosed(records', Tombstoned(records'))
  BY DiscardedFacts DEF TypeOK, ApplyOrphanDiscard
<1>2. ASSUME NEW j \in DOMAIN records PROVE Inputs(records'[j]) = Inputs(records[j])
  BY DiscardStep, KeptFields DEF RecordsKept, TypeOK
<1>3. ASSUME NEW j \in DOMAIN records, ~records'[j].is_tombstoned,
             NEW i \in Inputs(records[j]) \cap DOMAIN records
      PROVE  ~records'[i].is_tombstoned
  BY <1>1, <1>2, <1>3 DEF CascadeClosed, Dependents, Tombstoned
<1>. QED
  BY <1>3 DEF InputsFollow

\* All four operations keep records, types and the tie of records to inputs.
LEMMA OperationFacts ==
  ASSUME TypeOK, GraphOperation
  PROVE  TypeOK' /\ RecordsKept /\ OneNewRecord /\ InputsFollow
<1>1. ASSUME NEW e \in ChainEvents, ApplyChainEvent(e)
      PROVE  TypeOK' /\ RecordsKept /\ OneNewRecord /\ InputsFollow
  <2>1. \A k \in DOMAIN records : records'[k] = records[k]
    BY <1>1 DEF ApplyChainEvent, RecordsAfter, Put
  <2>2. InputsFollow
    BY <2>1 DEF InputsFollow
  <2>. QED
    BY <1>1, <2>2, IngestKeepsType, IngestStep
<1>2. ASSUME NEW refs, ApplyOrphanDiscard(refs)
      PROVE  TypeOK' /\ RecordsKept /\ OneNewRecord /\ InputsFollow
  BY <1>2, DiscardKeepsType, DiscardStep, DiscardFollows DEF OneNewRecord
<1>3. ASSUME NEW k, NEW c, MaterializeDerivedHandle(k, c)
      PROVE  TypeOK' /\ RecordsKept /\ OneNewRecord /\ InputsFollow
  <2>1. IsHandleState(Ready(c)) /\ Ready(c).tag = "Ready"
    BY ResolutionStates DEF Ready
  <2>2. Resolvable(records, k) /\ records' = WithState(records, k, Ready(c))
    BY <1>3 DEF MaterializeDerivedHandle
  <2>3. RecordsKept /\ DOMAIN records' = DOMAIN records
    BY <2>1, <2>2, ResultStep
  <2>4. InputsFollow
    BY <2>2, ResultFollows
  <2>. QED
    BY <1>3, <2>3, <2>4, MaterializeKeepsType DEF OneNewRecord
<1>4. ASSUME NEW k, NEW why \in ResolutionFailure, FailDerivedHandle(k, why)
      PROVE  TypeOK' /\ RecordsKept /\ OneNewRecord /\ InputsFollow
  <2>1. IsHandleState(Failed(why))
    BY ResolutionStates
  <2>2. Resolvable(records, k) /\ records' = WithState(records, k, Failed(why))
    BY <1>4 DEF FailDerivedHandle
  <2>3. RecordsKept /\ DOMAIN records' = DOMAIN records
    BY <2>1, <2>2, ResultStep
  <2>4. InputsFollow
    BY <2>2, ResultFollows
  <2>. QED
    BY <1>4, <2>3, <2>4, FailKeepsType DEF OneNewRecord
<1>5. CASE UNCHANGED graphVars
  <2>1. TypeOK' /\ InputsFollow /\ OneNewRecord
    BY <1>5 DEF graphVars, TypeOK, InputsFollow, OneNewRecord
  <2>2. RecordsKept
    BY <1>5, UnchangedIsKept DEF graphVars, TypeOK, RecordsKept
  <2>. QED
    BY <2>1, <2>2
<1>. QED
  BY <1>1, <1>2, <1>3, <1>4, <1>5 DEF GraphOperation

(***************************************************************************)
(* Snapshots.                                                              *)
(***************************************************************************)
\* A record a normal read sees before and after an operation, and that was
\* Ready before, is Ready with the same ciphertext.
LEMMA ReadyStays ==
  ASSUME TypeOK, GraphOperation, NEW i \in CanonicalReady(records),
         ~records'[i].is_tombstoned
  PROVE  i \in CanonicalReady(records') /\ records'[i].state = records[i].state
<1>1. i \in DOMAIN records /\ records[i].state.tag = "Ready"
  BY DEF CanonicalReady, Canonical
<1>2. i \in DOMAIN records' /\ RecordKept(records[i], records'[i])
  BY <1>1, OperationFacts DEF RecordsKept
<1>3. records'[i].state = records[i].state
  BY <1>1, <1>2 DEF RecordKept, Pending
<1>. QED
  BY <1>1, <1>2, <1>3 DEF CanonicalReady, Canonical

\* A record that is canonical after an operation and whose inputs were all
\* Ready before has the same task after it.
LEMMA TaskStays ==
  ASSUME TypeOK, GraphOperation, NEW j \in DOMAIN records, IsDerived(records[j]),
         ~records'[j].is_tombstoned,
         Inputs(records[j]) \subseteq CanonicalReady(records)
  PROVE  /\ IsDerived(records'[j])
         /\ Inputs(records'[j]) \subseteq CanonicalReady(records')
         /\ ResolutionTask(records', j) = ResolutionTask(records, j)
<1>1. IsHandleRecord(records[j]) /\ RecordKept(records[j], records'[j])
  BY OperationFacts DEF RecordsKept, TypeOK
<1>2. /\ records'[j].lineage = records[j].lineage
      /\ records'[j].handle_type = records[j].handle_type
      /\ IsDerived(records'[j])
      /\ Inputs(records'[j]) = Inputs(records[j])
  BY <1>1, KeptFields
<1>3. ASSUME NEW i \in Inputs(records[j])
      PROVE  i \in CanonicalReady(records') /\ records'[i].state = records[i].state
  <2>1. i \in DOMAIN records /\ ~records[i].is_tombstoned
    BY DEF CanonicalReady, Canonical
  <2>2. ~records'[i].is_tombstoned
    BY <2>1, OperationFacts DEF InputsFollow
  <2>. QED
    BY <2>2, ReadyStays
<1>4. InputCiphertexts(records', records[j].lineage.input_handle_keys) =
        InputCiphertexts(records, records[j].lineage.input_handle_keys)
  BY <1>3 DEF InputCiphertexts, Inputs, LineageInputs, IsDerived
<1>. QED
  BY <1>2, <1>3, <1>4 DEF ResolutionTask

\* A handle that can still be resolved after an operation could be before,
\* if the chain had named it.
LEMMA StillResolvable ==
  ASSUME TypeOK, GraphOperation, NEW j \in DOMAIN records, Resolvable(records', j)
  PROVE  Resolvable(records, j)
<1>1. IsHandleRecord(records[j]) /\ RecordKept(records[j], records'[j])
  BY OperationFacts DEF RecordsKept, TypeOK
<1>2. IsDerived(records[j])
  BY <1>1, KeptFields DEF Resolvable
<1>3. ~records[j].is_tombstoned
  BY <1>1 DEF RecordKept, Resolvable
<1>4. records[j].state = Pending
  BY <1>1 DEF RecordKept, Resolvable, Pending, Failed
<1>. QED
  BY <1>2, <1>3, <1>4 DEF Resolvable

(***************************************************************************)
(* The invariant of the tasks and of what they produced.  It is inductive: *)
(* a result is bound only while the handle is Resolvable, and then the     *)
(* task it was computed from is the task the graph would build now.        *)
(***************************************************************************)
TaskInv ==
  /\ TypeOK
  /\ \A t \in tasks : IsTask(t)
  /\ SnapshotFresh
  /\ Provenance

\* Operations keep the tasks' records.
LEMMA TasksStay ==
  ASSUME TaskInv, GraphOperation, NEW t \in tasks
  PROVE  /\ IsTask(t)'
         /\ Resolvable(records', t.output_handle_key) =>
              /\ LineageInputs(records'[t.output_handle_key].lineage)
                   \subseteq CanonicalReady(records')
              /\ t = ResolutionTask(records', t.output_handle_key)
<1> DEFINE k == t.output_handle_key
<1>1. IsTask(t) /\ k \in DOMAIN records /\ IsHandleRecord(records[k])
  BY DEF TaskInv, IsTask, TypeOK
<1>2. k \in DOMAIN records' /\ RecordKept(records[k], records'[k])
  BY <1>1, OperationFacts DEF RecordsKept, TaskInv
<1>3. IsTask(t)'
  BY <1>1, <1>2, KeptFields DEF IsTask
<1>4. ASSUME Resolvable(records', k)
      PROVE  /\ LineageInputs(records'[k].lineage) \subseteq CanonicalReady(records')
             /\ t = ResolutionTask(records', k)
  <2>1. Resolvable(records, k)
    BY <1>1, <1>4, StillResolvable DEF TaskInv
  <2>2. /\ Inputs(records[k]) \subseteq CanonicalReady(records)
        /\ t = ResolutionTask(records, k)
    BY <2>1 DEF TaskInv, SnapshotFresh, Inputs
  <2>. QED
    BY <1>1, <1>4, <2>1, <2>2, TaskStays DEF TaskInv, Resolvable, Inputs
<1>. QED
  BY <1>3, <1>4

\* A Derived Handle that is Ready after an operation was Ready before, or the
\* operation bound its result.
LEMMA ReadyBefore ==
  ASSUME TypeOK, GraphOperation, NEW j \in CanonicalReady(records'), IsDerived(records'[j])
  PROVE  \/ j \in CanonicalReady(records) /\ records'[j].state = records[j].state
         \/ Resolvable(records, j)
<1>1. j \in DOMAIN records' /\ ~records'[j].is_tombstoned /\ records'[j].state.tag = "Ready"
  BY DEF CanonicalReady, Canonical
<1>2. CASE j \in DOMAIN records
  <2>1. IsHandleRecord(records[j]) /\ RecordKept(records[j], records'[j])
    BY <1>2, OperationFacts DEF RecordsKept, TypeOK
  <2>2. ~records[j].is_tombstoned /\ IsDerived(records[j])
    BY <1>1, <2>1, KeptFields DEF RecordKept
  <2>3. CASE records'[j].state = records[j].state
    BY <1>1, <1>2, <2>2, <2>3 DEF CanonicalReady, Canonical
  <2>4. CASE records'[j].state # records[j].state
    BY <1>2, <2>1, <2>2, <2>4 DEF RecordKept, Resolvable
  <2>. QED
    BY <2>3, <2>4
<1>3. CASE j \notin DOMAIN records
  <2>1. PICK e \in ChainEvents : j = e.handle_key /\ records'[j] = NewRecord(records, e)
    BY <1>1, <1>3, OperationFacts DEF OneNewRecord
  <2>2. records'[j].state = DerivedState(records, e)
    BY <2>1, NewRecordFacts
  <2>. QED
    BY <1>1, <2>2, DerivedStateCases DEF Pending, Failed
<1>. QED
  BY <1>2, <1>3

\* Operations that bind no result keep Provenance.
LEMMA ProvenanceStays ==
  ASSUME TaskInv, GraphOperation,
         NEW j \in CanonicalReady(records'), IsDerived(records'[j]),
         j \in CanonicalReady(records), records'[j].state = records[j].state
  PROVE  /\ Inputs(records'[j]) \subseteq CanonicalReady(records')
         /\ records'[j].state.system_ciphertext = Execute(ResolutionTask(records', j))
<1>1. j \in DOMAIN records /\ ~records'[j].is_tombstoned
  BY DEF CanonicalReady, Canonical
<1>2. IsDerived(records[j])
  BY <1>1, OperationFacts, KeptFields DEF TaskInv, RecordsKept, TypeOK
<1>3. /\ Inputs(records[j]) \subseteq CanonicalReady(records)
      /\ records[j].state.system_ciphertext = Execute(ResolutionTask(records, j))
  BY <1>2 DEF TaskInv, Provenance
<1>. QED
  BY <1>1, <1>2, <1>3, TaskStays DEF TaskInv

\* Only materialization makes a Pending handle Ready, and only its own.
LEMMA OnlyMaterialization ==
  ASSUME TypeOK, NEW j, Resolvable(records, j),
         \/ \E e \in ChainEvents : ApplyChainEvent(e)
         \/ \E refs : ApplyOrphanDiscard(refs)
         \/ \E k, c : k # j /\ MaterializeDerivedHandle(k, c)
         \/ \E k : \E why \in ResolutionFailure : FailDerivedHandle(k, why)
         \/ UNCHANGED graphVars
  PROVE  records'[j].state.tag # "Ready"
<1>1. j \in DOMAIN records /\ records[j].state.tag = "Pending" /\ IsHandleRecord(records[j])
  BY DEF Resolvable, Pending, TypeOK
<1>2. ASSUME NEW e, ApplyChainEvent(e) PROVE records'[j].state.tag # "Ready"
  BY <1>1, <1>2 DEF ApplyChainEvent, RecordsAfter, Put
<1>3. ASSUME NEW refs, ApplyOrphanDiscard(refs) PROVE records'[j].state.tag # "Ready"
  BY <1>1, <1>3, DiscardStep
<1>4. ASSUME NEW k, NEW c, k # j, MaterializeDerivedHandle(k, c)
      PROVE  records'[j].state.tag # "Ready"
  BY <1>1, <1>4 DEF MaterializeDerivedHandle, WithState
<1>5. ASSUME NEW k, NEW why, FailDerivedHandle(k, why)
      PROVE  records'[j].state.tag # "Ready"
  <2>1. CASE k = j
    <3>1. records'[j] = [records[j] EXCEPT !.state = Failed(why)]
      BY <1>1, <1>5, <2>1 DEF FailDerivedHandle, WithState
    <3>2. records'[j].state = Failed(why)
      BY <1>1, <3>1 DEF IsHandleRecord
    <3>. QED
      BY <3>2 DEF Failed
  <2>2. CASE k # j
    BY <1>1, <1>5, <2>2 DEF FailDerivedHandle, WithState
  <2>. QED
    BY <2>1, <2>2
<1>6. CASE UNCHANGED graphVars
  BY <1>1, <1>6 DEF graphVars
<1>. QED
  BY <1>2, <1>3, <1>4, <1>5, <1>6

(***************************************************************************)
(* The steps of the host.                                                  *)
(***************************************************************************)
\* A step that binds no result and hands out no task.
LEMMA QuietStep ==
  ASSUME TaskInv, tasks' \subseteq tasks,
         \/ \E e \in ChainEvents : ApplyChainEvent(e)
         \/ \E refs : ApplyOrphanDiscard(refs)
         \/ \E k : \E why \in ResolutionFailure : FailDerivedHandle(k, why)
         \/ UNCHANGED graphVars
  PROVE  TaskInv'
<1>1. GraphOperation
  BY DEF GraphOperation
<1>2. TypeOK'
  BY <1>1, OperationFacts DEF TaskInv
<1>3. (\A t \in tasks : IsTask(t))' /\ SnapshotFresh'
  BY <1>1, TasksStay DEF SnapshotFresh
<1>4. Provenance'
  <2>1. ASSUME NEW j \in CanonicalReady(records'), IsDerived(records'[j])
        PROVE  j \in CanonicalReady(records) /\ records'[j].state = records[j].state
    BY <1>1, <2>1, ReadyBefore, OnlyMaterialization DEF TaskInv, CanonicalReady
  <2>. QED
    BY <1>1, <2>1, ProvenanceStays DEF Provenance
<1>. QED
  BY <1>2, <1>3, <1>4 DEF TaskInv

\* A result is bound: it was computed from what the inputs hold now.
LEMMA BindStep ==
  ASSUME TaskInv, tasks' \subseteq tasks, NEW task \in tasks,
         MaterializeDerivedHandle(task.output_handle_key, Execute(task))
  PROVE  TaskInv'
<1> DEFINE k == task.output_handle_key
<1>1. GraphOperation
  BY DEF GraphOperation
<1>2. TypeOK'
  BY <1>1, OperationFacts DEF TaskInv
<1>3. (\A t \in tasks : IsTask(t))' /\ SnapshotFresh'
  BY <1>1, TasksStay DEF SnapshotFresh
<1>4. /\ k \in DOMAIN records
      /\ IsHandleRecord(records[k])
      /\ IsDerived(records[k])
      /\ Inputs(records[k]) \subseteq CanonicalReady(records)
      /\ task = ResolutionTask(records, k)
  BY DEF MaterializeDerivedHandle, Resolvable, TaskInv, TypeOK, SnapshotFresh, Inputs
<1>5. /\ records'[k].state = Ready(Execute(task))
      /\ ~records'[k].is_tombstoned
  <2>1. records'[k] = [records[k] EXCEPT !.state = Ready(Execute(task))]
    BY <1>4 DEF MaterializeDerivedHandle, WithState
  <2>2. ~records[k].is_tombstoned
    BY DEF MaterializeDerivedHandle, Resolvable
  <2>. QED
    BY <1>4, <2>1, <2>2 DEF IsHandleRecord
<1>6. /\ Inputs(records'[k]) \subseteq CanonicalReady(records')
      /\ ResolutionTask(records', k) = task
  BY <1>1, <1>4, <1>5, TaskStays DEF TaskInv
<1>7. ASSUME NEW j \in CanonicalReady(records'), IsDerived(records'[j])
      PROVE  /\ Inputs(records'[j]) \subseteq CanonicalReady(records')
             /\ records'[j].state.system_ciphertext = Execute(ResolutionTask(records', j))
  <2>1. CASE j = k
    BY <1>5, <1>6, <2>1 DEF Ready
  <2>2. CASE j # k
    <3>1. j \in CanonicalReady(records) /\ records'[j].state = records[j].state
      BY <1>1, <1>7, <2>2, ReadyBefore, OnlyMaterialization DEF TaskInv, CanonicalReady
    <3>. QED
      BY <1>1, <1>7, <3>1, ProvenanceStays
  <2>. QED
    BY <2>1, <2>2
<1>. QED
  BY <1>2, <1>3, <1>7 DEF TaskInv, Provenance

\* A tick hands out tasks the graph would build, of ready handles.
LEMMA ClaimStep ==
  ASSUME TaskInv, ClaimResolutionTasks
  PROVE  TaskInv'
<1>1. ASSUME NEW k \in ReadyToResolve(records)
      PROVE  IsTask(ResolutionTask(records, k))
  <2>1. IsHandleRecord(records[k]) /\ IsDerived(records[k]) /\ k \in DOMAIN records
    BY DEF ReadyToResolve, Resolvable, TaskInv, TypeOK
  <2>2. records[k].lineage = Derived(records[k].lineage.operation_code,
                                     records[k].lineage.input_handle_keys)
    BY <2>1 DEF IsHandleRecord, IsLineage, IsDerived, Source
  <2>. QED
    BY <2>1, <2>2 DEF IsTask, ResolutionTask
<1>2. /\ UNCHANGED records
      /\ \A t \in tasks' : \/ t \in tasks
                           \/ \E k \in ReadyToResolve(records) : t = ResolutionTask(records, k)
  BY DEF ClaimResolutionTasks, graphVars
<1>3. (\A t \in tasks : IsTask(t))'
  BY <1>1, <1>2 DEF TaskInv, IsTask
<1>4. SnapshotFresh'
  <2>1. ASSUME NEW k \in ReadyToResolve(records)
        PROVE  /\ ResolutionTask(records, k).output_handle_key = k
               /\ LineageInputs(records[k].lineage) \subseteq CanonicalReady(records)
    BY DEF ResolutionTask, ReadyToResolve, Inputs
  <2>. QED
    BY <1>2, <2>1 DEF TaskInv, SnapshotFresh
<1>5. TypeOK' /\ Provenance'
  BY <1>2 DEF TaskInv, TypeOK, Provenance, ClaimResolutionTasks, graphVars
<1>. QED
  BY <1>3, <1>4, <1>5 DEF TaskInv

\* Every outcome of resolve_claimed_task.
LEMMA ResolveStep ==
  ASSUME TaskInv, NEW task \in tasks, ResolveClaimedTask(task), tasks' \subseteq tasks
  PROVE  TaskInv'
<1> DEFINE k == task.output_handle_key
<1>1. ASSUME NEW why \in ResolutionFailure, TerminalFailure(k, why) PROVE TaskInv'
  BY <1>1, QuietStep DEF TerminalFailure
<1>2. CASE BindResult(task)
  BY <1>1, <1>2, BindStep DEF BindResult, ResolutionFailure
<1>3. CASE \E why \in BackendFailure : TerminalFailure(k, why)
  BY <1>1, <1>3 DEF BackendFailure, ResolutionFailure
<1>4. ASSUME NEW why \in BackendFailure, RetryableFailure(k, why) PROVE TaskInv'
  BY <1>1, <1>4, QuietStep DEF RetryableFailure, BackendFailure, ResolutionFailure
<1>. QED
  BY <1>2, <1>3, <1>4 DEF ResolveClaimedTask

\* TaskInv is inductive.
LEMMA TaskInvStep == TaskInv /\ [Next]_vars => TaskInv'
<1> SUFFICES ASSUME TaskInv, [Next]_vars PROVE TaskInv'
  OBVIOUS
<1>1. ASSUME NEW task \in tasks, ResolveAndDrop(task) \/ ResolveAndKeep(task)
      PROVE  TaskInv'
  BY <1>1, ResolveStep DEF ResolveAndDrop, ResolveAndKeep
<1>2. ASSUME NEW k, ReleaseResolutionTask(k) PROVE TaskInv'
  BY <1>2, QuietStep DEF ReleaseResolutionTask
<1>3. CASE ChainIngestion
  BY <1>3, QuietStep DEF ChainIngestion
<1>4. CASE Restart
  BY <1>4, QuietStep DEF Restart
<1>5. ASSUME NEW q \in RequestId, NEW k, ResolveHandle(q, k) PROVE TaskInv'
  BY <1>5, QuietStep DEF ResolveHandle
<1>6. CASE UNCHANGED vars
  BY <1>6, QuietStep DEF vars
<1>. QED
  BY <1>1, <1>2, <1>3, <1>4, <1>5, <1>6, ClaimStep DEF Next

\* The tasks and the results bound from them are right in every state.
THEOREM TasksCorrect == Spec => []TaskInv
<1>1. Init => TaskInv
  BY DEF Init, GraphInit, TaskInv, TypeOK, SnapshotFresh, Provenance,
         CanonicalReady, Canonical
<1>. QED
  BY <1>1, TaskInvStep, PTL DEF Spec

\* What a normal read sees of a Ready Derived Handle was computed from what
\* it sees of the inputs.
THEOREM ProvenanceCorrect == Spec => []Provenance
BY TasksCorrect, PTL DEF TaskInv

\* The snapshot of a task whose result can still be bound is never stale.
THEOREM SnapshotsCorrect == Spec => []SnapshotFresh
BY TasksCorrect, PTL DEF TaskInv

(***************************************************************************)
(* The retry budget.  BudgetIsExact is inductive with the fact that a      *)
(* handle without a budget entry that may still be resolved was never      *)
(* retried: clear_budget is only called on handles that are settled.       *)
(***************************************************************************)
Unsettled(k) == k \in DOMAIN records => Resolvable(records, k)

BudgetInv ==
  /\ ClaimsTypeOK
  /\ BudgetIsExact
  /\ RetriesBounded
  /\ \A k \in HandleKey :
       k \notin DOMAIN retry_budgets /\ Unsettled(k) => retries[k] = 0

\* The first attempt is not charged to the budget.
LEMMA InitialBudgetType == InitialBudget \in Nat
BY MaxAttemptsAssumption DEF InitialBudget

\* What is unsettled after an operation was unsettled before it.
LEMMA UnsettledBefore ==
  ASSUME TypeOK, GraphOperation, NEW k, Unsettled(k)'
  PROVE  Unsettled(k)
<1>1. k \in DOMAIN records => k \in DOMAIN records'
  BY OperationFacts DEF RecordsKept
<1>. QED
  BY <1>1, StillResolvable DEF Unsettled

\* A terminal failure leaves nothing to resolve.
LEMMA FailureSettles ==
  ASSUME TypeOK, NEW k \in DOMAIN records, NEW why,
         \/ FailDerivedHandle(k, why)
         \/ ~Resolvable(records, k) /\ UNCHANGED graphVars
  PROVE  ~Resolvable(records', k)
<1>1. CASE FailDerivedHandle(k, why)
  <2>1. records'[k] = [records[k] EXCEPT !.state = Failed(why)]
    BY <1>1 DEF FailDerivedHandle, WithState
  <2>2. records'[k].state = Failed(why)
    BY <2>1 DEF TypeOK, IsHandleRecord
  <2>. QED
    BY <2>2 DEF Resolvable, Failed, Pending
<1>2. CASE ~Resolvable(records, k) /\ UNCHANGED graphVars
  BY <1>2 DEF graphVars
<1>. QED
  BY <1>1, <1>2

\* So does a result.
LEMMA MaterializationSettles ==
  ASSUME TypeOK, NEW k, NEW c, MaterializeDerivedHandle(k, c)
  PROVE  ~Resolvable(records', k)
<1>1. k \in DOMAIN records /\ IsHandleRecord(records[k])
  BY DEF MaterializeDerivedHandle, Resolvable, TypeOK
<1>2. records'[k] = [records[k] EXCEPT !.state = Ready(c)]
  BY <1>1 DEF MaterializeDerivedHandle, WithState
<1>3. records'[k].state = Ready(c)
  BY <1>1, <1>2 DEF IsHandleRecord
<1>. QED
  BY <1>3 DEF Resolvable, Ready, Pending

\* The claim and the budget of a settled key are given up together.
LEMMA SettleStep ==
  ASSUME TaskInv, BudgetInv, TaskInv', GraphOperation, tasks' \subseteq tasks,
         NEW k \in DOMAIN records, ~Resolvable(records', k),
         ClearBudget(k), Release(k), UNCHANGED retries
  PROVE  BudgetInv'
<1>1. ClaimsTypeOK' /\ RetriesBounded'
  BY DEF BudgetInv, ClaimsTypeOK, RetriesBounded, ClearBudget, Release, TaskInv,
         InitialBudget
<1>2. BudgetIsExact'
  <2>1. ASSUME NEW t \in tasks, Resolvable(records', t.output_handle_key)
        PROVE  t.output_handle_key \in DOMAIN retry_budgets'
    <3>1. t.output_handle_key \in DOMAIN records
      BY DEF TaskInv, IsTask
    <3>2. Resolvable(records, t.output_handle_key)
      BY <2>1, <3>1, StillResolvable DEF TaskInv
    <3>. QED
      BY <2>1, <3>2 DEF BudgetInv, BudgetIsExact, ClearBudget
  <2>. QED
    BY <2>1 DEF BudgetInv, BudgetIsExact, ClearBudget, Release, InitialBudget
<1>3. ASSUME NEW j \in HandleKey, j \notin DOMAIN retry_budgets', Unsettled(j)'
      PROVE  retries'[j] = 0
  <2>1. j # k
    <3>1. k \in DOMAIN records'
      BY OperationFacts DEF TaskInv, RecordsKept
    <3>. QED
      BY <1>3, <3>1 DEF Unsettled
  <2>2. Unsettled(j)
    BY <1>3, UnsettledBefore DEF TaskInv
  <2>. QED
    BY <1>3, <2>1, <2>2 DEF BudgetInv, ClearBudget
<1>. QED
  BY <1>1, <1>2, <1>3 DEF BudgetInv

\* A step of the graph that leaves claims and budgets alone, or only releases.
LEMMA UnbudgetedStep ==
  ASSUME TaskInv, BudgetInv, TaskInv', GraphOperation, tasks' \subseteq tasks,
         claimed_handle_keys' \subseteq claimed_handle_keys,
         UNCHANGED <<retry_budgets, retries>>
  PROVE  BudgetInv'
<1>1. ClaimsTypeOK' /\ RetriesBounded'
  BY DEF BudgetInv, ClaimsTypeOK, RetriesBounded, TaskInv, InitialBudget
<1>2. BudgetIsExact'
  <2>1. ASSUME NEW t \in tasks, Resolvable(records', t.output_handle_key)
        PROVE  Resolvable(records, t.output_handle_key)
    BY <2>1, StillResolvable DEF TaskInv, IsTask
  <2>. QED
    BY <2>1 DEF BudgetInv, BudgetIsExact, InitialBudget
<1>. QED
  BY <1>1, <1>2, UnsettledBefore DEF BudgetInv, TaskInv

\* A retry moves one attempt from the budget to the retries.
LEMMA RetryStep ==
  ASSUME TaskInv, BudgetInv, TaskInv', tasks' \subseteq tasks,
         NEW k \in HandleKey, RemainingBudget(k) > 0, ConsumeBudget(k), Release(k),
         retries' = [retries EXCEPT ![k] = @ + 1], UNCHANGED graphVars
  PROVE  BudgetInv'
<1>1. /\ k \in DOMAIN retry_budgets
      /\ retry_budgets[k] > 0
      /\ retry_budgets[k] \in Nat
      /\ retries[k] \in Nat
      /\ retry_budgets[k] + retries[k] = InitialBudget
      /\ InitialBudget \in Nat
  BY InitialBudgetType DEF RemainingBudget, BudgetInv, ClaimsTypeOK, BudgetIsExact
<1>2. /\ DOMAIN retry_budgets' = DOMAIN retry_budgets
      /\ retry_budgets'[k] = retry_budgets[k] - 1
      /\ \A j \in DOMAIN retry_budgets : j # k => retry_budgets'[j] = retry_budgets[j]
  BY <1>1 DEF ConsumeBudget
<1>3. /\ DOMAIN retries' = HandleKey
      /\ retries'[k] = retries[k] + 1
      /\ \A j \in HandleKey : j # k => retries'[j] = retries[j]
  BY DEF BudgetInv, ClaimsTypeOK
<1>4. InitialBudget' = InitialBudget
  BY DEF InitialBudget
<1>5. ClaimsTypeOK'
  <2>1. \A j \in DOMAIN retry_budgets : retry_budgets'[j] \in 0..InitialBudget
    BY <1>1, <1>2 DEF BudgetInv, ClaimsTypeOK
  <2>2. \A j \in HandleKey : retries'[j] \in Nat
    BY <1>1, <1>3 DEF BudgetInv, ClaimsTypeOK
  <2>. QED
    BY <1>2, <1>3, <1>4, <2>1, <2>2 DEF BudgetInv, ClaimsTypeOK, Release, TaskInv
<1>6. RetriesBounded'
  BY <1>1, <1>3, <1>4 DEF BudgetInv, RetriesBounded
<1>7. BudgetIsExact'
  <2>1. \A j \in DOMAIN retry_budgets' : retry_budgets'[j] + retries'[j] = InitialBudget
    BY <1>1, <1>2, <1>3 DEF BudgetInv, BudgetIsExact, ClaimsTypeOK
  <2>. QED
    BY <1>2, <1>4, <2>1 DEF BudgetInv, BudgetIsExact, Release, graphVars
<1>. QED
  BY <1>1, <1>2, <1>3, <1>5, <1>6, <1>7 DEF BudgetInv, Unsettled, graphVars

\* A new claim starts with the full budget, for a handle never retried.
LEMMA ClaimBudgetStep ==
  ASSUME TaskInv, BudgetInv, TaskInv', ClaimResolutionTasks
  PROVE  BudgetInv'
<1> DEFINE fresh == ReadyToResolve(records) \ claimed_handle_keys
<1>1. /\ \A k \in fresh : Resolvable(records, k)
      /\ fresh \subseteq HandleKey
  BY DEF ReadyToResolve, TaskInv, TypeOK
<1>2. /\ DOMAIN retry_budgets' = DOMAIN retry_budgets \cup fresh
      /\ \A k \in DOMAIN retry_budgets : retry_budgets'[k] = retry_budgets[k]
      /\ \A k \in fresh \ DOMAIN retry_budgets : retry_budgets'[k] = InitialBudget
      /\ claimed_handle_keys' = claimed_handle_keys \cup fresh
      /\ UNCHANGED <<records, retries>>
      /\ InitialBudget' = InitialBudget
  BY DEF ClaimResolutionTasks, BudgetsAfterClaim, graphVars, InitialBudget
<1>3. \A k \in fresh \ DOMAIN retry_budgets : retries[k] = 0
  BY <1>1 DEF BudgetInv, Unsettled
<1>4. ClaimsTypeOK' /\ RetriesBounded'
  BY <1>1, <1>2, InitialBudgetType DEF BudgetInv, ClaimsTypeOK, RetriesBounded, TaskInv
<1>5. BudgetIsExact'
  <2>1. ASSUME NEW t \in tasks', Resolvable(records, t.output_handle_key)
        PROVE  t.output_handle_key \in DOMAIN retry_budgets'
    <3>1. \/ t \in tasks
          \/ \E k \in fresh : t = ResolutionTask(records, k)
      BY DEF ClaimResolutionTasks
    <3>2. \A k : ResolutionTask(records, k).output_handle_key = k
      BY DEF ResolutionTask
    <3>. QED
      BY <1>2, <2>1, <3>1, <3>2 DEF BudgetInv, BudgetIsExact
  <2>2. \A k \in DOMAIN retry_budgets' : retry_budgets'[k] + retries[k] = InitialBudget
    BY <1>2, <1>3, InitialBudgetType DEF BudgetInv, BudgetIsExact
  <2>. QED
    BY <1>2, <2>1, <2>2 DEF BudgetInv, BudgetIsExact
<1>6. \A k \in HandleKey :
        k \notin DOMAIN retry_budgets' /\ Unsettled(k)' => retries'[k] = 0
  BY <1>2 DEF BudgetInv, Unsettled
<1>. QED
  BY <1>4, <1>5, <1>6 DEF BudgetInv

\* Every outcome of resolve_claimed_task.
LEMMA ResolveBudgetStep ==
  ASSUME TaskInv, BudgetInv, TaskInv', NEW task \in tasks, ResolveClaimedTask(task),
         tasks' \subseteq tasks
  PROVE  BudgetInv'
<1> DEFINE k == task.output_handle_key
<1>1. k \in DOMAIN records /\ k \in HandleKey
  BY DEF TaskInv, IsTask, TypeOK
<1>2. ASSUME NEW why \in ResolutionFailure, TerminalFailure(k, why) PROVE BudgetInv'
  <2>1. ~Resolvable(records', k)
    BY <1>1, <1>2, FailureSettles DEF TerminalFailure, TaskInv
  <2>2. GraphOperation
    BY <1>2 DEF TerminalFailure, GraphOperation
  <2>. QED
    BY <1>1, <1>2, <2>1, <2>2, SettleStep DEF TerminalFailure
<1>3. CASE BindResult(task)
  <2>1. CASE /\ MaterializeDerivedHandle(k, Execute(task))
             /\ ClearBudget(k)
             /\ Release(k)
             /\ UNCHANGED retries
    <3>1. ~Resolvable(records', k)
      BY <2>1, MaterializationSettles DEF TaskInv
    <3>2. GraphOperation
      BY <2>1 DEF GraphOperation
    <3>. QED
      BY <1>1, <2>1, <3>1, <3>2, SettleStep
  <2>2. CASE TerminalFailure(k, "MaterializationFailure")
    BY <1>2, <2>2 DEF ResolutionFailure
  <2>. QED
    BY <1>3, <2>1, <2>2 DEF BindResult
<1>4. CASE \E why \in BackendFailure : TerminalFailure(k, why)
  BY <1>2, <1>4 DEF BackendFailure, ResolutionFailure
<1>5. ASSUME NEW why \in BackendFailure, RetryableFailure(k, why) PROVE BudgetInv'
  <2>1. CASE RemainingBudget(k) = 0 /\ TerminalFailure(k, why)
    BY <1>2, <2>1 DEF BackendFailure, ResolutionFailure
  <2>2. CASE /\ RemainingBudget(k) > 0
             /\ ConsumeBudget(k)
             /\ Release(k)
             /\ retries' = [retries EXCEPT ![k] = @ + 1]
             /\ UNCHANGED graphVars
    BY <1>1, <2>2, RetryStep
  <2>. QED
    BY <1>5, <2>1, <2>2 DEF RetryableFailure
<1>. QED
  BY <1>3, <1>4, <1>5 DEF ResolveClaimedTask

\* BudgetInv is inductive, given TaskInv.
LEMMA BudgetInvStep == TaskInv /\ TaskInv' /\ BudgetInv /\ [Next]_vars => BudgetInv'
<1> SUFFICES ASSUME TaskInv, TaskInv', BudgetInv, [Next]_vars PROVE BudgetInv'
  OBVIOUS
<1>1. ASSUME NEW task \in tasks, ResolveAndDrop(task) \/ ResolveAndKeep(task)
      PROVE  BudgetInv'
  BY <1>1, ResolveBudgetStep DEF ResolveAndDrop, ResolveAndKeep
<1>2. ASSUME NEW k, ReleaseResolutionTask(k) PROVE BudgetInv'
  BY <1>2, UnbudgetedStep DEF ReleaseResolutionTask, Release, GraphOperation
<1>3. CASE ChainIngestion
  BY <1>3, UnbudgetedStep DEF ChainIngestion, GraphOperation, claimVars
<1>4. CASE Restart
  BY <1>4, InitialBudgetType
     DEF Restart, BudgetInv, ClaimsTypeOK, BudgetIsExact, RetriesBounded, TaskInv
<1>5. ASSUME NEW q \in RequestId, NEW k, ResolveHandle(q, k) PROVE BudgetInv'
  BY <1>5, UnbudgetedStep DEF ResolveHandle, GraphOperation, claimVars
<1>6. CASE UNCHANGED vars
  BY <1>6, UnbudgetedStep DEF vars, GraphOperation, claimVars
<1>. QED
  BY <1>1, <1>2, <1>3, <1>4, <1>5, <1>6, ClaimBudgetStep DEF Next

\* Budgets are exact in every state.
THEOREM BudgetsCorrect == Spec => []BudgetInv
<1>1. Init => BudgetInv
  BY InitialBudgetType
     DEF Init, GraphInit, BudgetInv, ClaimsTypeOK, TypeOK, BudgetIsExact, RetriesBounded
<1>. QED
  BY <1>1, BudgetInvStep, TasksCorrect, PTL DEF Spec

\* Every handle is given max_attempts attempts, no fewer and no more, however
\* often its claims are released or its tasks resolved again.
THEOREM RetriesCorrect == Spec => [](BudgetIsExact /\ RetriesBounded)
BY BudgetsCorrect, PTL DEF BudgetInv

(***************************************************************************)
(* What is left behind.                                                    *)
(***************************************************************************)
\* Ingestion changes the state of no record.
LEMMA IngestionKeepsStates ==
  ASSUME TypeOK, NEW j \in DOMAIN records,
         \/ \E e \in ChainEvents : ApplyChainEvent(e)
         \/ \E refs : ApplyOrphanDiscard(refs)
         \/ UNCHANGED graphVars
  PROVE  j \in DOMAIN records' /\ records'[j].state = records[j].state
<1>1. ASSUME NEW e, ApplyChainEvent(e)
      PROVE  j \in DOMAIN records' /\ records'[j].state = records[j].state
  BY <1>1 DEF ApplyChainEvent, RecordsAfter, Put
<1>2. ASSUME NEW refs, ApplyOrphanDiscard(refs)
      PROVE  j \in DOMAIN records' /\ records'[j].state = records[j].state
  BY <1>2, DiscardStep
<1>. QED
  BY <1>1, <1>2 DEF graphVars

\* A result changes the state of its own record only.
LEMMA OtherStates ==
  ASSUME TypeOK, NEW k, NEW j \in DOMAIN records, j # k,
         \/ \E c : MaterializeDerivedHandle(k, c)
         \/ \E why \in ResolutionFailure : FailDerivedHandle(k, why)
         \/ UNCHANGED graphVars
  PROVE  j \in DOMAIN records' /\ records'[j].state = records[j].state
BY DEF graphVars, MaterializeDerivedHandle, FailDerivedHandle, WithState

\* One key is settled and forgotten, the others stay as they are.
LEMMA ForgetStep ==
  ASSUME TypeOK, SettledIsForgotten, NEW k, ClearBudget(k), Release(k),
         \/ \E c : MaterializeDerivedHandle(k, c)
         \/ \E why \in ResolutionFailure : FailDerivedHandle(k, why)
         \/ UNCHANGED graphVars
  PROVE  SettledIsForgotten'
<1>1. SUFFICES ASSUME NEW j \in (DOMAIN retry_budgets \cup claimed_handle_keys) \ {k}
               PROVE  j \in DOMAIN records' /\ records'[j].state = Pending
  BY DEF SettledIsForgotten, ClearBudget, Release
<1>2. j \in DOMAIN records /\ records[j].state = Pending /\ j # k
  BY DEF SettledIsForgotten
<1>. QED
  BY <1>2, OtherStates

\* A step that adds no claim and no budget and settles nothing.
LEMMA KeepStep ==
  ASSUME TypeOK, SettledIsForgotten,
         DOMAIN retry_budgets' \subseteq DOMAIN retry_budgets,
         claimed_handle_keys' \subseteq claimed_handle_keys,
         \/ \E e \in ChainEvents : ApplyChainEvent(e)
         \/ \E refs : ApplyOrphanDiscard(refs)
         \/ UNCHANGED graphVars
  PROVE  SettledIsForgotten'
BY IngestionKeepsStates DEF SettledIsForgotten

\* Every outcome of resolve_claimed_task.
LEMMA ResolveForgets ==
  ASSUME TypeOK, SettledIsForgotten, NEW task, ResolveClaimedTask(task)
  PROVE  SettledIsForgotten'
<1> DEFINE k == task.output_handle_key
<1>1. ASSUME NEW why \in ResolutionFailure, TerminalFailure(k, why)
      PROVE  SettledIsForgotten'
  BY <1>1, ForgetStep DEF TerminalFailure
<1>2. CASE BindResult(task)
  <2>1. CASE MaterializeDerivedHandle(k, Execute(task)) /\ ClearBudget(k) /\ Release(k)
    BY <2>1, ForgetStep
  <2>. QED
    BY <1>1, <1>2, <2>1 DEF BindResult, ResolutionFailure
<1>3. ASSUME NEW why \in BackendFailure, RetryableFailure(k, why)
      PROVE  SettledIsForgotten'
  <2>1. CASE ConsumeBudget(k) /\ Release(k) /\ UNCHANGED graphVars
    BY <2>1, KeepStep DEF ConsumeBudget, Release
  <2>. QED
    BY <1>1, <1>3, <2>1 DEF RetryableFailure, BackendFailure, ResolutionFailure
<1>. QED
  BY <1>1, <1>2, <1>3 DEF ResolveClaimedTask, BackendFailure, ResolutionFailure

\* What is claimed anew is Pending.
LEMMA ClaimedArePending ==
  ASSUME SettledIsForgotten, ClaimResolutionTasks
  PROVE  SettledIsForgotten'
<1> DEFINE fresh == ReadyToResolve(records) \ claimed_handle_keys
<1>1. /\ DOMAIN retry_budgets' = DOMAIN retry_budgets \cup fresh
      /\ claimed_handle_keys' = claimed_handle_keys \cup fresh
      /\ UNCHANGED records
  BY DEF ClaimResolutionTasks, BudgetsAfterClaim, graphVars
<1>2. \A k \in fresh : k \in DOMAIN records /\ records[k].state = Pending
  BY DEF ReadyToResolve, Resolvable
<1>. QED
  BY <1>1, <1>2 DEF SettledIsForgotten

\* Neither a claim nor a budget outlives the resolution of its handle.
THEOREM SettledAreForgotten == Spec => []SettledIsForgotten
<1>1. Init => SettledIsForgotten
  BY DEF Init, SettledIsForgotten
<1>2. TaskInv /\ SettledIsForgotten /\ [Next]_vars => SettledIsForgotten'
  <2> SUFFICES ASSUME TypeOK, SettledIsForgotten, [Next]_vars PROVE SettledIsForgotten'
    BY DEF TaskInv
  <2>1. ASSUME NEW task, ResolveAndDrop(task) \/ ResolveAndKeep(task)
        PROVE  SettledIsForgotten'
    BY <2>1, ResolveForgets DEF ResolveAndDrop, ResolveAndKeep
  <2>2. ASSUME NEW k, ReleaseResolutionTask(k) PROVE SettledIsForgotten'
    BY <2>2, KeepStep DEF ReleaseResolutionTask, Release
  <2>3. CASE ChainIngestion
    BY <2>3, KeepStep DEF ChainIngestion, claimVars
  <2>4. CASE Restart
    BY <2>4 DEF Restart, SettledIsForgotten
  <2>5. ASSUME NEW q, NEW k, ResolveHandle(q, k) PROVE SettledIsForgotten'
    BY <2>5, KeepStep DEF ResolveHandle, claimVars
  <2>6. CASE UNCHANGED vars
    BY <2>6, KeepStep DEF vars, claimVars
  <2>. QED
    BY <2>1, <2>2, <2>3, <2>4, <2>5, <2>6, ClaimedArePending DEF Next
<1>. QED
  BY <1>1, <1>2, TasksCorrect, PTL DEF Spec

(***************************************************************************)
(* Intents.                                                                *)
(***************************************************************************)
\* A Derived Handle that passed validation never ceases to have done so.
LEMMA AcceptedStays ==
  ASSUME TypeOK, GraphOperation, NEW k \in DOMAIN records, Accepted(records[k])
  PROVE  k \in DOMAIN records' /\ Accepted(records'[k])
<1>1. /\ k \in DOMAIN records'
      /\ IsHandleRecord(records[k])
      /\ RecordKept(records[k], records'[k])
  BY OperationFacts DEF RecordsKept, TypeOK
<1>2. IsDerived(records'[k])
  BY <1>1, KeptFields DEF Accepted
<1>3. records'[k].state.tag = "Failed" => records'[k].state.reason \in ResolutionFailure
  <2>1. CASE records'[k].state = records[k].state
    BY <2>1 DEF Accepted
  <2>2. ASSUME NEW why \in ResolutionFailure, records'[k].state = Failed(why)
        PROVE  records'[k].state.reason \in ResolutionFailure
    BY <2>2 DEF Failed
  <2>. QED
    BY <1>1, <2>1, <2>2 DEF RecordKept
<1>. QED
  BY <1>1, <1>2, <1>3 DEF Accepted

IntentInv == IntentsTypeOK /\ IntentsAreOfAccepted

\* Attached requests stay with their records.
LEMMA IntentsStay ==
  ASSUME TypeOK, IntentInv, GraphOperation, UNCHANGED resolution_intents
  PROVE  IntentInv'
BY AcceptedStays DEF IntentInv, IntentsTypeOK, IntentsAreOfAccepted

\* A handle that is seen Pending is a Derived Handle that passed validation.
LEMMA AttachStep ==
  ASSUME TypeOK, IntentInv, NEW q \in RequestId, NEW k, ResolveHandle(q, k)
  PROVE  IntentInv'
<1>1. k \in DOMAIN records /\ records[k].state.tag = "Pending" /\ IsHandleRecord(records[k])
  <2>1. k \in Canonical(records) /\ ProjectState(records[k].state) = ProjectState(Pending)
    BY DEF ResolveHandle, HandleStateView, ProjectState, Pending
  <2>2. k \in DOMAIN records /\ IsHandleRecord(records[k])
    BY <2>1 DEF Canonical, TypeOK
  <2>3. records[k].state.tag \notin {"Ready", "Failed"}
    BY <2>1 DEF ProjectState, Pending
  <2>. QED
    BY <2>2, <2>3 DEF IsHandleRecord, IsHandleState, Pending, Failed
<1>2. Accepted(records[k])
  BY <1>1 DEF Accepted, IsHandleRecord
<1>3. /\ DOMAIN resolution_intents' = DOMAIN resolution_intents \cup {k}
      /\ resolution_intents'[k] = RequestsOf(k) \cup {q}
      /\ \A j \in DOMAIN resolution_intents :
           j # k => resolution_intents'[j] = resolution_intents[j]
      /\ UNCHANGED records
  BY DEF ResolveHandle, Attach, Put, graphVars
<1>4. RequestsOf(k) \subseteq RequestId
  BY DEF RequestsOf, IntentInv, IntentsTypeOK
<1>. QED
  BY <1>2, <1>1, <1>3, <1>4 DEF IntentInv, IntentsTypeOK, IntentsAreOfAccepted

\* A Coordinator's requests are only ever attached to Derived Handles the
\* host may have to resolve.
THEOREM IntentsCorrect == Spec => []IntentInv
<1>1. Init => IntentInv
  BY DEF Init, IntentInv, IntentsTypeOK, IntentsAreOfAccepted
<1>2. TaskInv /\ IntentInv /\ [Next]_vars => IntentInv'
  <2> SUFFICES ASSUME TypeOK, IntentInv, [Next]_vars PROVE IntentInv'
    BY DEF TaskInv
  <2>1. ASSUME NEW task, ResolveAndDrop(task) \/ ResolveAndKeep(task) PROVE IntentInv'
    <3>1. GraphOperation
      BY <2>1 DEF ResolveAndDrop, ResolveAndKeep, ResolveClaimedTask, BindResult,
                  TerminalFailure, RetryableFailure, GraphOperation, BackendFailure,
                  ResolutionFailure
    <3>. QED
      BY <2>1, <3>1, IntentsStay DEF ResolveAndDrop, ResolveAndKeep
  <2>2. CASE ClaimResolutionTasks
    BY <2>2, IntentsStay DEF ClaimResolutionTasks, GraphOperation
  <2>3. ASSUME NEW k, ReleaseResolutionTask(k) PROVE IntentInv'
    BY <2>3, IntentsStay DEF ReleaseResolutionTask, GraphOperation
  <2>4. CASE ChainIngestion
    BY <2>4, IntentsStay DEF ChainIngestion, GraphOperation
  <2>5. CASE Restart
    BY <2>5 DEF Restart, IntentInv, IntentsTypeOK, IntentsAreOfAccepted
  <2>6. CASE UNCHANGED vars
    BY <2>6, IntentsStay DEF vars, GraphOperation
  <2>. QED
    BY <2>1, <2>2, <2>3, <2>4, <2>5, <2>6, AttachStep DEF Next
<1>. QED
  BY <1>1, <1>2, TasksCorrect, PTL DEF Spec

\* Intents are only for Derived Handles that passed validation.
THEOREM IntentsOfAccepted == Spec => []IntentsAreOfAccepted
BY IntentsCorrect, PTL DEF IntentInv

\* The host's state is well formed, whatever the driver does.
THEOREM ResolutionTypeCorrect == Spec => []ResolutionTypeOK
BY BudgetsCorrect, IntentsCorrect, PTL DEF BudgetInv, IntentInv, ResolutionTypeOK

\* No handle is retried more often than the policy allows.
THEOREM RetriesNeverExceed == Spec => []RetriesBounded
BY RetriesCorrect, PTL

(***************************************************************************)
(* What a Coordinator sees of a host that resolves.                        *)
(***************************************************************************)
\* Every step of the host is an operation of the graph or leaves it alone.
LEMMA HostStep ==
  ASSUME [Next]_vars
  PROVE  GraphOperation
<1>1. ASSUME NEW task, ResolveAndDrop(task) \/ ResolveAndKeep(task) PROVE GraphOperation
  BY <1>1 DEF ResolveAndDrop, ResolveAndKeep, ResolveClaimedTask, BindResult,
              TerminalFailure, RetryableFailure, GraphOperation, BackendFailure,
              ResolutionFailure
<1>. QED
  BY <1>1 DEF Next, vars, GraphOperation, ClaimResolutionTasks, ReleaseResolutionTask,
              ResolveHandle, ChainIngestion, Restart

\* Claims, retries, late and repeated results, discards and restarts included,
\* a Coordinator sees each Handle announced, settled once and perhaps withdrawn.
THEOREM HostImplementsView == Spec => ImplementsView
<1>1. TaskInv /\ [Next]_vars => [View!Next]_viewVars
  BY HostStep, ViewStep DEF TaskInv
<1>2. Init => View!Init
  BY ViewInit DEF Init
<1>. QED
  BY <1>1, <1>2, TasksCorrect, PTL
     DEF Spec, ImplementsView, View!Spec, viewVars, view, withdrawn

(***************************************************************************)
(* The documented driver.                                                  *)
(***************************************************************************)
\* Ending the resolution of a key releases its claim, whatever the outcome.
LEMMA ResolutionReleases ==
  ASSUME NEW task, ResolveClaimedTask(task)
  PROVE  claimed_handle_keys' = claimed_handle_keys \ {task.output_handle_key}
BY DEF ResolveClaimedTask, BindResult, TerminalFailure, RetryableFailure, Release

\* With a driver that resolves every task once, claims and tasks are the same
\* keys: no two tasks compete, and no claim is left behind without a task.
THEOREM ClaimsMatchTasks == DrivenSpec => []ClaimsAreTasks
<1>1. Init => ClaimsAreTasks
  BY DEF Init, ClaimsAreTasks
<1>2. ClaimsAreTasks /\ [DrivenNext]_vars => ClaimsAreTasks'
  <2> SUFFICES ASSUME ClaimsAreTasks, [DrivenNext]_vars PROVE ClaimsAreTasks'
    OBVIOUS
  <2>1. CASE ClaimResolutionTasks
    <3> DEFINE fresh == ReadyToResolve(records) \ claimed_handle_keys
    <3>1. /\ claimed_handle_keys' = claimed_handle_keys \cup fresh
          /\ tasks' = tasks \cup {ResolutionTask(records, k) : k \in fresh}
      BY <2>1 DEF ClaimResolutionTasks
    <3>2. \A k : ResolutionTask(records, k).output_handle_key = k
      BY DEF ResolutionTask
    <3> HIDE DEF fresh
    <3>3. \A t \in tasks : t.output_handle_key \notin fresh
      BY DEF ClaimsAreTasks, fresh
    <3>4. claimed_handle_keys' = {t.output_handle_key : t \in tasks'}
      BY <3>1, <3>2 DEF ClaimsAreTasks
    <3>5. \A t, u \in tasks' : t.output_handle_key = u.output_handle_key => t = u
      BY <3>1, <3>2, <3>3 DEF ClaimsAreTasks
    <3>. QED
      BY <3>4, <3>5 DEF ClaimsAreTasks
  <2>2. ASSUME NEW k, ResolveTaskOf(k) PROVE ClaimsAreTasks'
    <3>1. PICK task \in tasks : ResolveAndDrop(task)
      BY <2>2 DEF ResolveTaskOf
    <3>2. /\ claimed_handle_keys' = claimed_handle_keys \ {task.output_handle_key}
          /\ tasks' = tasks \ {task}
      BY <3>1, ResolutionReleases DEF ResolveAndDrop
    <3>. QED
      BY <3>2 DEF ClaimsAreTasks
  <2>3. CASE ChainIngestion
    BY <2>3 DEF ChainIngestion, claimVars, ClaimsAreTasks
  <2>4. CASE UNCHANGED vars
    BY <2>4 DEF vars, claimVars, ClaimsAreTasks
  <2>. QED
    BY <2>1, <2>2, <2>3, <2>4 DEF DrivenNext
<1>. QED
  BY <1>1, <1>2, PTL DEF DrivenSpec
=============================================================================
