----------------------------- MODULE DurableGraph ---------------------------
(***************************************************************************)
(* The Handle Graph Core writing through HandlePersistence, with crashes   *)
(* (the _with_persistence methods of handle-graph-core).  An operation     *)
(* first changes the graph in memory and then writes what it changed to    *)
(* the store, one put_handle_record or record_consumed_event at a time; a  *)
(* crash between two writes loses the memory and the writes that are left, *)
(* and restore_from_persistence rebuilds the graph from the store.         *)
(*                                                                         *)
(* The methods are synchronous and hold &mut self: no other operation runs *)
(* until the last write of one is done.  A single write is atomic, which   *)
(* is what the trait asks of its implementations.                          *)
(***************************************************************************)
EXTENDS HandleGraph

\* A reference names chain, block, transaction and log (types.rs), and one log
\* is decoded to one event: events of one reference name the same key.
ASSUME EventRefsAssumption ==
  \A e, f \in ChainEvents : e.event_ref = f.event_ref => e.handle_key = f.handle_key

VARIABLES
  durable_records,    \* what the store holds
  durable_consumed,
  pending_direct,     \* the records the running operation still has to put:
  pending_cascade,    \* those of a cascade come after all others
  pending_event       \* the event it then has to record as consumed

storeVars   == <<durable_records, durable_consumed>>
pendingVars == <<pending_direct, pending_cascade, pending_event>>
vars == <<graphVars, storeVars, pendingVars>>

Idle == pending_direct = {} /\ pending_cascade = {} /\ pending_event = {}

(***************************************************************************)
(* Operations.                                                             *)
(***************************************************************************)
\* Mutant: a record that is Ready from the start is not written.
RecordToPutIfDerived(e) ==
  IF e.kind = "DerivedHandleOperation" THEN {e.handle_key} \ DOMAIN records ELSE {}

RecordToPut(e) == {e.handle_key} \ DOMAIN records

\* apply_chain_event_with_persistence: a Recorded event puts its record, a
\* duplicate only records the event as consumed.
IngestWithPersistence(e) ==
  /\ Idle
  /\ ApplyChainEvent(e)
  /\ pending_direct' = RecordToPut(e)
  /\ pending_event' = {e.event_ref}
  /\ UNCHANGED <<storeVars, pending_cascade>>

Flipped(refs) == TombstonesAfter(records, refs) \ Tombstoned(records)

\* Mutant: the cascade is not written.
CascadeToPutNone(refs) == {}

CascadeToPut(refs) == Flipped(refs) \ DirectlyTombstoned(records, refs)

\* apply_orphan_discard_with_persistence: the flipped records, those of the
\* orphaned events before those of the cascade.
DiscardWithPersistence(refs) ==
  /\ Idle
  /\ ApplyOrphanDiscard(refs)
  /\ pending_direct' = DirectlyTombstoned(records, refs)
  /\ pending_cascade' = CascadeToPut(refs)
  /\ UNCHANGED <<storeVars, pending_event>>

\* materialize_derived_handle_with_persistence and its failing counterpart.
ResultWithPersistence(k) ==
  /\ Idle
  /\ \/ \E c \in SystemCiphertext : MaterializeDerivedHandle(k, c)
     \/ \E why \in ResolutionFailure : FailDerivedHandle(k, why)
  /\ pending_direct' = {k}
  /\ UNCHANGED <<storeVars, pending_cascade, pending_event>>

(***************************************************************************)
(* Writes.                                                                 *)
(***************************************************************************)
\* put_handle_record: upsert.  The order within the records of the orphaned
\* events is that of a hash map; a record of the cascade is put after at
\* least one of the inputs it was tombstoned for, which an earlier pass (or
\* an earlier call) tombstoned.
PutHandleRecord(k) ==
  /\ \/ k \in pending_direct
     \/ /\ pending_direct = {}
        /\ k \in pending_cascade
        /\ Inputs(records[k]) \cap Tombstoned(durable_records) # {}
  /\ durable_records' = Put(durable_records, k, records[k])
  /\ pending_direct' = pending_direct \ {k}
  /\ pending_cascade' = pending_cascade \ {k}
  /\ UNCHANGED <<graphVars, durable_consumed, pending_event>>

\* Mutant: the event is recorded whether or not its record is there.
EventMayPrecede == TRUE

RecordsWritten == pending_direct = {} /\ pending_cascade = {}

\* record_consumed_event, after the record: idempotent.
RecordConsumedEvent ==
  /\ RecordsWritten
  /\ pending_event # {}
  /\ durable_consumed' = durable_consumed \cup pending_event
  /\ pending_event' = {}
  /\ UNCHANGED <<graphVars, durable_records, pending_direct, pending_cascade>>

\* A crash at any point, and restore_from_persistence_with_materializer: the
\* key is not in the store; whoever restores the graph supplies one.
CrashAndRestore ==
  /\ records' = durable_records
  /\ consumed_events' = durable_consumed
  /\ plaintext_key_id' \in KeyId
  /\ pending_direct' = {}
  /\ pending_cascade' = {}
  /\ pending_event' = {}
  /\ UNCHANGED storeVars

Init ==
  /\ GraphInit
  /\ durable_records = [k \in {} |-> k]
  /\ durable_consumed = {}
  /\ pending_direct = {}
  /\ pending_cascade = {}
  /\ pending_event = {}

Operation ==
  \/ \E e \in ChainEvents : IngestWithPersistence(e)
  \/ \E refs \in OrphanSignals : DiscardWithPersistence(refs)
  \/ \E k \in HandleKey : ResultWithPersistence(k)

Write == (\E k \in HandleKey : PutHandleRecord(k)) \/ RecordConsumedEvent

Next == Operation \/ Write \/ CrashAndRestore

Spec == Init /\ [][Next]_vars

(***************************************************************************)
(* Properties.                                                             *)
(***************************************************************************)
Durable == INSTANCE HandleGraph
             WITH records <- durable_records, consumed_events <- durable_consumed

\* Both graphs are well formed, and a pending write is of something the graph
\* in memory holds.
DurableTypeOK ==
  /\ TypeOK
  /\ Durable!TypeOK
  /\ pending_direct \cup pending_cascade \subseteq DOMAIN records
  /\ pending_event \subseteq consumed_events

\* No crash loses an event: one that will be skipped as consumed after a
\* restart left the record of its key in the store.
ConsumedIsBound ==
  \A e \in ChainEvents :
    e.event_ref \in durable_consumed => e.handle_key \in DOMAIN durable_records

\* Between operations the store holds the graph exactly: a crash then loses
\* nothing.  While one runs the store lags behind by its pending writes only.
StoreMirrors ==
  /\ durable_consumed \cup pending_event = consumed_events
  /\ \A k \in HandleKey \ (pending_direct \cup pending_cascade) :
       /\ k \in DOMAIN records <=> k \in DOMAIN durable_records
       /\ k \in DOMAIN records => durable_records[k] = records[k]

\* In every state a crash can leave the store in, an accepted Derived Handle
\* has its inputs in the store, and the lineage in it is well founded.
DurableLineage == Durable!ValidLineage /\ Durable!AcyclicLineage

\* What is in the store stays there, over crashes, replays and duplicates:
\* no record regresses to an earlier state or loses its tombstone.
DurableLifecycle == Durable!RecordLifecycle

\* The next discard after a crash completes the interrupted one, whatever its
\* own references are: when its last write is done no canonical record in the
\* store depends on a tombstoned one.
DiscardWriting ==
  \E k \in pending_direct \cup pending_cascade : records[k].is_tombstoned

DiscardHeals ==
  [][DiscardWriting /\ Write /\ ~DiscardWriting'
       => CascadeClosed(durable_records', Tombstoned(durable_records'))]_vars

\* What a caller can have seen of a handle once the call that did it returned:
\* it is withdrawn, or it has an answer.
Withdrawn(k) == k \in Tombstoned(records)

Answered(k, tag) == k \in DOMAIN records /\ records[k].state.tag = tag

\* What a call has returned with outlives every crash: a handle withdrawn
\* between operations, as a root or deep in a cascade, is never served again,
\* and an answer is never reopened, wherever later operations are interrupted
\* and whichever events are replayed after the restart.  (Only what the
\* operation under way has done may be taken back, for it has not returned.)
AcknowledgedSurvives ==
  \A k \in HandleKey :
    /\ [](Idle /\ Withdrawn(k) => []Withdrawn(k))
    /\ \A tag \in {"Ready", "Failed"} :
         [](Idle /\ Answered(k, tag) => []Answered(k, tag))

(***************************************************************************)
(* What a comment of the code promises and the code does not do.           *)
(***************************************************************************)
\* apply_orphan_discard_with_persistence writes the cascade "so a restart
\* restores the full cascade rather than the discard root only": a restart
\* does not bring back a canonical record with a tombstoned input when there
\* was none before the crash.
RestartRestoresFullCascade ==
  [][CascadeClosed(records, Tombstoned(records)) /\ CrashAndRestore
       => CascadeClosed(records', Tombstoned(records'))]_vars
=============================================================================
