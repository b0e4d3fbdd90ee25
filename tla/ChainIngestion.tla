---------------------------- MODULE ChainIngestion --------------------------
(***************************************************************************)
(* Chain Event Ingestion of the Coprocessor Host                           *)
(* (coprocessor-host/src/chain_ingestion.rs) over a chain that reorganises *)
(* itself.  A pass polls the source, discards the events it reports as     *)
(* orphaned, sorts the new events into log order and applies them.         *)
(*                                                                         *)
(* The source is outside the repository; it does what the contract of      *)
(* ChainEventSource says: it returns events of the chosen view only, in    *)
(* any order and possibly again, skips none, and reports every event it    *)
(* surfaced before that has left the view, each time.                      *)
(***************************************************************************)
EXTENDS HandleGraph, SequencesExt

CONSTANTS
  LogPosition,  \* the place of an event in the canonical log order
  Fork,         \* the last position all branches of the chain share
  Branch,       \* the branches: the set of events of each
  MaxHeight     \* bound: the chain grows no further

ASSUME ChainAssumption ==
  /\ LogPosition \in [ChainEvents -> Nat]
  \* A reference names the block and the log of one event.
  /\ \A e, f \in ChainEvents : e.event_ref = f.event_ref => e = f
  /\ Fork \in Nat /\ MaxHeight \in Nat
  /\ \A B \in Branch :
       /\ B \subseteq ChainEvents
       /\ \A e, f \in B : LogPosition[e] = LogPosition[f] => e = f
  \* Branches share the events up to the fork and, as blocks differ, no others.
  /\ \A B, C \in Branch : B # C => B \cap C = {e \in B : LogPosition[e] <= Fork}

VARIABLES
  branch,    \* the chain's current branch
  height,    \* how far the chosen Chain View reaches along it
  surfaced,  \* the events the source has returned so far
  poll       \* the poll of the pass just done (history)

chainVars == <<branch, height>>
vars == <<graphVars, chainVars, surfaced, poll>>

Upto(B, h) == {e \in B : LogPosition[e] <= h}

View == Upto(branch, height)

(***************************************************************************)
(* The pass.                                                               *)
(***************************************************************************)
\* apply_chain_event as a function of the graph.
Apply(g, e) ==
  IF e.event_ref \in g.consumed_events
    THEN g
    ELSE [consumed_events |-> g.consumed_events \cup {e.event_ref},
          records |-> RecordsAfter(g.records, e)]

\* Mutant: the last event comes first.
InReverseOrder(events) ==
  CHOOSE s \in SetToSeqs(events) :
    \A i, j \in DOMAIN s : i < j => LogPosition[s[i]] > LogPosition[s[j]]

\* sort_by_canonical_log_order
InLogOrder(events) ==
  CHOOSE s \in SetToSeqs(events) :
    \A i, j \in DOMAIN s : i < j => LogPosition[s[i]] < LogPosition[s[j]]

\* ingest_chain_events, on the result of one poll: the graph after the
\* discard, and after each event.
Pass(recs, consumed, events, orphaned) ==
  LET ordered == InLogOrder(events)
      graph[i \in 0..Cardinality(events)] ==
        IF i = 0
          THEN [records |-> Discarded(recs, orphaned), consumed_events |-> consumed]
          ELSE Apply(graph[i - 1], ordered[i])
  IN  graph[Cardinality(events)]

IngestChainEvents(events, orphaned) ==
  LET g == Pass(records, consumed_events, events, orphaned)
  IN  /\ records' = g.records
      /\ consumed_events' = g.consumed_events
      /\ UNCHANGED plaintext_key_id
      /\ poll' = [events |-> events, orphaned_event_refs |-> orphaned]

(***************************************************************************)
(* The source.                                                             *)
(***************************************************************************)
\* The events of the view from one it has not passed yet on, up to any point.
Polls ==
  LET unseen == {LogPosition[e] : e \in View \ surfaced}
  IN  {{e \in View : low <= LogPosition[e] /\ LogPosition[e] <= high} :
         low \in {l \in 0..height : \A u \in unseen : l <= u}, high \in 0..height}

Orphaned == {e.event_ref : e \in surfaced \ View}

PollAndIngest ==
  \E events \in Polls :
    /\ IngestChainEvents(events, Orphaned)
    /\ surfaced' = surfaced \cup events
    /\ UNCHANGED chainVars

NoPoll == [events |-> {}, orphaned_event_refs |-> {}]

\* The view moves on along the chain.
ChainGrows ==
  /\ height < MaxHeight
  /\ height' = height + 1
  /\ poll' = NoPoll
  /\ UNCHANGED <<graphVars, branch, surfaced>>

\* The chain leaves its branch at the fork for another that is longer.
Reorg ==
  /\ Fork < height /\ height < MaxHeight
  /\ branch' \in Branch \ {branch}
  /\ height' = height + 1
  /\ poll' = NoPoll
  /\ UNCHANGED <<graphVars, surfaced>>

Init ==
  /\ GraphInit
  /\ branch \in Branch
  /\ height = 0
  /\ surfaced = {}
  /\ poll = NoPoll

Next == PollAndIngest \/ ChainGrows \/ Reorg

\* The host goes on polling.
Spec == Init /\ [][Next]_vars /\ WF_vars(PollAndIngest)

(***************************************************************************)
(* Properties of a pass.                                                   *)
(***************************************************************************)
\* The graph of a host that is given these events at once.
Replay(events) == Pass([k \in {} |-> k], {}, events, {}).records

\* A record but for the key its plaintext, if it is one, is bound to.
ButForKey(rec) ==
  IF \E e \in ChainEvents \cap PlaintextHandle : e.event_ref = rec.event_ref
    THEN [rec EXCEPT !.state = Ready([rec.state.system_ciphertext EXCEPT !.key_id = plaintext_key_id])]
    ELSE rec

\* After a pass a normal read of the graph sees what it sees of a graph that
\* was given the events of the view alone (module CoprocessorHost).
MirrorsView ==
  \A replay \in {Replay(surfaced' \cap View)} :
    /\ \A k \in Canonical(records') : /\ k \in DOMAIN replay
                                      /\ ButForKey(records'[k]) = ButForKey(replay[k])
    /\ DOMAIN replay \subseteq DOMAIN records'

(***************************************************************************)
(* What a comment of the code promises and the code does not do.           *)
(***************************************************************************)
\* "Repeated calls with already-consumed events are idempotent ...; repeated
\* orphan refs are idempotent": a second pass over the same poll changes
\* nothing.
PassIsIdempotent ==
  [][UNCHANGED chainVars =>
       Pass(records', consumed_events', poll'.events, poll'.orphaned_event_refs).records
         = records']_vars
=============================================================================
