--------------------------- MODULE CoordinatorApi ----------------------------
(***************************************************************************)
(* The read path of the Internal Coordinator API                           *)
(* (coprocessor-host/src/internal_api.rs): a Canonical Handle Record is    *)
(* projected to the view get_handle_state and resolve_handle return.       *)
(* Unknown keys and tombstoned records read the same.  The receipt and the *)
(* reason text of a view are left out.                                     *)
(***************************************************************************)
EXTENDS HandleGraph

\* failure_category
FailureCategory(why) ==
  CASE why = "UnknownInputHandle" -> "LineageViolation"
    [] why \in {"WrongArity", "WrongInputHandleType", "WrongOutputHandleType"} ->
         "OperationViolation"
    [] OTHER -> why

\* The view of a Handle State.
ProjectState(s) ==
  CASE s.tag = "Ready" -> [tag |-> "Ready", system_ciphertext |-> s.system_ciphertext]
    [] s.tag = "Failed" -> [tag |-> "Failed", category |-> FailureCategory(s.reason)]
    [] OTHER -> [tag |-> "Pending"]

\* Mutant: the record is looked up for audit, so that Ready outlives a discard.
HandleStateViewForAudit(recs, k) ==
  IF k \in DOMAIN recs /\ (recs[k].state.tag = "Ready" \/ ~recs[k].is_tombstoned)
    THEN ProjectState(recs[k].state) ELSE [tag |-> "Unknown"]

\* project_canonical(canonical_handle(k))
HandleStateView(recs, k) ==
  IF k \in Canonical(recs) THEN ProjectState(recs[k].state) ELSE [tag |-> "Unknown"]

(***************************************************************************)
(* The view a Coordinator has of the graph.                                *)
(***************************************************************************)
View == INSTANCE CoordinatorView WITH
          view      <- [k \in HandleKey |-> HandleStateView(records, k)],
          withdrawn <- Tombstoned(records)

\* Whatever the chain, the discards and the results: every step of the graph
\* is, for a Coordinator, the announcement of one Handle, the end of one
\* Handle's resolution, the withdrawal of some Handles for good, or nothing.
\* No Handle changes twice in a step or comes back, and what validation
\* refused is never confused with what resolution failed at.
ImplementsView == View!Spec
=============================================================================
