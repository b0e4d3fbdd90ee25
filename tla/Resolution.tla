----------------------------- MODULE Resolution -----------------------------
(***************************************************************************)
(* The Coprocessor Host's resolution of Pending Derived Handles            *)
(* (crates/coprocessor-host): the scheduler claims a task for every ready  *)
(* handle, the caller (the driver) passes each task back to                *)
(* resolve_claimed_task, which transforms its inputs through MPC, executes *)
(* it in the Enclave and binds the result into the Handle Graph Core.      *)
(* Between the tick that built a task and the call that resolves it the    *)
(* graph goes on changing: events are ingested and orphaned ones are       *)
(* discarded.                                                              *)
(*                                                                         *)
(* The driver is not part of the repository.  Spec lets it do all that the *)
(* host's public API allows: keep a task after resolving it and resolve it *)
(* again, drop it, and release claims at any time.  DrivenSpec is the      *)
(* driver the API documents: every task is resolved once.  Coordinators    *)
(* ask for handles with resolve_handle at any time (module                 *)
(* CoordinatorApi relates what they are told to an abstract view).         *)
(*                                                                         *)
(* MPC and the Enclave answer within the call, with a result that is a     *)
(* function of the task or with any of the errors the host classifies.     *)
(***************************************************************************)
EXTENDS CoordinatorApi, Integers

CONSTANTS
  RequestId,    \* the identifiers of Handle Resolution Requests
  MaxAttempts,  \* config.retry_policy.max_attempts
  Execute(_)    \* the result of a task: the ciphertext the Enclave returns

ASSUME MaxAttemptsAssumption == MaxAttempts \in Nat

VARIABLES
  claimed_handle_keys,  \* the keys with an active claim
  retry_budgets,        \* key -> remaining attempts, for the keys claimed before
  resolution_intents,   \* key -> the requests attached to it
  tasks,                \* the Resolution Tasks in the driver's hands
  reply,                \* what the last call of resolve_claimed_task returned
  retries               \* key -> failures since the start that were to be retried (history)

claimVars == <<claimed_handle_keys, retry_budgets>>
vars == <<graphVars, claimVars, resolution_intents, tasks, reply, retries>>

(***************************************************************************)
(* The scheduler tick.                                                     *)
(***************************************************************************)
\* Mutant: the task takes the type of its first input for its output's.
ResolutionTaskMistyped(recs, k) ==
  LET ins == recs[k].lineage.input_handle_keys
  IN  [output_handle_key       |-> k,
       operation_code          |-> recs[k].lineage.operation_code,
       output_handle_type      |-> recs[ins[1]].handle_type,
       input_handle_keys       |-> ins,
       input_system_ciphertexts |-> InputCiphertexts(recs, ins)]

ResolutionTask(recs, k) ==
  LET ins == recs[k].lineage.input_handle_keys
  IN  [output_handle_key       |-> k,
       operation_code          |-> recs[k].lineage.operation_code,
       output_handle_type      |-> recs[k].handle_type,
       input_handle_keys       |-> ins,
       input_system_ciphertexts |-> InputCiphertexts(recs, ins)]

\* max_attempts.saturating_sub(1)
InitialBudget == IF MaxAttempts = 0 THEN 0 ELSE MaxAttempts - 1

NoReply == [handle_key |-> "none"]

\* Mutant: a new claim starts with a full budget.
BudgetsRefilled(fresh) ==
  [k \in DOMAIN retry_budgets \cup fresh |->
     IF k \in fresh THEN InitialBudget ELSE retry_budgets[k]]

\* or_insert: a budget that is there from an earlier claim is kept.
BudgetsAfterClaim(fresh) ==
  [k \in DOMAIN retry_budgets \cup fresh |->
     IF k \in DOMAIN retry_budgets THEN retry_budgets[k] ELSE InitialBudget]

\* claim_from_readiness: one task per ready key without an active claim.
ClaimResolutionTasks ==
  LET fresh == ReadyToResolve(records) \ claimed_handle_keys
  IN  /\ fresh # {}
      /\ claimed_handle_keys' = claimed_handle_keys \cup fresh
      /\ retry_budgets' = BudgetsAfterClaim(fresh)
      /\ tasks' = tasks \cup {ResolutionTask(records, k) : k \in fresh}
      /\ reply' = NoReply
      /\ UNCHANGED <<graphVars, resolution_intents, retries>>

(***************************************************************************)
(* resolve_claimed_task.                                                   *)
(***************************************************************************)
RemainingBudget(k) == IF k \in DOMAIN retry_budgets THEN retry_budgets[k] ELSE 0

\* Mutant: the claim is kept.
ReleaseNothing(k) == UNCHANGED claimed_handle_keys

Release(k) == claimed_handle_keys' = claimed_handle_keys \ {k}

\* Mutant: a settled result keeps its budget.
ClearNothing(k) == UNCHANGED retry_budgets

ClearBudget(k) ==
  retry_budgets' = [j \in DOMAIN retry_budgets \ {k} |-> retry_budgets[j]]

\* Mutant: a budget that is used up is cleared.
ConsumeOrClear(k) == IF RemainingBudget(k) > 1
                       THEN retry_budgets' = [retry_budgets EXCEPT ![k] = @ - 1]
                       ELSE ClearBudget(k)

\* One less, saturating, if there is an entry.
ConsumeBudget(k) ==
  retry_budgets' = [j \in DOMAIN retry_budgets |->
                      IF j = k /\ retry_budgets[j] > 0 THEN retry_budgets[j] - 1
                                                       ELSE retry_budgets[j]]

\* The view a call returns that looks the record up after its transition.
ReplyAfter(k) == reply' = [handle_key |-> k, view |-> HandleStateView(records', k)]

\* apply_terminal_failure: the error of fail_derived_handle is dropped.
TerminalFailure(k, why) ==
  /\ \/ FailDerivedHandle(k, why)
     \/ ~Resolvable(records, k) /\ UNCHANGED graphVars
  /\ ClearBudget(k)
  /\ Release(k)
  /\ ReplyAfter(k)
  /\ UNCHANGED retries

\* handle_failure, Retryable: with budget left the claim is released for the
\* next tick, without looking at the record; else the failure is terminal.
RetryableFailure(k, exhaustion_reason) ==
  \/ /\ RemainingBudget(k) > 0
     /\ ConsumeBudget(k)
     /\ Release(k)
     /\ reply' = [handle_key |-> k, view |-> ProjectState(Pending)]
     /\ retries' = [retries EXCEPT ![k] = @ + 1]
     /\ UNCHANGED graphVars
  \/ RemainingBudget(k) = 0 /\ TerminalFailure(k, exhaustion_reason)

\* The Enclave's result is bound to the output key, if it is still Pending
\* and canonical; otherwise binding it fails, which is a terminal failure.
BindResult(task) ==
  LET k == task.output_handle_key
  IN  \/ /\ MaterializeDerivedHandle(k, Execute(task))
         /\ ClearBudget(k)
         /\ Release(k)
         /\ ReplyAfter(k)
         /\ UNCHANGED retries
      \/ /\ ~Resolvable(records, k)
         /\ TerminalFailure(k, "MaterializationFailure")

\* The reasons classify_attestation_error, classify_transform_error and
\* classify_enclave_error give, both for retryable and for terminal errors.
BackendFailure == {"MpcTransformationFailure", "EnclaveExecutionFailure"}

ResolveClaimedTask(task) ==
  LET k == task.output_handle_key
  IN  \/ BindResult(task)
      \/ \E why \in BackendFailure : TerminalFailure(k, why)
      \/ \E why \in BackendFailure : RetryableFailure(k, why)

\* release_resolution_task, for a key with a claim.
ReleaseResolutionTask(k) ==
  /\ k \in claimed_handle_keys
  /\ Release(k)
  /\ reply' = NoReply
  /\ UNCHANGED <<graphVars, retry_budgets, resolution_intents, tasks, retries>>

(***************************************************************************)
(* Handle Resolution Requests.                                             *)
(***************************************************************************)
RequestsOf(k) == IF k \in DOMAIN resolution_intents THEN resolution_intents[k] ELSE {}

\* attach: the requests of a key share one intent; nothing removes one.
Attach(request_id, k) ==
  resolution_intents' = Put(resolution_intents, k, RequestsOf(k) \cup {request_id})

\* Mutant: a request is attached whatever the view.
ResolveHandleUnchecked(request_id, k) ==
  /\ Attach(request_id, k)
  /\ UNCHANGED <<graphVars, claimVars, tasks, reply, retries>>

\* resolve_handle: attaches the request if the handle is Pending; any other
\* call changes nothing.
ResolveHandle(request_id, k) ==
  /\ HandleStateView(records, k) = ProjectState(Pending)
  /\ Attach(request_id, k)
  /\ UNCHANGED <<graphVars, claimVars, tasks, reply, retries>>

(***************************************************************************)
(* The rest of the host: ingestion changes the graph between a claim and   *)
(* its result; a restart restores the graph from persistence and nothing   *)
(* else.                                                                   *)
(***************************************************************************)
ChainIngestion ==
  /\ \/ \E e \in ChainEvents : ApplyChainEvent(e)
     \/ \E refs \in OrphanSignals : ApplyOrphanDiscard(refs)
  /\ reply' = NoReply
  /\ UNCHANGED <<claimVars, resolution_intents, tasks, retries>>

\* restore_from_persistence over a complete mirror of the graph.  The driver goes
\* down with the host: one that outlived it could bring a task of the old host to
\* the new one, which is left out.
Restart ==
  /\ claimed_handle_keys' = {}
  /\ retry_budgets' = [k \in {} |-> k]
  /\ resolution_intents' = [k \in {} |-> k]
  /\ tasks' = {}
  /\ reply' = NoReply
  /\ retries' = [k \in HandleKey |-> 0]
  /\ UNCHANGED graphVars

(***************************************************************************)
(* Specifications.                                                         *)
(***************************************************************************)
Init ==
  /\ GraphInit
  /\ claimed_handle_keys = {}
  /\ retry_budgets = [k \in {} |-> k]
  /\ resolution_intents = [k \in {} |-> k]
  /\ tasks = {}
  /\ reply = NoReply
  /\ retries = [k \in HandleKey |-> 0]

\* The driver resolves a task it has, and drops it or keeps it.
ResolveAndDrop(task) ==
  ResolveClaimedTask(task) /\ tasks' = tasks \ {task} /\ UNCHANGED resolution_intents
ResolveAndKeep(task) ==
  ResolveClaimedTask(task) /\ UNCHANGED <<tasks, resolution_intents>>

Next ==
  \/ ClaimResolutionTasks
  \/ \E task \in tasks : ResolveAndDrop(task) \/ ResolveAndKeep(task)
  \/ \E k \in HandleKey : ReleaseResolutionTask(k)
  \/ \E request_id \in RequestId, k \in HandleKey : ResolveHandle(request_id, k)
  \/ ChainIngestion
  \/ Restart

Spec == Init /\ [][Next]_vars

ResolveTaskOf(k) ==
  \E task \in tasks : task.output_handle_key = k /\ ResolveAndDrop(task)

DrivenNext ==
  \/ ClaimResolutionTasks
  \/ \E k \in HandleKey : ResolveTaskOf(k)
  \/ ChainIngestion

\* The driver goes on ticking and resolves every task it is handed.
DrivenSpec ==
  /\ Init
  /\ [][DrivenNext]_vars
  /\ WF_vars(ClaimResolutionTasks)
  /\ \A k \in HandleKey : WF_vars(ResolveTaskOf(k))

(***************************************************************************)
(* Type invariant.                                                         *)
(***************************************************************************)
IsTask(t) ==
  /\ t = [output_handle_key |-> t.output_handle_key,
          operation_code |-> t.operation_code,
          output_handle_type |-> t.output_handle_type,
          input_handle_keys |-> t.input_handle_keys,
          input_system_ciphertexts |-> t.input_system_ciphertexts]
  /\ t.output_handle_key \in DOMAIN records
  \* The task is of the record its key is bound to.
  /\ LET rec == records[t.output_handle_key]
     IN  /\ rec.lineage = Derived(t.operation_code, t.input_handle_keys)
         /\ rec.handle_type = t.output_handle_type

ClaimsTypeOK ==
  /\ TypeOK
  /\ claimed_handle_keys \subseteq HandleKey
  /\ DOMAIN retry_budgets \subseteq HandleKey
  /\ \A k \in DOMAIN retry_budgets : retry_budgets[k] \in 0..InitialBudget
  /\ \A t \in tasks : IsTask(t)
  /\ DOMAIN retries = HandleKey
  /\ \A k \in HandleKey : retries[k] \in Nat

IntentsTypeOK ==
  \A k \in DOMAIN resolution_intents : resolution_intents[k] \subseteq RequestId

\* The graph is well formed, claims and budgets are of Handle Keys, a task in
\* the driver's hands is of the record its output key is still bound to, and
\* intents are sets of requests.
ResolutionTypeOK == ClaimsTypeOK /\ IntentsTypeOK

(***************************************************************************)
(* Safety, whatever the driver does.                                       *)
(***************************************************************************)
\* The ciphertexts a task was built with are still those of its inputs, and
\* its inputs canonical, as long as its result can be bound at all.  The host
\* never compares them: discarding an input discards its dependents in the
\* same call, and a result for a discarded handle is refused.
SnapshotFresh ==
  \A t \in tasks :
    Resolvable(records, t.output_handle_key) =>
      /\ LineageInputs(records[t.output_handle_key].lineage) \subseteq CanonicalReady(records)
      /\ t = ResolutionTask(records, t.output_handle_key)

\* Every Ready Derived Handle a normal read can see holds the result of its
\* own operation on the ciphertexts that its inputs hold now, all of them
\* Ready and canonical, no matter which events were discarded while its task
\* was in flight, how often it was retried, or which task's result came first.
Provenance ==
  \A k \in CanonicalReady(records) :
    IsDerived(records[k]) =>
      /\ Inputs(records[k]) \subseteq CanonicalReady(records)
      /\ records[k].state.system_ciphertext = Execute(ResolutionTask(records, k))

\* The retry budget is exact: what remains of it and the failures that were
\* to be retried add up to max_attempts - 1, for every key that was claimed,
\* across claims and releases; and no result that could still be bound is
\* charged to a key without a budget, which would fail it at the first
\* transient error.
BudgetIsExact ==
  /\ \A k \in DOMAIN retry_budgets : retry_budgets[k] + retries[k] = InitialBudget
  /\ \A t \in tasks :
       Resolvable(records, t.output_handle_key) =>
         t.output_handle_key \in DOMAIN retry_budgets
  /\ claimed_handle_keys \subseteq DOMAIN retry_budgets

\* No handle is retried more often than max_attempts allows.
RetriesBounded == \A k \in HandleKey : retries[k] <= InitialBudget

\* Whatever ends the resolution of a handle clears its budget and its claim:
\* of the keys ever claimed only those whose records are still Pending keep
\* either.  (A handle discarded while Pending is such a record: its budget and
\* the claim of a task never resolved stay for the life of the host.)
SettledIsForgotten ==
  \A k \in DOMAIN retry_budgets \cup claimed_handle_keys :
    k \in DOMAIN records /\ records[k].state = Pending

\* Requests are attached to Derived Handles that passed validation and to
\* nothing else, so each was claimed, can be claimed, or waits for its inputs.
\* Not only at the moment of the request: the key never comes to mean another
\* handle while the intent, which nothing removes, is there.
IntentsAreOfAccepted ==
  \A k \in DOMAIN resolution_intents :
    /\ resolution_intents[k] # {}
    /\ k \in DOMAIN records
    /\ Accepted(records[k])

(***************************************************************************)
(* The documented driver.                                                  *)
(***************************************************************************)
\* One claim, one task: no two tasks compete for a handle, no claim outlives
\* its task (which would keep the handle from ever being claimed again).
ClaimsAreTasks ==
  /\ claimed_handle_keys = {t.output_handle_key : t \in tasks}
  /\ \A t, u \in tasks : t.output_handle_key = u.output_handle_key => t = u

\* The handles that are, or are derived from, a Failed or a tombstoned one:
\* nobody ever settles a Pending one of these.
Doomed(recs) ==
  Cascade(recs, Tombstoned(recs)
                  \cup {k \in DOMAIN recs : recs[k].state.tag = "Failed"})

\* Every Pending handle is resolved, for better or worse, or discarded, however
\* deep its lineage and however many transient failures come first; unless
\* something it is derived from failed or was discarded.  No handle waits for
\* itself, for a claim nobody has or for an input that is done.
PendingIsSettled ==
  \A k \in HandleKey :
    Resolvable(records, k) ~> ~Resolvable(records, k) \/ k \in Doomed(records)

(***************************************************************************)
(* What the comments of the code promise and the code does not do.         *)
(***************************************************************************)
\* resolve_claimed_task "Returns the HandleStateView reflecting the handle's
\* state after the call".
ReplyReflectsState ==
  [][reply' # NoReply /\ reply' # reply =>
       reply'.view = HandleStateView(records', reply'.handle_key)]_vars
=============================================================================
