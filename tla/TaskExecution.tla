---------------------------- MODULE TaskExecution ---------------------------
(***************************************************************************)
(* One call of resolve_claimed_task after another, from the attestation    *)
(* material to the bound result (coprocessor-host: resolve_enclave.rs,     *)
(* to_enclave_transformation.rs, derived_receipt.rs; enclave-runtime:      *)
(* LocalEnclaveRuntime; nitro-enclave: NitroEnclaveAdapter).  The host     *)
(* fetches the attestation material once, has MPC transform the inputs one *)
(* by one, and hands them to the Enclave.  Within a call MPC and the       *)
(* Enclave live their own lives: MPC may answer with an envelope it made   *)
(* for an earlier request, and the Enclave may be replaced by another one, *)
(* with another key or of another image.                                   *)
(*                                                                         *)
(* Module Resolution takes the call for one step with any of its outcomes; *)
(* this module shows what the outcomes are.  There is one chain, one       *)
(* domain, one contract and one system key, so that a Handle Key stands    *)
(* for its Handle Id too; hashes and request ids are symbolic, and a       *)
(* sealed payload is the payload, which nobody but the Enclave reads.      *)
(***************************************************************************)
EXTENDS EnclaveOperations, Functions

CONSTANTS
  HandleKey,
  Sources,             \* the Source Handles: key -> Handle Type
  SourcePayloads,      \* the payloads they may hold: functions of their keys
  Programs,            \* the sets of tasks the scheduler may build
  Enclave,             \* the Enclaves that may be running: image and key
  ApprovedMeasurement, \* NitroAdapterConfig.approved_enclave_measurement
  MaxLate,             \* a bound: MPC answers at most so many requests late
  MpcRequestId(_, _)   \* the request id MPC binds into input i of a task

\* LocalEnclaveConfig: the digest of the Enclave's image and its key.
IsEnclave(e) == e = [measurement |-> e.measurement, key_id |-> e.key_id]

\* ResolutionTask: what the scheduler makes of a Derived Handle's lineage.
ResolutionTask ==
  [output_handle_key  : HandleKey \ DOMAIN Sources,
   operation_code     : OperationCode,
   output_handle_type : HandleType,
   input_handle_keys  : Seq(HandleKey)]

\* The type of a handle, as its record in the Handle Graph has it.
HandleTypeOf(program, k) ==
  IF k \in DOMAIN Sources
    THEN Sources[k]
    ELSE (CHOOSE t \in program : t.output_handle_key = k).output_handle_type

InputTypes(program, t) ==
  [i \in DOMAIN t.input_handle_keys |-> HandleTypeOf(program, t.input_handle_keys[i])]

\* The rules validate_derived holds a lineage to.
GraphAccepts(op, types, out) ==
  /\ Len(types) = ExpectedArity(op)
  /\ InputTypesOK(op, types)
  /\ OutputTypeOK(op, types, out)

\* One task for a handle, each of a lineage the Handle Graph accepts (which
\* ValidLineage of module HandleGraph says of every stored record).
WellBuilt(program) ==
  /\ \A t, u \in program : t.output_handle_key = u.output_handle_key => t = u
  /\ \A t \in program :
       /\ \A i \in DOMAIN t.input_handle_keys :
            t.input_handle_keys[i] \in DOMAIN Sources \cup {u.output_handle_key : u \in program}
       /\ GraphAccepts(t.operation_code, InputTypes(program, t), t.output_handle_type)

ASSUME EnclaveAssumption ==
  /\ \A e \in Enclave : IsEnclave(e)
  /\ SourcePayloads \subseteq [DOMAIN Sources -> Payload]

ASSUME ProgramAssumption ==
  /\ DOMAIN Sources \subseteq HandleKey
  /\ \A k \in DOMAIN Sources : Sources[k] \in HandleType
  /\ \A program \in Programs : program \subseteq ResolutionTask /\ WellBuilt(program)

VARIABLES
  tasks,       \* the program: a task for each Derived Handle
  states,      \* Handle Key -> Handle State
  running,     \* the Enclave that runs
  retired,     \* the Enclaves that ran before it
  issued,      \* the last envelopes MPC has made (history of MPC)
  pc,          \* where the call is: idle, attest, transform or execute
  task,        \* its task
  attestation, \* the attestation material it fetched
  inputs,      \* the transformed inputs it has so far
  disturbed    \* whether something outside the host went wrong in it (history)

callVars == <<pc, task, attestation, inputs, disturbed>>
vars == <<tasks, states, running, retired, issued, callVars>>

Absent == [tag |-> "Absent"]

(***************************************************************************)
(* Identifiers and envelopes.                                              *)
(***************************************************************************)
\* request_id_for_task_input and request_id_for_enclave_task: hashes with
\* different prefixes.
RequestIdForTaskInput(t, i)  == <<"resolution-task-input", t.output_handle_key, i>>
RequestIdForEnclaveTask(t)   == <<"enclave-task", t.output_handle_key>>

SystemCiphertext(key, type, payload) ==
  [handle_id |-> key, type_tag |-> type, payload |-> payload]

\* What MPC makes of a request: the system ciphertext's payload, wrapped to
\* the Enclave of the request's attestation material.
Transformed(t, i, material) ==
  LET key == t.input_handle_keys[i]
      system_ciphertext == states[key].system_ciphertext
  IN  [request_id         |-> MpcRequestId(t, i),
       handle_id          |-> key,
       type_tag           |-> system_ciphertext.type_tag,
       attestation_digest |-> material.measurement,
       key_id             |-> material.key_id,
       payload            |-> system_ciphertext.payload]

(***************************************************************************)
(* The derived Materialization Receipt: a flat sequence with the number of *)
(* inputs before them.                                                     *)
(***************************************************************************)
OpCodes == <<"Add", "Sub", "Eq", "Lt", "Lte", "Gt", "Gte", "And", "Or", "Not", "Select">>

OpCodeByte(op) == CHOOSE b \in DOMAIN OpCodes : OpCodes[b] = op

EncodeReceipt(r) ==
  <<OpCodeByte(r.operation_code), r.output_handle_key, Len(r.input_handle_keys)>>
    \o r.input_handle_keys \o <<r.attestation_digest>>

NoReceipt == [operation_code |-> "none"]

\* decode_derived_materialization_receipt: None for malformed bytes.
DecodeReceipt(bytes) ==
  IF Len(bytes) >= 3 /\ bytes[1] \in DOMAIN OpCodes /\ Len(bytes) = bytes[3] + 4
    THEN [operation_code     |-> OpCodes[bytes[1]],
          output_handle_key  |-> bytes[2],
          input_handle_keys  |-> SubSeq(bytes, 4, bytes[3] + 3),
          attestation_digest |-> bytes[Len(bytes)]]
    ELSE NoReceipt

(***************************************************************************)
(* The call.                                                               *)
(***************************************************************************)
\* Every exit of the call: the state its task's handle is left in.
EndCall(state) ==
  /\ states' = [states EXCEPT ![task.output_handle_key] = state]
  /\ pc' = "idle"
  /\ task' = Absent
  /\ attestation' = Absent
  /\ inputs' = <<>>
  /\ disturbed' = FALSE
  /\ UNCHANGED <<tasks, running, retired, issued>>

Pending == [tag |-> "Pending"]

\* A failure for good: refused, or retried until the budget was used up.
Failed(category, cause) == [tag |-> "Failed", category |-> category, cause |-> cause]

\* The errors of the three backends.  The fourth attestation error, an invalid
\* configuration, is raised when the adapter is built.
AttestationError == {"BackendUnavailable", "MalformedAttestation", "MeasurementMismatch"}

TransformError ==
  {"MalformedSystemCiphertext", "Unavailable", "MalformedResponse", "Unauthorized",
   "InvalidBinding", "InvalidAttestation"}

\* classify_*_error
Retryable(error) == error \in {"BackendUnavailable", "Unavailable"}

\* handle_failure.  Module Resolution counts the budget; here it may be used up
\* at any retryable failure.
HandleFailure(error, category) ==
  \/ Retryable(error) /\ EndCall(Pending)
  \/ EndCall(Failed(category, IF Retryable(error) THEN "exhausted" ELSE "refused"))

Claimable(t) ==
  /\ states[t.output_handle_key].tag = "Pending"
  /\ \A i \in DOMAIN t.input_handle_keys : states[t.input_handle_keys[i]].tag = "Ready"

Begin(t) ==
  /\ pc = "idle"
  /\ Claimable(t)
  /\ pc' = "attest"
  /\ task' = t
  /\ UNCHANGED <<tasks, states, running, retired, issued, attestation, inputs, disturbed>>

\* Mutant: the measurement of the document is not compared.
ApprovedAny(e) == e \in Enclave

\* current_attestation_material compares pcr0.
Approved(e) == e.measurement = ApprovedMeasurement

\* current_attestation_material of the Nitro adapter: the running Enclave's
\* document, if it is of the approved image; it may also be malformed.
FetchAttestation ==
  /\ pc = "attest"
  /\ \/ /\ Approved(running)
        /\ attestation' = running
        /\ pc' = "transform"
        /\ UNCHANGED <<tasks, states, running, retired, issued, task, inputs, disturbed>>
     \/ \E error \in AttestationError :
          /\ error = "MeasurementMismatch" => ~Approved(running)
          /\ HandleFailure(error, "MpcTransformationFailure")

\* transform_resolution_task_inputs hands MPC's answer to the next input on
\* unread.
AcceptInput(envelope) ==
  /\ inputs' = Append(inputs, envelope)
  /\ pc' = IF Len(inputs) + 1 = Len(task.input_handle_keys) THEN "execute" ELSE "transform"
  /\ UNCHANGED <<tasks, states, running, retired, task, attestation>>

Issue(envelope) ==
  LET all == Append(issued, envelope)
  IN  issued' = IF Len(all) > MaxLate THEN Tail(all) ELSE all

\* PinnedAttestationSource: every input is transformed for the Enclave whose
\* material the call fetched.
PinnedAttestation == attestation

\* One To-Enclave Transformation, for the next input in order.
TransformInput ==
  LET envelope == Transformed(task, Len(inputs) + 1, PinnedAttestation)
  IN  /\ pc = "transform"
      /\ \/ AcceptInput(envelope) /\ Issue(envelope) /\ UNCHANGED disturbed
         \* MPC answers with the envelope of an earlier request.
         \/ \E late \in Range(issued) \ {envelope} :
              AcceptInput(late) /\ disturbed' = TRUE /\ UNCHANGED issued
         \/ \E error \in TransformError : HandleFailure(error, "MpcTransformationFailure")

(***************************************************************************)
(* LocalEnclaveRuntime::execute.                                           *)
(***************************************************************************)
\* build_enclave_task: what the host adds to the task it hands the Enclave.
BuildEnclaveTask(t) ==
  [request_id |-> RequestIdForEnclaveTask(t), attestation_digest |-> attestation.measurement]

\* Mutant: the ciphertext of any input may stand for another.
VerifyInputAadNoHandle(t, i, tag) ==
  /\ inputs[i].request_id = BuildEnclaveTask(t).request_id
  /\ inputs[i].type_tag = tag
  /\ inputs[i].attestation_digest = running.measurement
  /\ inputs[i].key_id = running.key_id

\* verify_input_aad.  The code compares the Handle Id of the input only.
VerifyInputAad(t, i, tag) ==
  /\ inputs[i].request_id = BuildEnclaveTask(t).request_id
  /\ inputs[i].handle_id = t.input_handle_keys[i]
  /\ inputs[i].type_tag = tag
  /\ inputs[i].attestation_digest = running.measurement
  /\ inputs[i].key_id = running.key_id

ValidateInputCount(t) == Len(inputs) = Len(t.input_handle_keys)

VerifyTaskAttestation(t) == BuildEnclaveTask(t).attestation_digest = running.measurement

CheckArity(t) == Len(t.input_handle_keys) = Arity(t.operation_code)

\* The checks in the order of the code; the error they give does not matter,
\* they all refuse the task for good.
EnclaveAccepts(t) ==
  LET op == t.operation_code
      out == t.output_handle_type
  IN  /\ ValidateInputCount(t)
      /\ VerifyTaskAttestation(t)
      /\ SupportedOperation(op, out)
      /\ CheckArity(t)
      /\ \A i \in DOMAIN inputs : VerifyInputAad(t, i, InputTypeTags(op, out)[i])

Receipt(t) ==
  [operation_code |-> t.operation_code, output_handle_key |-> t.output_handle_key,
   input_handle_keys |-> t.input_handle_keys, attestation_digest |-> BuildEnclaveTask(t).attestation_digest]

\* The sealed result, bound to the output handle, and the encoded receipt.
Materialized(t) ==
  LET payload == Evaluate(t.operation_code, [i \in DOMAIN inputs |-> inputs[i].payload])
  IN  [tag |-> "Ready",
       system_ciphertext |->
         SystemCiphertext(t.output_handle_key, t.output_handle_type, payload),
       materialization_receipt |-> EncodeReceipt(Receipt(t))]

Execute ==
  /\ pc = "execute"
  /\ \/ EnclaveAccepts(task) /\ EndCall(Materialized(task))
     \/ ~EnclaveAccepts(task) /\ EndCall(Failed("EnclaveExecutionFailure", "refused"))
     \/ HandleFailure("BackendUnavailable", "EnclaveExecutionFailure")

\* The running Enclave is replaced, by one with a key of its own; while a call
\* goes on, that disturbs it.
ReplaceEnclave ==
  /\ running' \in Enclave \ (retired \cup {running})
  /\ retired' = retired \cup {running}
  /\ disturbed' = (pc # "idle")
  /\ UNCHANGED <<tasks, states, issued, pc, task, attestation, inputs>>

Init ==
  /\ tasks \in Programs
  /\ \E values \in SourcePayloads :
       states = [k \in HandleKey |->
                   IF k \in DOMAIN Sources
                     THEN [tag |-> "Ready",
                           system_ciphertext |-> SystemCiphertext(k, Sources[k], values[k])]
                     ELSE Pending]
  /\ running \in Enclave
  /\ retired = {}
  /\ issued = <<>>
  /\ pc = "idle"
  /\ task = Absent
  /\ attestation = Absent
  /\ inputs = <<>>
  /\ disturbed = FALSE

Step == FetchAttestation \/ TransformInput \/ Execute

Next ==
  \/ \E t \in tasks : Begin(t)
  \/ Step
  \/ ReplaceEnclave

Spec == Init /\ [][Next]_vars

(***************************************************************************)
(* Properties.                                                             *)
(***************************************************************************)
\* A call has at most as many inputs as its task, and material from the time
\* it fetched it; a handle is Ready with a payload of its own or not at all.
ExecutionTypeOK ==
  /\ running \in Enclave
  /\ pc \in {"idle", "attest", "transform", "execute"}
  /\ pc = "idle" <=> task = Absent
  /\ task # Absent => task \in tasks /\ Len(inputs) <= Len(task.input_handle_keys)
  /\ pc \in {"transform", "execute"} <=> attestation # Absent
  /\ \A k \in HandleKey : states[k].tag = "Ready" =>
       /\ states[k].system_ciphertext.handle_id = k
       /\ states[k].system_ciphertext.payload \in Payload

Value(k) == Number(states[k].system_ciphertext.payload)

\* A Ready Derived Handle holds the value its operation has on the values of
\* its inputs, in their order and modulo the width, whatever late answers MPC
\* gave and whichever Enclaves ran meanwhile.
ResultsCorrect ==
  \A t \in tasks :
    LET k == t.output_handle_key
    IN  states[k].tag = "Ready" =>
          Value(k) = Meaning(t.operation_code,
                             [i \in DOMAIN t.input_handle_keys |-> Value(t.input_handle_keys[i])])

\* The receipt the Coordinator is shown of a Ready Derived Handle decodes, and
\* names its own task and an approved image: no result comes of an Enclave of
\* another.
ReceiptTruthful ==
  \A t \in tasks :
    LET k == t.output_handle_key
    IN  states[k].tag = "Ready" =>
          DecodeReceipt(states[k].materialization_receipt) =
            [operation_code |-> t.operation_code, output_handle_key |-> k,
             input_handle_keys |-> t.input_handle_keys,
             attestation_digest |-> ApprovedMeasurement]

\* A step in which the Enclave refuses a task for good.
Refusal ==
  \E k \in HandleKey :
    states'[k] # states[k] /\ states'[k] = Failed("EnclaveExecutionFailure", "refused")

\* The Enclave refuses a task for good only if something outside the host went
\* wrong in the call: the Enclave was replaced or MPC answered another request.
\* An id that does not match means, by the comment at validation.rs:22, that
\* the ciphertext is bound to a different request flow.
RefusalHasCause == [][Refusal => disturbed]_vars

\* MPC binds the request id the Enclave computes into every input of a task.
BindsEnclaveTaskId(t) ==
  \A i \in DOMAIN t.input_handle_keys : MpcRequestId(t, i) = RequestIdForEnclaveTask(t)

\* The Enclave refuses a task for good only if the Enclave was replaced, MPC
\* answered another request, or MPC bound another id than the Enclave computes
\* (resolve_enclave.rs:338, validation.rs:75).  What the Handle Graph accepted,
\* the scheduler ordered and the host pinned passes every other check.
RefusalIsExplained == [][Refusal => disturbed \/ ~BindsEnclaveTaskId(task)]_vars
=============================================================================
