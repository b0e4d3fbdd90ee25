# The Coprocessor in TLA+

Specifications, model-checking runs and machine-checked proofs for the
Coprocessor of this repository (`crates/`): the Handle Graph Core, its
persistence, Chain Event Ingestion, the Resolution Scheduler, the resolve path
through MPC and the Enclave, the host around them with its configuration and
restarts, what a Coordinator reads of it, and the codec of the Ciphertext
Binding. Paths below are relative to `crates/`.

A *Handle* is an encrypted value the chain names. A *Source Handle* arrives with
its ciphertext (imported) or with a public value (plaintext) and is `Ready` from
the start. A *Derived Handle* is an operation on other Handles; it is `Pending`
until the host has its inputs re-encrypted for an Enclave by MPC, executed there,
and the result bound (`Ready`) or the attempt given up (`Failed`). If a chain
reorganisation takes an event back, its record and all that depend on it are
*tombstoned*, never deleted (docs/adr/0002).

## Inventory

| Component | State | Operations | What makes it correct |
|---|---|---|---|
| Handle Graph Core (`handle-graph-core/src`: `ingestion`, `orphan`, `materialization`, `query`, `types`) | `records`: Handle Key to record; `consumed_events` | `apply_chain_event`, `apply_orphan_discard`, `materialize_derived_handle`, `fail_derived_handle`; `canonical_handle`, `resolution_readiness` | records are never rebound or resurrected; accepted lineage stays valid and well founded; discards cascade completely and only for a reason |
| Operation rules (`operations.rs`) | - | arity and type validation | agree with the Enclave's table |
| Handle Persistence (`persistence.rs` and the `_with_persistence` methods) | the stored records and consumed events | upsert, record consumed, restore | a crash between any two writes loses no event and leaves no unsound graph |
| Chain Event Ingestion (`coprocessor-host/src/chain_ingestion.rs`) | none of its own | one pass: poll, discard, sort, apply | what is read depends on the events of the chosen view only |
| Resolution Scheduler (`resolution_scheduler.rs`) | claims, retry budgets | claim tick, release, consume, clear | one task per claim; retries are counted exactly |
| Resolve path (`resolve_enclave.rs`, `resolution.rs`, `to_enclave_transformation.rs`, `derived_receipt.rs`) | none between calls; the call pins the attestation and collects inputs | `resolve_claimed_task` | a result is bound only to the handle and inputs it was computed for; every exit releases the claim |
| Plaintext materialization (`plaintext_materialization.rs`) | the active MPC key id | `materialize` | a plaintext is bound to the key the host is configured with |
| Resolution intents (`resolution_intent.rs`, `resolution.rs`) | request ids by Handle Key | `resolve_handle` | attached to Pending handles only, so never to an unknown or refused one |
| Coordinator read API (`internal_api.rs`) | - | projection of a record | what is read of a handle changes in one direction; tombstoned and unknown look the same |
| Host construction and restart (`construction.rs`) | the host's copy of the configuration | `new`, the two `restore_from_persistence` | a restored graph goes on under the configured key |
| Host lifecycle and readiness (`host_lifecycle.rs`, `lifecycle.rs`, `dependency.rs`) | phase, available dependencies | `start`, `shutdown`, mark dependencies | ready only with a valid configuration and all dependencies |
| Host and MPC configuration (`config.rs`, `mpc/src/config`) | `HostConfig`, MPC public configuration | load, `reload_mpc_public_config`, `validate` | a reload is as strict as a start |
| Enclave attestation (`nitro-enclave/src`) | configuration | `current_attestation_material` | only the approved measurement passes |
| MPC client (`mpc/src/to_enclave`) | - | `request_to_enclave_transformation` | errors keep their class |
| Local Enclave runtime (`enclave-runtime/src`) | configuration | `execute` | refuses what is not bound to the task; computes modulo the width |
| Chain log decoder (`handle-graph-core/src/chain_log_decoder.rs`) | - | `decode_chain_log` | only canonical logs become events; inputs are keyed under the contract of their handle |
| Ciphertext binding (`ciphertext-binding/src`) | - | encode and decode of four AAD and three envelopes | decoding is the exact inverse of encoding; no bytes have two readings |
| Wire codec, sealing (`wire-codec`, `enclave-runtime/src/sealing`) | - | encode, decode; seal, open | round trips |

How they interact: the host owns one Handle Graph Core and one claim registry and
is called by a driver that is *not* in the repository (`main.rs` starts the host
and shuts it down). The driver polls the chain (`ingest_chain_events`), ticks the
scheduler (`claim_resolution_tasks`), which hands it tasks *by value*, and passes
tasks back (`resolve_claimed_task`). All methods take `&mut self` and are
synchronous, so no two of them interleave; what interleaves is

- the life of a task, between the tick that copied its inputs' ciphertexts and
  the call that binds its result, with ingestion, discards and other calls;
- a call with the world outside: MPC may answer late, the Enclave may be replaced;
- the writes of a `_with_persistence` method with a crash;
- the host with a chain that grows, reorganises and repeats itself.

The host keeps its configuration from construction to its end. The operator's
copy may be reloaded from the MPC endpoint in between (`reload_mpc_public_config`),
so that a host, the next host, the graph the two share through a store, and the
plaintexts in that graph may each come from another configuration.

The hazards this leads to are listed, each with its line and the properties that
watch it, under `hazards` in `PROJECT.json`.

## Modules

| Module | Models | State and actions |
|---|---|---|
| `HandleOperations` | `operations.rs`, operation and handle types | operators: `ExpectedArity`, `InputTypesOK`, `OutputTypeOK` |
| `HandleGraph` | the Handle Graph Core | `records`, `consumed_events` as in the code and `plaintext_key_id`, the key of its materializer; one action per operation: `ApplyChainEvent`, `ApplyOrphanDiscard`, `MaterializeDerivedHandle`, `FailDerivedHandle`. A discard is one step that tombstones the least closed set |
| `CoordinatorView` | what a Coordinator is promised of a handle over time | abstract: `Announce`, `Settle`, `Withdraw` on `view` and `withdrawn` |
| `CoordinatorApi` | `internal_api.rs` | the projection of a record to a view; `ImplementsView` says that a graph implements `CoordinatorView` under it |
| `ChainLogDecoder` | `decode_chain_log` | operators from a log to the set of its Chain Event, or to the empty set where the code returns an error; `HandleGraph` fed with `DecodedEvents` |
| `OrphanCascade` | the loop of `apply_orphan_discard` | `BeginDiscard`, one `CascadePass` per turn of the loop, `EndDiscard`; implements the atomic discard of `HandleGraph` |
| `DurableGraph` | the `_with_persistence` methods | `HandleGraph` plus the store and the writes the running method still owes: `PutHandleRecord`, `RecordConsumedEvent`, `CrashAndRestore` |
| `ChainIngestion` | `ingest_chain_events` | `HandleGraph` plus a chain with branches (`ChainGrows`, `Reorg`) and `PollAndIngest` for a whole pass, which is a pure function `Pass` of the graph and the poll |
| `CoprocessorHost` | configuration, construction and restart, lifecycle, readiness | `ChainIngestion` plus the operator's configuration, the host's, its phase and dependencies: `ReloadMpcPublicConfig`, `NewHost`, `RestoreFromPersistence`, `RestoreWithMaterializer`, `Start`, `Shutdown`, `MarkDependency*` |
| `Resolution` | scheduler, resolve path, intents | `HandleGraph` plus claims, budgets, intents, the tasks in the driver's hands and the last reply: `ClaimResolutionTasks`, `ResolveClaimedTask` with all its outcomes in one step, `ReleaseResolutionTask`, `ResolveHandle`, `ChainIngestion`, `Restart` |
| `EnclaveOperations` | `operation.rs` of the Enclave | operators on payloads of `Length` bytes in radix `Radix`: carry, borrow, comparison; the meaning of each on numbers |
| `TaskExecution` | one `resolve_claimed_task` after another, opened up | `Begin`, `FetchAttestation`, `TransformInput` per input, `Execute`, with late answers of MPC and `ReplaceEnclave` in between |
| `CiphertextBinding` | the canonical CBOR codec of AAD and envelopes | operators `Encode` and `Decode`, field by field over sequences of bytes; a value `sent`, the `bytes` its receiver has, and `Damage` between the two |
| `*_proofs` | - | the theorems, see below |
| `MC*` | - | instances for TLC |

`ChainLogDecoder`, `CoordinatorApi`, `OrphanCascade`, `DurableGraph`, `ChainIngestion`
and `Resolution` extend `HandleGraph`, and `CoprocessorHost` extends `ChainIngestion`:
what is proved of its operators is proved for all of them. `TaskExecution` is the
detail of the one step `ResolveClaimedTask`.

Abstractions. A record keeps `domain_id`, `handle_type`, `state`, `event_ref`,
`lineage` and `is_tombstoned`; `handle_key` is its key in the map and
`is_canonical` is true wherever the code builds a record. Ciphertexts are values
that are only compared; the ciphertext of a plaintext handle is its public value
with the AAD it is bound to, which holds all of the Handle Key but the contract
(`HandleIdOf`). In `CiphertextBinding` a failing decoder refuses, and
errors are not told apart; the opaque payloads of an envelope are short byte
strings. Reason texts are left out, categories are kept. Hash maps are
functions; where iteration order could matter (the order of writes) it is
nondeterministic. History variables, which no action reads and only properties
do: `retries` and `reply` in `Resolution`, `edits` (but for its bound) and `sent` in
`CiphertextBinding`, `poll` in `ChainIngestion`, `disturbed`
in `TaskExecution`, `before`, `orphaned` and `named_again` in `OrphanCascade`, whose two lists
are sets and a set of what was appended to them twice. (`issued` in
`TaskExecution` is not one: MPC's late answers are taken from it.)

## Runs

A run asks one question; its `about` in `PROJECT.json` states it. Every property
is shown able to fail: `mutants` names, for each, a plausible bug (a dropped
guard, a missing reset, a swapped order) that makes the same run report it.

| Run | Module and configuration | States | Shows |
|---|---|---|---|
| `graph` | `MCHandleGraph` | 11 283 | the core is sound for any order of events, duplicates, discards, results: `ValidLineage`, `AcyclicLineage`, `ConsumedAccounted`, `RecordLifecycle`, `DiscardCascades`, `DiscardIsGrounded`; with its events decoded from logs, `LineageWithinContract`; and what is read of it implements `CoordinatorView` |
| `cascade` | `MCOrphanCascade` | 81 280 | the loop of `apply_orphan_discard` ends, implements the atomic discard and reports exactly what it changed, each record once |
| `durable` | `MCDurableGraph` | 147 138 | with a crash between any two writes, and restores for one key or the other, the store loses no event, holds valid lineage, never regresses; the next discard completes an interrupted one; what a call has returned with, a withdrawal or an answer, survives every later crash |
| `durable_cascade` | `MCDurableGraphCascade.cfg` | violation | finding 1 |
| `host` | `MCCoprocessorHost` | 169 280 | over reloads, restarts, new hosts, reorganisations and repeated polls: a host that reports Ready is consistent, a reload is as strict as a start, plaintexts are bound to a trusted key, and what is read depends on the view's events only (on a chain whose branches agree on what a key stands for) |
| `chain_idempotence` | `MCChainIngestion` | violation | finding 2 |
| `resolution` | `MCResolution` | 65 020 | under any driver: provenance of every result, freshness of every snapshot, exact budgets, forgotten when a handle is settled; intents of accepted handles only |
| `resolution_driven` | `MCResolutionDriven.cfg` | 3 813 | under the documented driver: one task per claim, and every Pending handle is settled in the end, unless it is derived, directly or through others, from a Failed or tombstoned one |
| `resolution_reply` | `MCResolutionReply.cfg` | violation | finding 3 |
| `task_execution` | `MCTaskExecution` | 354 560 | every result is the value of its operation, every receipt truthful, and every refusal for good is of a replaced Enclave, another request's answer or a request id that does not match |
| `task_request_id` | `MCTaskExecutionRequestId.cfg` | violation | finding 4 |
| `binding` | `MCCiphertextBinding` | 165 183 | every value is read as it was written, by the decoder of its type alone; no damaged bytes are read as anything but the value whose encoding they are |

### Bounds, and why they are enough

- `graph`: seven events and at most two references per discard. They hold an
  imported and a plaintext Source, a Derived Handle over both and one over that,
  a second event for a Source's key with another type, a second event for a
  Derived key that would close a lineage cycle, and an event of another domain.
  They are decoded from logs emitted by another contract than the handles', among
  which nine decode to nothing: for each way the decoder refuses a log, at least one.
  One that decodes has other bytes before the address in its third topic.
  Ingestion decides on one event and its direct inputs, so longer chains add no
  new case to it; the depth of a cascade is the concern of the next run.
- `cascade`: lineage four records deep, so that one discard takes several passes,
  and, in the orders in which an event is mined before its inputs, a *cyclic*
  lineage through a Failed record, over which the loop must still end.
- `durable`: three keys, one a plaintext, one with a second event; one discard
  names up to two references. A method's writes are at most four, and a crash may
  come between any two, any number of times, also during what the restarted host
  does next; each restore seeds one of two keys.
- `host`: two branches that share their first event, `Fork = 1`, `MaxHeight = 4`: a
  plaintext, on one branch a Derived Handle over it, on the other a second
  plaintext and the same Derived Handle over both, mined under another reference.
  A reorganisation may come and go back. Polls are any window of the view that
  skips nothing unseen, so repeated and partial polls occur. The operator starts
  from a sound local configuration, from a Nitro one that only a reload makes
  valid, or from one no reload makes valid: it allows no attempt, or its label is
  blank (`BlankLabel`, which trimming leaves empty). The endpoint serves a new key for each
  of two Enclaves, a configuration of another domain and one that does not parse.
  Two of the three dependencies are kept: the code treats all alike.
- `chain_idempotence`: `MaxHeight = 5` and a chain of its own, as finding 2 needs.
- `resolution`: `MaxAttempts = 3`, two sources, a comparison and a selection by
  its result, one source mined again with another ciphertext; any one event may
  be discarded at any time. A restart takes the driver's tasks with the host: tasks
  are `Clone`, but a driver in another process than the host is nowhere in the
  repository. Three attempts are the least number at which a
  budget has a value between full and empty. A driver may keep a task, resolve
  it twice or drop it, and release any claim.
- `task_execution`: payloads of two digits in radix two, so that carries and
  borrows cross a digit and results wrap; all eleven operations; three Enclaves
  (the approved image, the same image with another key, another image);
  `MaxLate = 2` envelopes MPC may repeat. Each program has at most two tasks, the
  second fed by the first.
- `binding`: a byte has seven bits, of which four are the additional information
  of a header, and an argument has one to four bytes, so that all of the header's
  forms are in reach of a short message. Ten values: each AAD, each envelope, one around the wrong AAD. Two
  changes, each to drop, replace or insert a byte of four that lengthen a header,
  change a type or a length, or spoil a text: one change makes bytes that are not
  the value's, the second may repair what the first broke (a length after a byte).

Deadlock is not checked in `task_execution` and `binding`: a program of tasks ends,
and so does the journey of a value. In all other runs it is.

### Fairness

- `OrphanCascade`: weak fairness of `CascadePass \/ EndDiscard`: a synchronous call
  runs to its end. None of the operations that start a call is fair.
- `Resolution!DrivenSpec`: weak fairness of the tick and of resolving a handed-out
  task, per key. That is the driver the API's documentation describes; it is not
  in the repository, so the liveness property says what the scheduler and resolve
  path contribute: no claim is stranded and retries run out.
- `ChainIngestion`: weak fairness of a pass, for the counterexample of finding 2.
- The others state none.

## Proofs

Proved with TLAPS for every value of the constants, without bounds on keys,
events, tasks, depth of lineage, attempts, crashes or the width of a number. The
assumptions are those the modules name:

| Assumption | Says | Justified by |
|---|---|---|
| `ChainEventsAssumption`, `OrphanSignalsAssumption` | events are well formed | the type `ChainEvent` |
| `EventRefsAssumption` | events of one reference name the same key | a reference is a place on the chain (`types.rs:52`, `ChainEventRef`): block, transaction and log |
| `ChainLogsAssumption`, `DecodedAssumption` | the fields of a log, whose topics and data may be anything; the graph's events are those decoded | the decoder is the only producer of events |
| `MaxAttemptsAssumption` | a natural number, zero included | `u32` |
| `PayloadAssumption` | a radix above one, a length above zero | 256 and 32 |
| `EnclaveAssumption`, `ProgramAssumption` | an Enclave is an image and a key; a set of tasks has one task per handle, each of a lineage the graph accepts | `ValidLineage`, which `LineageCorrect` proves of the graph |
| `ChainAssumption` | an event has one reference; events of a branch have different positions; branches share the events up to the fork and no others | a reference names block, transaction and log, and the blocks of two branches differ |
| `ConfigAssumption` | configurations are well typed; what the endpoint serves is not assumed to be | the types of `config.rs` |
| `CodecAssumption` | the sizes of a byte and of its header fit each other; a longer form of a header is at least as wide as the one before | `cbor.rs:45-62`: a byte of 256 values, an initial byte of 32 of which 24 are arguments, forms of 1, 2, 4 and 8 bytes |
| `MessageAssumption` | what is encoded has the fields of its type: numbers and lengths below the radix to the widest form, identifiers of their length, text that is UTF-8; what damage puts in are bytes | the types of `aad.rs` and `envelope.rs`: `u8`, `u64`, arrays of fixed length, `String`, `Vec<u8>` |

TLC evaluates each of them on the instances of the runs.

`HandleGraph_proofs`. `TypeOK` is inductive by itself (`GraphTypeCorrect`). Lemma
`GraphStep` sums up all four operations: every old record is kept in the sense of
`RecordKept`, and at most one record is new, that of an event just applied. From
it follow `RecordsLiveOnce`, that `ValidLineage` is inductive (validation is done
once, and nothing it read can change), and, given `ValidLineage`, that
`AcyclicLineage` is (a new record depends only on older ones, and no older
accepted one on it). `CascadeIsLeastClosed` is the fact about the discard that
`DiscardIsComplete` rests on; `DiscardsAreGrounded` is its converse, by taking an
unsupported set away from the closure and finding what is left closed.
`EventsAccounted`: the event of every record is consumed, and the key that a
consumed event named is bound.

`OrphanCascade_proofs`. The inductive invariant is
`TypeOK /\ LoopInv /\ OutcomeIsDelta`: between two passes the tombstones lie between
those the call began with and the closure it is to reach, and the outcome names
exactly what was flipped. When no pass finds more, the tombstones are closed, and
so they *are* the closure. That makes `EndDiscard` the step of the atomic
specification and every pass a stutter of it (`CascadeRefinesAtomic`), under the
refinement mapping that shows the records as they were until the call returns.

`DurableGraph_proofs`. The graph in memory takes whole steps, the store follows one
write at a time, and a crash throws the memory away: an invariant of the store must
hold at every point at which it may become the memory. `DurableInv` says where the
two can differ. Memory is ahead of the store (`MemoryIsAhead`): every stored record
is kept by the record in memory, and differs from it only where a write is owed;
at most one key is new, and nothing else is owed then (`NewIsAlone`); what a
discard owes is tombstones (`TombstonesOwed`); inputs are stored before what is
derived of them (`InputsStored`), so that half a cascade is still valid lineage; a
consumed event is stored after its record (`ConsumedBound`). All seven properties of
the run `durable` follow, `DiscardsHeal` with the closure of `HandleGraph_proofs`.
`AcknowledgedIsKept` is a temporal formula: what holds once an operation is over holds
for ever. When nothing is owed, a withdrawal or an answer is in the store
(`StoreMirrors`); it stays in the store from then on (`StoredStep`), and the memory is
never behind the store (`MemoryIsAhead`), not even right after a crash.

`Resolution_proofs`. First the view of a Coordinator: `GraphImplementsView` maps
initial states to initial states and each operation of the graph to an
announcement, a settlement, a withdrawal or a stutter of `CoordinatorView`, with one
lemma for ingestion, one for the discard, one for results; `HostImplementsView`
carries it over to a host that resolves. Then resolution. Neither `Provenance` nor
`SnapshotFresh` is inductive alone: that a result is bound to what its inputs hold
*now* needs that the task still carries it, and that needs that an input cannot be
discarded without its dependents. `TaskInv` joins `TypeOK`, `IsTask` of every task
in the driver's hands, `SnapshotFresh` and `Provenance`. `BudgetIsExact` is
strengthened by: a key without a budget entry whose handle can still be settled was
never retried; without it an `or_insert` could give a handle its attempts back.
`SettledIsForgotten` and `IntentsAreOfAccepted` are inductive given `TypeOK`, by what
`RecordKept` leaves of a settled or refused record. None of these assumes anything
of the driver. `ClaimsMatchTasks` is about the documented one: with it
`ClaimsAreTasks` is inductive, as every outcome of `resolve_claimed_task` releases the
claim of the one task it ends.

`TaskExecution_proofs`. First the arithmetic. A payload stands for a number by the
recursive function `Prefixes`; the carry and the borrow are recursive functions
too, from the last byte to the first. `BoundedRecursion` and `DownwardRecursion`
construct such functions up to a bound and so justify unfolding them;
`BoundedInduction` is induction over the places of a payload, stated with a set of
naturals. `DigitsAddUp` is the heart: digits that add up with a carry at each place
add up as numbers, but for the carry out of the first place, which is worth the
modulus. It gives addition (`AddIsSum`) and, read backwards, subtraction
(`SubIsDifference`); `NumberOrder` says that comparing byte by byte is comparing
numbers. Together: `EvaluateCorrect`, all eleven operations, for payloads of any
length in any radix, so for the 32 bytes of the code. `OperationsAgree` relates the
two tables of operations in crates that do not know each other: the Enclave supports
an operation with an arity and types exactly if the graph accepts them.
Then the calls. `ExecutionInv` joins the shape of a call at each stage (`CallShape`:
its output still Pending, its inputs Ready, its material approved), that every
envelope MPC has made, late ones included, holds what its handle holds for good
(`EnvelopesFaithful`), that ciphertexts are bound to their handle and type
(`CiphertextsBound`), that what is Ready has Ready inputs (`InputsReady`, without which
a result could be overtaken by its input), and `Undisturbed`: as long as nothing
outside the host went wrong, the envelopes are those of the task, for the Enclave
that runs. `ResultsAreCorrect` rests on `EvaluateCorrect`, `ReceiptsAreTruthful` on
`ReceiptRoundTrip`, and `RefusalsAreExplained` on `OperationsAgree`. Nothing is assumed of
the request ids MPC binds: the property names an id that does not match as one of
the three reasons to refuse. What the host makes of that reason is the other
theorem: `EchoedIdsAreRefused` takes the only id the host sends MPC as the one MPC
binds, and then no task is ever materialized. That is finding 4 for every value of
the constants. Its invariant says that every envelope, late ones included, answers
a request of the host (`AnswersRequest`).

`ChainLogDecoder_proofs`. `LineageStaysInContract`: an operation and its inputs are
keyed alike (`DecodedOperation`), and no operation of the core rebinds lineage.

`CoprocessorHost_proofs`. The inductive invariant `HostInv` joins that both
configurations are well typed, that a running host's is valid, and that the active
key is the configured or a supplied one. That `Ready` implies an Enclave that can be
attested and is the approved one follows (`ReadinessCorrect`). That a reload never
spoils a valid configuration (`ReloadsKeepValid`) is a fact about `Reloaded` alone.
Then the records. `LogOrderExists` constructs the order `InLogOrder` chooses, one
position of the chain after the other, `PassUnfold` the recursive function in `Pass`,
so that a pass can be followed event by event for any poll. `HostGraphInv` adds that
the records are well formed and no plaintext is bound to a key that is neither
trusted nor supplied; for that, every configuration an operator can come to must
keep what served documents are compared with (`ConfigTrusted`). `PlaintextsCorrect`
follows. For `CanonicalMirrorsView` a graph *mirrors* a set of events (`Mirrors`): its
keys and consumed references are theirs, with an event the set has all that come
before it on its branches, and each record is the one made of the first event of
its key, validated against the events before it and nothing else (`MadeOf`). An event
applied after its predecessors keeps that (`ApplyMirrors`): by `BranchesAgree`,
validation finds the same inputs as on a chain that never had another branch
(`StateIsMirrored`). A discard keeps it (`DiscardMirrors`), and so does a pass over
any window that skips nothing unseen (`PassMirrors`). `MirrorInv` joins this with: right
after a pass, canonical records are of events of the view. The replay of the view
mirrors the same events, so the two records of a key are of one event, and equal
but for the key of a plaintext (`SameButForKey`): `ReadsAreOfTheView`.

`CiphertextBinding_proofs`. The codec for any size of a byte, any widths of headers,
any lengths and any payloads, so for RFC 8949 and the sizes of the code. It goes up
from numbers. `FromBigEndianInverse` and `BigEndianInverse`: the big-endian
conversions invert each other between the sequences of `w` bytes and the numbers
below `Powers[w]`, by induction over the places, with `DivModUnique` at each.
`HeaderRead` and `HeaderWritten`: a header that is accepted is the one that is written
for its number, and one that was written is read and leaves what follows it; this
is where `MinValue`, the check for the shortest form, is needed. `FieldRead` and
`FieldWritten` say it of a field, `FieldsRead` and `FieldsWritten` of a list of fields,
`AadRead`, `AadWritten`, `EnvelopeRead` and `EnvelopeWritten` of whole values, where
the two lists of fields of a kind, that of the encoder and that of the decoder, meet
(`BodyFacts`, `EnvelopeFacts`). `OneReadingCorrect`: no byte string is accepted by two
decoders. Every decoder reads the header of the array first, so two that accept the
same bytes agree on it; the lengths 4, 6, 7 and 9 leave the envelopes of an Enclave
and of a Reader, which the kind of their AAD tells apart, and AAD of different
kinds, which name theirs. `RoundTripCorrect` joins it with `AadWritten` and
`EnvelopeWritten`, and `CanonicalCorrect` is `AadRead` and `EnvelopeRead`. The inductive
invariant is `Received`: the bytes are bytes, and while none was changed they are the
encoding of what was sent.

Model-checked only: the liveness properties (`DiscardTerminates` and
`PendingIsSettled`), which are out of the prover's reach. Every other property of a
passing run is a theorem. What a fold or a recursive operator computes for every
input could not be proved; the arithmetic of the Enclave, the codec and the pass
are written with recursive functions instead, which are constructed up to a bound
before they are unfolded, by an induction stated with a set of naturals.

## Findings

1. `durable_cascade`: a crash during the writes of a discard leaves the root
   tombstoned and its dependents canonical in the store; `orphan.rs:62-64` says a
   restart restores the full cascade. The next discard heals it (`DiscardHeals`).
2. `chain_idempotence`: a Derived Handle over a tombstoned input is accepted and
   canonical until the next pass discards it, so a repeated pass changes the
   graph; `chain_ingestion.rs:125-128` calls passes idempotent.
3. `resolution_reply`: a retryable failure is answered `Pending` without a look at
   the record, also when the handle was discarded meanwhile;
   `resolve_enclave.rs:69-71` says the reply reflects the state after the call.
4. `task_request_id`: the host names an input to MPC by one request id and to the
   Enclave by another; if MPC binds the id it was asked under, the local Enclave
   refuses every task.

Observations that no run states as a finding:

- The host's public methods call the variants of the core's operations that do not
  persist, so the persistence `DurableGraph` models is reached by tests only.
- An event mined again after a reorganisation under its old key is rejected as a
  duplicate of a *tombstoned* record, and the key stays unknown to readers, while
  `chain_ingestion.rs:90-92` speaks of duplicates of canonical records.
  `CanonicalMirrorsView` states what does hold: what is read is right, but not all
  of the view is read.
- `CanonicalMirrorsView` holds under `BranchesAgree`. Validation looks inputs up among
  all records, tombstoned ones included (`ingestion.rs:243-250`). An operation with an
  input that only an orphaned branch named is therefore accepted, and `Pending` until
  the next discard withdraws it, by a host that saw that branch, and `Failed` by one
  that did not; `CONTEXT.md:418-419` asks for inputs known in canonical log order. An
  input nobody named, or one named too late, is `Failed` in both and not excused.
- `resolution_scheduler.rs:133-135` says budgets are removed when a handle is
  settled, which `SettledIsForgotten` confirms; the budget of a handle that is
  discarded between two attempts, and its intent, are never removed.
- `restore_from_persistence_with_materializer` takes any key: that it is the
  host's active one (`construction.rs:56-59`) is the caller's business, and
  `PlaintextsAreBound` excuses such keys.
- `shutdown` takes a host from `NotStarted` to `ShutDown` (`lifecycle.rs:7-8` calls the
  transitions linear), and no read, ingestion or resolution looks at the phase.
- `encode` does not look into the AAD of an envelope: a Reader envelope around the
  AAD of an Enclave has the bytes of an Enclave envelope and is decoded as one.
  `RoundTrip` says so.

## Assumed of the surroundings

- A restored host is given a store that mirrors the whole graph, and its source
  goes on where it was; a new host has a new source. `ChainEventSource` does not say
  what a source does that was restarted with its host. What a partial store leads
  to is the subject of `DurableGraph`.
- A poll skips no event of the view that was not surfaced, and names the references
  of all surfaced events that left the view.
- The MPC endpoint may serve anything; MPC transforms honestly but late, and the
  Enclave that answers may have been replaced since it was attested.

## Not modelled, and why

- `wire-codec`: a mapping to JSON by serde, which is external, and a scan for
  duplicate names and escapes; no state and no interaction. The document of the MPC
  public configuration is modelled by the fields it must have, not as text.
- Sealing, key generation, attestation documents: cryptography, used as opaque.
- `FakeEnclaveRuntime`: a test double that answers what it is told.
- `main.rs`, logging, the test fixtures, the scripts of the repository: no behaviour
  of their own.

## Plan

Done: the core (`HandleOperations`, `HandleGraph`, `ChainLogDecoder`, `OrphanCascade`),
resolution (`Resolution`, `EnclaveOperations`, `TaskExecution`), persistence and
ingestion (`DurableGraph`, `ChainIngestion`), what is promised to a Coordinator
(`CoordinatorView`, `CoordinatorApi`), the host (`CoprocessorHost`) and the codec
(`CiphertextBinding`). Left:

1. `TaskExecution` as an implementation of the step `ResolveClaimedTask`, with the
   mapping of a call in progress to a task in the driver's hands.
2. The checks of the Nitro adapter that have no counterpart in the local one (an
   empty document, the length of a public key).
