--------------------------- MODULE CoprocessorHost ---------------------------
(***************************************************************************)
(* The Coprocessor Host around its Handle Graph (crates/coprocessor-host): *)
(* its configuration and the reload of the MPC public configuration, its   *)
(* construction, restart, start and shutdown, and its readiness, over the  *)
(* chain of module ChainIngestion.  The host's operator keeps a            *)
(* HostConfig, reloads it from the MPC endpoint and builds host after host *)
(* from it; each seeds its graph with the MPC key its plaintexts are bound *)
(* to.                                                                     *)
(*                                                                         *)
(* A host may ingest and resolve before it is started and after it is shut *)
(* down: no operation looks at the lifecycle.  A store is a complete       *)
(* mirror of the graph, and the chain source goes on where it was when a   *)
(* host is restored; a new host has a new source.                          *)
(*                                                                         *)
(* A result that is Ok(x) or Err is the set {x} or {}: the errors are not  *)
(* told apart.                                                             *)
(***************************************************************************)
EXTENDS ChainIngestion

CONSTANTS
  Measurement,     \* the measurements of Enclaves
  ZeroMeasurement, \* 32 zero bytes
  BlankLabel,      \* the labels of which trimming leaves nothing
  DependencyName,  \* SymVmEventSurface, Mpc and Enclave
  FirstConfigs,    \* the configurations an operator may start from
  Documents,       \* what the MPC endpoint may serve, sound or not
  SuppliedKey      \* the keys of the materializers callers of
                   \* restore_from_persistence_with_materializer supply

VARIABLES
  operator_config,        \* the HostConfig hosts are built from
  config,                 \* the host's own, a copy
  lifecycle,              \* NotStarted, Running or ShutDown
  available_dependencies  \* the dependencies marked available

configVars == <<operator_config, config>>
hostVars   == <<configVars, lifecycle, available_dependencies>>
allVars    == <<vars, hostVars>>

(***************************************************************************)
(* Configuration.                                                          *)
(***************************************************************************)
ReaderKeyAlgorithm == {"X25519"}
CiphertextSuite    == {"HpkeX25519HkdfSha256Aes256Gcm"}

MpcPublicConfig ==
  [chain_id : Nat, domain_id : DomainId, key_id : KeyId,
   reader_key_algorithm : ReaderKeyAlgorithm, ciphertext_suite : CiphertextSuite,
   approved_enclave_measurement : Measurement]

MpcConfigExpectations ==
  [chain_id : Nat, domain_id : DomainId,
   reader_key_algorithm : ReaderKeyAlgorithm, ciphertext_suite : CiphertextSuite]

\* One record for the two attestation configurations: what a Local one has
\* besides is served as it is, and it has no use for the length.
EnclaveAttestationConfig ==
  [mode : {"Local", "Nitro"}, enclave_measurement : Measurement,
   expected_public_key_len : Nat]

HostConfig ==
  [deployment_label : STRING, max_attempts : Nat, public_config : MpcPublicConfig,
   expectations : MpcConfigExpectations, enclave_attestation : EnclaveAttestationConfig]

ASSUME ConfigAssumption ==
  /\ FirstConfigs \subseteq HostConfig
  /\ ZeroMeasurement \in Measurement
  /\ SuppliedKey \subseteq KeyId

\* parse_mpc_public_config: the document has every field, each of its form,
\* and no other.
ParseMpcPublicConfig(document) == {document} \cap MpcPublicConfig

\* Mutant: the domain is not compared.
CompatibleButDomain(public_config, expectations) ==
  \A field \in DOMAIN expectations \ {"domain_id"} :
    public_config[field] = expectations[field]

\* check_compatibility
CheckCompatibility(public_config, expectations) ==
  \A field \in DOMAIN expectations : public_config[field] = expectations[field]

LoadMpcPublicConfig(document, expectations) ==
  {c \in ParseMpcPublicConfig(document) : CheckCompatibility(c, expectations)}

\* Mutant: whatever is loaded is adopted.
ReloadedUnmeasured(cfg, document) ==
  {[cfg EXCEPT !.public_config = c] : c \in LoadMpcPublicConfig(document, cfg.expectations)}

\* reload_mpc_public_config: the configuration after a reload that succeeds.
Reloaded(cfg, document) ==
  {[cfg EXCEPT !.public_config = c] :
     c \in {l \in LoadMpcPublicConfig(document, cfg.expectations) :
              l.approved_enclave_measurement = cfg.enclave_attestation.enclave_measurement}}

\* NitroAdapterConfig::validate
NitroConfigOK(a) ==
  a.expected_public_key_len # 0 /\ a.enclave_measurement # ZeroMeasurement

\* Mutant: the measurement MPC approves is not compared with the Enclave's.
ValidUnmeasured(cfg) ==
  /\ cfg.deployment_label \notin BlankLabel
  /\ cfg.max_attempts # 0
  /\ CheckCompatibility(cfg.public_config, cfg.expectations)
  /\ cfg.enclave_attestation.mode = "Nitro" => NitroConfigOK(cfg.enclave_attestation)

\* HostConfig::validate
Valid(cfg) ==
  /\ cfg.deployment_label \notin BlankLabel
  /\ cfg.max_attempts # 0
  /\ CheckCompatibility(cfg.public_config, cfg.expectations)
  /\ cfg.enclave_attestation.mode = "Nitro" => NitroConfigOK(cfg.enclave_attestation)
  /\ cfg.public_config.approved_enclave_measurement
       = cfg.enclave_attestation.enclave_measurement

\* build_local_attestation_source and build_nitro_attestation_source: the
\* source the factory for this mode makes, known by the measurement of the
\* material it serves.
AttestationSource(cfg, mode) ==
  LET attestation == cfg.enclave_attestation
  IN  IF attestation.mode = mode /\ (mode = "Nitro" => NitroConfigOK(attestation))
        THEN {attestation.enclave_measurement} ELSE {}

(***************************************************************************)
(* Construction and restart.                                               *)
(***************************************************************************)
FromHandleGraphCore(cfg) ==
  /\ config' = cfg
  /\ lifecycle' = "NotStarted"
  /\ available_dependencies' = {}

\* The configuration may be reloaded at any time; no host notices.
ReloadMpcPublicConfig(document) ==
  /\ operator_config' \in Reloaded(operator_config, document)
  /\ poll' = NoPoll
  /\ UNCHANGED <<graphVars, chainVars, surfaced, config, lifecycle, available_dependencies>>

\* CoprocessorHost::new, and a source that starts over.
NewHost ==
  /\ FromHandleGraphCore(operator_config)
  /\ records' = [k \in {} |-> k]
  /\ consumed_events' = {}
  /\ plaintext_key_id' = operator_config.public_config.key_id
  /\ surfaced' = {}
  /\ poll' = NoPoll
  /\ UNCHANGED <<chainVars, operator_config>>

\* restore_from_persistence re-seeds the graph from the configuration, and
\* restore_from_persistence_with_materializer with what it is given.
RestoreHost(key_id) ==
  /\ FromHandleGraphCore(operator_config)
  /\ plaintext_key_id' = key_id
  /\ poll' = NoPoll
  /\ UNCHANGED <<records, consumed_events, chainVars, surfaced, operator_config>>

RestoreFromPersistence == RestoreHost(operator_config.public_config.key_id)

RestoreWithMaterializer == \E key_id \in SuppliedKey : RestoreHost(key_id)

(***************************************************************************)
(* Lifecycle and readiness.                                                *)
(***************************************************************************)
LifecycleStep(next) ==
  /\ lifecycle' = next
  /\ poll' = NoPoll
  /\ UNCHANGED <<graphVars, chainVars, surfaced, configVars, available_dependencies>>

Start == lifecycle = "NotStarted" /\ Valid(config) /\ LifecycleStep("Running")

Shutdown == lifecycle # "ShutDown" /\ LifecycleStep("ShutDown")

MarkDependency(available) ==
  /\ available_dependencies' = available
  /\ poll' = NoPoll
  /\ UNCHANGED <<graphVars, chainVars, surfaced, configVars, lifecycle>>

MarkDependencyAvailable(dep) ==
  dep \notin available_dependencies /\ MarkDependency(available_dependencies \cup {dep})

MarkDependencyUnavailable(dep) ==
  dep \in available_dependencies /\ MarkDependency(available_dependencies \ {dep})

Readiness ==
  IF lifecycle # "Running" THEN lifecycle
  ELSE IF available_dependencies = DependencyName THEN "Ready" ELSE "ConfigurationLoaded"

(***************************************************************************)
(* The specification.                                                      *)
(***************************************************************************)
HostInit ==
  /\ Init
  /\ operator_config \in FirstConfigs
  /\ config = operator_config
  /\ plaintext_key_id = config.public_config.key_id
  /\ lifecycle = "NotStarted"
  /\ available_dependencies = {}

ChainStep == Next /\ UNCHANGED hostVars

HostNext ==
  \/ ChainStep
  \/ \E document \in Documents : ReloadMpcPublicConfig(document)
  \/ NewHost
  \/ RestoreFromPersistence
  \/ RestoreWithMaterializer
  \/ Start
  \/ Shutdown
  \/ \E dep \in DependencyName : MarkDependencyAvailable(dep) \/ MarkDependencyUnavailable(dep)

HostSpec == HostInit /\ [][HostNext]_allVars

(***************************************************************************)
(* Properties.                                                             *)
(***************************************************************************)
\* A host that reports Ready has every dependency, at least one attempt for a
\* task, and an attestation source that can be built and serves what MPC
\* approves: whatever was reloaded, restored, marked or restarted since it
\* was started.
ReadyIsConsistent ==
  Readiness = "Ready" =>
    /\ available_dependencies = DependencyName
    /\ config.max_attempts > 0
    /\ AttestationSource(config, config.enclave_attestation.mode)
         = {config.public_config.approved_enclave_measurement}

\* A reload never makes a configuration that would start into one that would
\* not: its checks are as strict as those of validate.
ReloadKeepsValid ==
  [][Valid(operator_config) => Valid(operator_config')]_allVars

\* The keys of the configurations a host may trust: those an operator started
\* from, and those served for its chain and its domain that approve its own
\* Enclave.
TrustedKey ==
  {cfg.public_config.key_id : cfg \in FirstConfigs}
    \cup {document.key_id :
            document \in {d \in Documents \cap MpcPublicConfig :
              \E cfg \in FirstConfigs :
                /\ d.chain_id = cfg.expectations.chain_id
                /\ d.domain_id = cfg.expectations.domain_id
                /\ d.approved_enclave_measurement
                     = cfg.enclave_attestation.enclave_measurement}}

\* The key a graph binds plaintexts to is that of its host's configuration,
\* unless a caller supplied the materializer: then nothing compares the two.
ActiveKeyIsConfigured ==
  \/ plaintext_key_id = config.public_config.key_id
  \/ plaintext_key_id \in SuppliedKey

\* Over reloads and restarts, and the changes of the key they bring, no
\* plaintext in the graph is bound to any but a trusted key, or one that a
\* caller supplied.
PlaintextsAreBound ==
  /\ ActiveKeyIsConfigured
  /\ \A e \in ChainEvents \cap PlaintextHandle :
       (e.handle_key \in DOMAIN records /\ records[e.handle_key].event_ref = e.event_ref) =>
         records[e.handle_key].state.system_ciphertext.key_id \in TrustedKey \cup SuppliedKey

HandleTypeOf(e) ==
  IF e.kind = "DerivedHandleOperation" THEN e.output_handle_type ELSE e.handle_type

\* What a Handle Key stands for does not depend on the branch: the events that
\* name it agree on its domain and type, and an operation with an input that
\* is named on another branch finds it named before on its own.
BranchesAgree ==
  /\ \A e, f \in ChainEvents : e.handle_key = f.handle_key =>
       e.domain_id = f.domain_id /\ HandleTypeOf(e) = HandleTypeOf(f)
  /\ \A B \in Branch : \A e \in B \cap DerivedHandleOperation :
       \A i \in DOMAIN e.input_handle_keys :
         (\E f \in ChainEvents \ B : f.handle_key = e.input_handle_keys[i]) =>
           \E f \in B : /\ f.handle_key = e.input_handle_keys[i]
                        /\ LogPosition[f] < LogPosition[e]

\* However the events came in, in how many passes, how often, over which
\* reorganisations, restarts and changes of the MPC key: what a normal read
\* sees after a pass is what a host sees that was given the events of the
\* view alone, in log order, but for the keys plaintexts are bound to; and
\* of the Handle Keys the view names none is unknown to the graph.  In
\* particular no record of an event that left the view is read.
CanonicalMirrorsView ==
  [][BranchesAgree /\ UNCHANGED <<chainVars, plaintext_key_id, hostVars>>
       => MirrorsView]_allVars
=============================================================================
