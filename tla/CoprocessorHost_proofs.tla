------------------------ MODULE CoprocessorHost_proofs -----------------------
(***************************************************************************)
(* Proofs about CoprocessorHost.  What a host promises of its              *)
(* configuration, its readiness and its key does not depend on the chain:  *)
(* the steps of the chain leave all of them alone.  What it promises of    *)
(* its records holds before a pass, and each event of the pass keeps it.   *)
(***************************************************************************)
EXTENDS CoprocessorHost, HandleGraph_proofs, FiniteSetTheorems

\* Every configuration an operator or a host has comes from FirstConfigs by
\* reloads, and a lifecycle has three phases.
ConfigsOK ==
  /\ operator_config \in HostConfig
  /\ config \in HostConfig
  /\ lifecycle \in {"NotStarted", "Running", "ShutDown"}

\* A host that runs was started with a configuration that is valid, and has
\* had no other since.
RunningIsValid == lifecycle = "Running" => Valid(config)

HostInv == ConfigsOK /\ RunningIsValid /\ ActiveKeyIsConfigured

(***************************************************************************)
(* Reloads.                                                                *)
(***************************************************************************)
\* What a reload may change, and what it has checked.
LEMMA ReloadFacts ==
  ASSUME NEW cfg \in HostConfig, NEW document, NEW new \in Reloaded(cfg, document)
  PROVE  /\ new \in HostConfig
         /\ new = [cfg EXCEPT !.public_config = new.public_config]
         /\ new.public_config = document
         /\ document \in MpcPublicConfig
         /\ CheckCompatibility(new.public_config, cfg.expectations)
         /\ new.public_config.approved_enclave_measurement
              = cfg.enclave_attestation.enclave_measurement
<1>1. PICK c \in LoadMpcPublicConfig(document, cfg.expectations) :
        /\ c.approved_enclave_measurement = cfg.enclave_attestation.enclave_measurement
        /\ new = [cfg EXCEPT !.public_config = c]
  BY DEF Reloaded
<1>2. /\ c = document
      /\ c \in MpcPublicConfig
      /\ CheckCompatibility(c, cfg.expectations)
  BY <1>1 DEF LoadMpcPublicConfig, ParseMpcPublicConfig
<1>3. new \in HostConfig /\ new.public_config = c
  BY <1>1, <1>2 DEF HostConfig
<1>. QED
  BY <1>1, <1>2, <1>3

\* A reload keeps a valid configuration valid.
LEMMA ReloadIsValid ==
  ASSUME NEW cfg \in HostConfig, NEW document, NEW new \in Reloaded(cfg, document),
         Valid(cfg)
  PROVE  Valid(new)
<1>1. /\ new.deployment_label = cfg.deployment_label
      /\ new.max_attempts = cfg.max_attempts
      /\ new.expectations = cfg.expectations
      /\ new.enclave_attestation = cfg.enclave_attestation
  BY ReloadFacts DEF HostConfig
<1>. QED
  BY <1>1, ReloadFacts DEF Valid

(***************************************************************************)
(* The invariant.                                                          *)
(***************************************************************************)
LEMMA ChainKeepsKey ==
  ASSUME Next
  PROVE  UNCHANGED plaintext_key_id
BY DEF Next, PollAndIngest, IngestChainEvents, ChainGrows, Reorg, graphVars

\* A host that is built, in whichever way, is not yet running.
LEMMA ConstructionKeepsInv ==
  ASSUME HostInv, FromHandleGraphCore(operator_config), UNCHANGED operator_config,
         plaintext_key_id' \in {operator_config.public_config.key_id} \cup SuppliedKey
  PROVE  HostInv'
BY DEF HostInv, ConfigsOK, RunningIsValid, ActiveKeyIsConfigured, FromHandleGraphCore

LEMMA StepKeepsInv ==
  ASSUME HostInv, [HostNext]_allVars
  PROVE  HostInv'
<1>1. CASE ChainStep
  <2>1. UNCHANGED <<plaintext_key_id, operator_config, config, lifecycle>>
    BY <1>1, ChainKeepsKey DEF ChainStep, hostVars, configVars
  <2>. QED
    BY <2>1 DEF HostInv, ConfigsOK, RunningIsValid, ActiveKeyIsConfigured
<1>2. ASSUME NEW document \in Documents, ReloadMpcPublicConfig(document)
      PROVE  HostInv'
  <2>1. /\ operator_config' \in Reloaded(operator_config, document)
        /\ UNCHANGED <<plaintext_key_id, config, lifecycle>>
    BY <1>2 DEF ReloadMpcPublicConfig, graphVars
  <2>2. operator_config' \in HostConfig
    BY <2>1, ReloadFacts DEF HostInv, ConfigsOK
  <2>. QED
    BY <2>1, <2>2 DEF HostInv, ConfigsOK, RunningIsValid, ActiveKeyIsConfigured
<1>3. CASE NewHost
  BY <1>3, ConstructionKeepsInv DEF NewHost
<1>4. CASE RestoreFromPersistence
  BY <1>4, ConstructionKeepsInv DEF RestoreFromPersistence, RestoreHost
<1>5. CASE RestoreWithMaterializer
  BY <1>5, ConstructionKeepsInv DEF RestoreWithMaterializer, RestoreHost
<1>6. CASE Start
  BY <1>6 DEF Start, LifecycleStep, HostInv, ConfigsOK, RunningIsValid,
              ActiveKeyIsConfigured, graphVars, configVars
<1>7. CASE Shutdown
  BY <1>7 DEF Shutdown, LifecycleStep, HostInv, ConfigsOK, RunningIsValid,
              ActiveKeyIsConfigured, graphVars, configVars
<1>8. ASSUME NEW available, MarkDependency(available)
      PROVE  HostInv'
  BY <1>8 DEF MarkDependency, HostInv, ConfigsOK, RunningIsValid,
              ActiveKeyIsConfigured, graphVars, configVars
<1>9. CASE UNCHANGED allVars
  BY <1>9 DEF allVars, vars, hostVars, graphVars, configVars, HostInv, ConfigsOK,
              RunningIsValid, ActiveKeyIsConfigured
<1>. QED
  BY <1>1, <1>2, <1>3, <1>4, <1>5, <1>6, <1>7, <1>8, <1>9
     DEF HostNext, MarkDependencyAvailable, MarkDependencyUnavailable

LEMMA HostInvariant == HostSpec => []HostInv
<1>1. HostInit => HostInv
  BY ConfigAssumption
     DEF HostInit, HostInv, ConfigsOK, RunningIsValid, ActiveKeyIsConfigured
<1>. QED
  BY <1>1, StepKeepsInv, PTL DEF HostSpec

(***************************************************************************)
(* Theorems.                                                               *)
(***************************************************************************)
\* The key a graph binds plaintexts to is the one its host is configured
\* with, whatever is reloaded and restored, unless a caller supplied it.
THEOREM ActiveKeyCorrect == HostSpec => []ActiveKeyIsConfigured
BY HostInvariant, PTL DEF HostInv

\* A host that reports Ready can attest an Enclave that MPC approves, has all
\* its dependencies, and tries a task at least once.
THEOREM ReadinessCorrect == HostSpec => []ReadyIsConsistent
<1>1. HostInv => ReadyIsConsistent
  <2> SUFFICES ASSUME HostInv, Readiness = "Ready"
               PROVE  /\ available_dependencies = DependencyName
                      /\ config.max_attempts > 0
                      /\ AttestationSource(config, config.enclave_attestation.mode)
                           = {config.public_config.approved_enclave_measurement}
    BY DEF ReadyIsConsistent
  <2>1. lifecycle = "Running" /\ available_dependencies = DependencyName
    BY DEF Readiness, HostInv, ConfigsOK
  <2>2. Valid(config) /\ config.max_attempts \in Nat
    BY <2>1 DEF HostInv, RunningIsValid, ConfigsOK, HostConfig
  <2>3. config.max_attempts > 0
    <3>1. config.max_attempts # 0
      BY <2>2 DEF Valid
    <3>. QED
      BY <2>2, <3>1
  <2>4. /\ config.enclave_attestation.mode = "Nitro" =>
             NitroConfigOK(config.enclave_attestation)
        /\ config.public_config.approved_enclave_measurement
             = config.enclave_attestation.enclave_measurement
    BY <2>2 DEF Valid
  <2>5. AttestationSource(config, config.enclave_attestation.mode)
          = {config.public_config.approved_enclave_measurement}
    BY <2>4, Zenon DEF AttestationSource
  <2>. QED
    BY <2>1, <2>3, <2>5
<1>. QED
  BY <1>1, HostInvariant, PTL

\* Only a reload changes the operator's configuration.
LEMMA OnlyReloads ==
  ASSUME [HostNext]_allVars
  PROVE  \/ \E document \in Documents :
              operator_config' \in Reloaded(operator_config, document)
         \/ UNCHANGED operator_config
BY DEF HostNext, ChainStep, ReloadMpcPublicConfig, NewHost, RestoreFromPersistence,
       RestoreWithMaterializer, RestoreHost, Start, Shutdown, LifecycleStep,
       MarkDependencyAvailable, MarkDependencyUnavailable, MarkDependency,
       allVars, hostVars, configVars

\* No reload makes a configuration that would start into one that would not.
THEOREM ReloadsKeepValid == HostSpec => ReloadKeepsValid
<1>1. HostInv /\ [HostNext]_allVars
        => [Valid(operator_config) => Valid(operator_config')]_allVars
  <2> SUFFICES ASSUME HostInv, [HostNext]_allVars, Valid(operator_config)
               PROVE  Valid(operator_config')
    OBVIOUS
  <2>. QED
    BY OnlyReloads, ReloadIsValid DEF HostInv, ConfigsOK
<1>. QED
  BY <1>1, HostInvariant, PTL DEF HostSpec, ReloadKeepsValid

(***************************************************************************)
(* Induction on natural numbers, stated with sets.                         *)
(***************************************************************************)
\* A set of naturals that is not empty has a least element.
LEMMA LeastNatural ==
  ASSUME NEW T \in SUBSET Nat, T # {}
  PROVE  \E x \in T : \A y \in T : x <= y
<1> DEFINE R == OpToRel(<, Nat)
<1>1. IsWellFoundedOn(R, Nat)
  BY NatLessThanWellFounded
<1>2. \A x, y \in Nat : x < y => <<x, y>> \in R
  BY DEF OpToRel
<1> HIDE DEF R
<1>3. PICK x \in T : \A y \in T : <<y, x>> \notin R
  BY <1>1, WFMin
<1>4. ASSUME NEW y \in T PROVE x <= y
  <2>1. <<y, x>> \notin R
    BY <1>3
  <2>2. x \in Nat /\ y \in Nat /\ ~(y < x)
    BY <1>2, <2>1
  <2>. QED
    BY <2>2
<1>. QED
  BY <1>4

\* Induction up to a bound.
LEMMA BoundedInduction ==
  ASSUME NEW n \in Nat, NEW T \in SUBSET (0..n), 0 \in T,
         \A m \in T : m < n => m + 1 \in T
  PROVE  T = 0..n
<1> SUFFICES ASSUME (0..n) \ T # {} PROVE FALSE
  OBVIOUS
<1>1. PICK x \in (0..n) \ T : \A y \in (0..n) \ T : x <= y
  <2> DEFINE U == (0..n) \ T
  <2>1. U \in SUBSET Nat /\ U # {}
    OBVIOUS
  <2> HIDE DEF U
  <2>2. \E x \in U : \A y \in U : x <= y
    BY <2>1, LeastNatural
  <2>. QED
    BY <2>2 DEF U
<1>2. x # 0 /\ x - 1 \in 0..n /\ x - 1 \in T
  BY <1>1
<1>. QED
  BY <1>1, <1>2

(***************************************************************************)
(* The events of a poll in log order.                                      *)
(***************************************************************************)
\* What InLogOrder chooses from.
LogOrder(events, s) ==
  /\ s \in SetToSeqs(events)
  /\ \A i, j \in DOMAIN s : i < j => LogPosition[s[i]] < LogPosition[s[j]]

\* An event of a later position than all others goes to the end.
LEMMA LastInOrder ==
  ASSUME NEW events \in SUBSET ChainEvents, IsFiniteSet(events),
         NEW s, LogOrder(events, s),
         NEW e \in ChainEvents, \A f \in events : LogPosition[f] < LogPosition[e]
  PROVE  /\ IsFiniteSet(events \cup {e})
         /\ \E t : LogOrder(events \cup {e}, t)
<1> DEFINE n == Cardinality(events)
           t == [i \in 1..(n + 1) |-> IF i = n + 1 THEN e ELSE s[i]]
<1>1. e \notin events
  <2>1. LogPosition[e] \in Nat
    BY ChainAssumption
  <2>. QED
    BY <2>1
<1>2. /\ n \in Nat
      /\ IsFiniteSet(events \cup {e})
      /\ Cardinality(events \cup {e}) = n + 1
  BY <1>1, FS_CardinalityType, FS_AddElement
<1>3. /\ s \in [1..n -> events]
      /\ \A i, j \in 1..n : i # j => s[i] # s[j]
      /\ \A i, j \in 1..n : i < j => LogPosition[s[i]] < LogPosition[s[j]]
  BY DEF LogOrder, SetToSeqs
<1> HIDE DEF n
<1>4. /\ t[n + 1] = e
      /\ \A i \in 1..(n + 1) : i # n + 1 => i \in 1..n /\ t[i] = s[i] /\ s[i] \in events
  BY <1>2, <1>3
<1> HIDE DEF t
<1>5. DOMAIN t = 1..(n + 1) /\ t \in [1..(n + 1) -> events \cup {e}]
  BY <1>4 DEF t
<1>6. \A i, j \in 1..(n + 1) : i # j => t[i] # t[j]
  BY <1>1, <1>3, <1>4
<1>7. ASSUME NEW i \in 1..(n + 1), NEW j \in 1..(n + 1), i < j
      PROVE  LogPosition[t[i]] < LogPosition[t[j]]
  <2>1. i # n + 1
    BY <1>2, <1>7
  <2>2. CASE j = n + 1
    BY <1>4, <2>1, <2>2
  <2>3. CASE j # n + 1
    BY <1>3, <1>4, <1>7, <2>1, <2>3
  <2>. QED
    BY <2>2, <2>3
<1>8. LogOrder(events \cup {e}, t)
  BY <1>2, <1>5, <1>6, <1>7 DEF LogOrder, SetToSeqs
<1>. QED
  BY <1>2, <1>8

\* Events of one branch, up to a height, are finitely many and have an order.
LEMMA LogOrderExists ==
  ASSUME NEW events \in SUBSET ChainEvents, NEW h \in Nat,
         \A e \in events : LogPosition[e] <= h,
         \A e, f \in events : LogPosition[e] = LogPosition[f] => e = f
  PROVE  IsFiniteSet(events) /\ \E s : LogOrder(events, s)
<1> DEFINE below(m) == {e \in events : LogPosition[e] < m}
           Ordered(m) == IsFiniteSet(below(m)) /\ \E s : LogOrder(below(m), s)
           T == {m \in 0..(h + 1) : Ordered(m)}
<1>1. \A e \in events : LogPosition[e] \in Nat
  BY ChainAssumption
<1>2. Ordered(0)
  <2>1. below(0) = {}
    BY <1>1
  <2>2. LogOrder({}, <<>>)
    BY FS_EmptySet DEF LogOrder, SetToSeqs
  <2>. QED
    BY <2>1, <2>2, FS_EmptySet
<1>3. ASSUME NEW m \in T, m < h + 1 PROVE Ordered(m + 1)
  <2>1. m \in Nat /\ Ordered(m)
    OBVIOUS
  <2>2. PICK s : LogOrder(below(m), s)
    BY <2>1
  <2>3. CASE \E e \in events : LogPosition[e] = m
    <3>1. PICK e \in events : LogPosition[e] = m
      BY <2>3
    <3>2. below(m + 1) = below(m) \cup {e}
      BY <1>1, <2>1, <3>1
    <3>3. /\ below(m) \in SUBSET ChainEvents
          /\ \A f \in below(m) : LogPosition[f] < LogPosition[e]
      BY <3>1
    <3> HIDE DEF below
    <3>. QED
      BY <2>1, <2>2, <3>1, <3>2, <3>3, LastInOrder
  <2>4. CASE ~ \E e \in events : LogPosition[e] = m
    <3>1. below(m + 1) = below(m)
      BY <1>1, <2>1, <2>4
    <3>. QED
      BY <2>1, <3>1
  <2>. QED
    BY <2>3, <2>4
<1> HIDE DEF Ordered
<1>4. h + 1 \in T
  <2>1. T \in SUBSET (0..(h + 1)) /\ 0 \in T
    BY <1>2
  <2>2. \A m \in T : m < h + 1 => m + 1 \in T
    BY <1>3
  <2> HIDE DEF T
  <2>3. T = 0..(h + 1)
    BY <2>1, <2>2, BoundedInduction
  <2>. QED
    BY <2>3
<1>5. below(h + 1) = events
  BY <1>1
<1>. QED
  BY <1>4, <1>5 DEF Ordered

\* So the order InLogOrder chooses has the events of the poll, all of them and
\* no others, by their positions.
LEMMA InLogOrderFacts ==
  ASSUME NEW events \in SUBSET ChainEvents, NEW h \in Nat,
         \A e \in events : LogPosition[e] <= h,
         \A e, f \in events : LogPosition[e] = LogPosition[f] => e = f
  PROVE  /\ Cardinality(events) \in Nat
         /\ \A i \in 1..Cardinality(events) : InLogOrder(events)[i] \in events
         /\ \A e \in events : \E i \in 1..Cardinality(events) : e = InLogOrder(events)[i]
         /\ \A i, j \in 1..Cardinality(events) :
              i < j => LogPosition[InLogOrder(events)[i]] < LogPosition[InLogOrder(events)[j]]
<1> DEFINE n == Cardinality(events)
           s == InLogOrder(events)
<1>1. PICK t : LogOrder(events, t)
  BY LogOrderExists
<1>2. LogOrder(events, s)
  BY <1>1 DEF LogOrder, InLogOrder
<1>3. n \in Nat /\ IsFiniteSet(events)
  BY LogOrderExists, FS_CardinalityType
<1> HIDE DEF s
<1>4. /\ s \in [1..n -> events]
      /\ \A i, j \in 1..n : i # j => s[i] # s[j]
      /\ \A i, j \in 1..n : i < j => LogPosition[s[i]] < LogPosition[s[j]]
  BY <1>2 DEF LogOrder, SetToSeqs
<1>5. s \in Surjection(1..n, events)
  <2>1. s \in Injection(1..n, events)
    BY <1>4 DEF Injection, IsInjective
  <2>2. Cardinality(1..n) = n
    BY <1>3, FS_Interval
  <2> HIDE DEF n
  <2>. QED
    BY <1>3, <2>1, <2>2, FS_Injection DEF n
<1>6. \A e \in events : \E i \in 1..n : e = s[i]
  BY <1>5 DEF Surjection
<1>. QED
  BY <1>3, <1>4, <1>6 DEF s

(***************************************************************************)
(* A pass, event by event.                                                 *)
(***************************************************************************)
\* The graph before each event, from the discard on.
LEMMA PassUnfold ==
  ASSUME NEW recs, NEW consumed, NEW events, NEW orphaned, Cardinality(events) \in Nat
  PROVE  \E graph :
           /\ graph[0] = [records |-> Discarded(recs, orphaned), consumed_events |-> consumed]
           /\ \A i \in 1..Cardinality(events) :
                graph[i] = Apply(graph[i - 1], InLogOrder(events)[i])
           /\ Pass(recs, consumed, events, orphaned) = graph[Cardinality(events)]
<1> DEFINE n == Cardinality(events)
           start == [records |-> Discarded(recs, orphaned), consumed_events |-> consumed]
           next(g, i) == Apply(g, InLogOrder(events)[i])
           Solves(f, m) == f = [i \in 0..m |-> IF i = 0 THEN start ELSE next(f[i - 1], i)]
           Solvable(m) == \E f : Solves(f, m)
           T == {m \in 0..n : Solvable(m)}
<1>1. Pass(recs, consumed, events, orphaned) = (CHOOSE f : Solves(f, n))[n]
  BY DEF Pass
<1> HIDE DEF next, start
<1>2. Solvable(0)
  <2> DEFINE f == [i \in 0..0 |-> start]
  <2>1. Solves(f, 0)
    OBVIOUS
  <2>. QED
    BY <2>1
<1>3. ASSUME NEW m \in T, m < n PROVE Solvable(m + 1)
  <2>1. PICK f : Solves(f, m)
    OBVIOUS
  <2> DEFINE g == [i \in 0..(m + 1) |-> IF i = m + 1 THEN next(f[m], m + 1) ELSE f[i]]
  <2>2. Solves(g, m + 1)
    <3>1. m \in Nat
      OBVIOUS
    <3>2. ASSUME NEW i \in 0..(m + 1)
          PROVE  g[i] = IF i = 0 THEN start ELSE next(g[i - 1], i)
      <4>1. CASE i = m + 1
        BY <3>1, <4>1
      <4>2. CASE i # m + 1
        <5>1. g[i] = f[i] /\ (i # 0 => g[i - 1] = f[i - 1])
          BY <3>1, <4>2
        <5>2. f[i] = IF i = 0 THEN start ELSE next(f[i - 1], i)
          BY <2>1, <3>1, <4>2
        <5>. QED
          BY <5>1, <5>2
      <4>. QED
        BY <4>1, <4>2
    <3>. QED
      BY <3>2
  <2>. QED
    BY <2>2
<1> HIDE DEF Solvable
<1>4. n \in T
  <2>1. T \in SUBSET (0..n) /\ 0 \in T
    BY <1>2
  <2>2. \A m \in T : m < n => m + 1 \in T
    BY <1>3
  <2> HIDE DEF T
  <2>3. T = 0..n
    BY <2>1, <2>2, BoundedInduction
  <2>. QED
    BY <2>3
<1>5. PICK f : f = (CHOOSE x : Solves(x, n)) /\ Solves(f, n)
  <2>1. \E x : Solves(x, n)
    BY <1>4 DEF Solvable
  <2> HIDE DEF Solves
  <2>. QED
    BY <2>1
<1>6. /\ f[0] = start
      /\ \A i \in 1..n : f[i] = next(f[i - 1], i)
  BY <1>5
<1>. QED
  BY <1>1, <1>5, <1>6 DEF next, start

(***************************************************************************)
(* The records of a host: well formed, and its plaintexts bound to keys it *)
(* may trust.                                                              *)
(***************************************************************************)
AllowedKey == TrustedKey \cup SuppliedKey

PlaintextsBound(recs) ==
  \A e \in ChainEvents \cap PlaintextHandle :
    (e.handle_key \in DOMAIN recs /\ recs[e.handle_key].event_ref = e.event_ref) =>
      recs[e.handle_key].state.system_ciphertext.key_id \in AllowedKey

\* What each part of a pass keeps of a graph.
GraphOK(recs, consumed) ==
  /\ DOMAIN recs \subseteq HandleKey
  /\ \A k \in DOMAIN recs : IsHandleRecord(recs[k])
  /\ consumed \subseteq ChainEventRef
  /\ PlaintextsBound(recs)

LEMMA DiscardKeepsGraph ==
  ASSUME NEW recs, NEW consumed, NEW refs, GraphOK(recs, consumed)
  PROVE  GraphOK(Discarded(recs, refs), consumed)
<1> DEFINE new == Discarded(recs, refs)
<1>1. /\ DOMAIN new = DOMAIN recs
      /\ \A k \in DOMAIN recs :
           /\ new[k] = [recs[k] EXCEPT !.is_tombstoned = new[k].is_tombstoned]
           /\ new[k].is_tombstoned \in BOOLEAN
  BY DiscardedFacts DEF GraphOK
<1> HIDE DEF new
<1>2. ASSUME NEW k \in DOMAIN recs
      PROVE  /\ IsHandleRecord(new[k])
             /\ new[k].state = recs[k].state
             /\ new[k].event_ref = recs[k].event_ref
  <2>1. IsHandleRecord(recs[k])
    BY DEF GraphOK
  <2>2. new[k] = [domain_id |-> recs[k].domain_id, handle_type |-> recs[k].handle_type,
                  state |-> recs[k].state, event_ref |-> recs[k].event_ref,
                  lineage |-> recs[k].lineage, is_tombstoned |-> new[k].is_tombstoned]
    BY <1>1, <2>1 DEF IsHandleRecord
  <2>. QED
    BY <1>1, <2>1, <2>2 DEF IsHandleRecord, IsDerived
<1>3. PlaintextsBound(new)
  BY <1>1, <1>2 DEF GraphOK, PlaintextsBound
<1>. QED
  BY <1>1, <1>2, <1>3 DEF GraphOK, new

\* A reference belongs to one event: a record of a plaintext's reference is
\* the one that was made of the plaintext.
LEMMA ApplyKeepsGraph ==
  ASSUME NEW g, NEW e \in ChainEvents, GraphOK(g.records, g.consumed_events),
         plaintext_key_id \in AllowedKey
  PROVE  GraphOK(Apply(g, e).records, Apply(g, e).consumed_events)
<1>1. CASE e.event_ref \in g.consumed_events
  BY <1>1 DEF Apply
<1>2. CASE e.event_ref \notin g.consumed_events
  <2> DEFINE old == g.records
             new == RecordsAfter(old, e)
             rec == NewRecord(old, e)
  <2>1. /\ Apply(g, e).records = new
        /\ Apply(g, e).consumed_events = g.consumed_events \cup {e.event_ref}
    BY <1>2 DEF Apply
  <2>2. /\ e.handle_key \in HandleKey
        /\ e.event_ref \in ChainEventRef
        /\ IsHandleRecord(rec)
        /\ rec.event_ref = e.event_ref
    BY NewRecordFacts
  <2>3. /\ DOMAIN new = DOMAIN old \cup {e.handle_key}
        /\ \A k \in DOMAIN old : new[k] = old[k]
        /\ e.handle_key \notin DOMAIN old => new[e.handle_key] = rec
    BY RecordsAfterFacts
  <2>4. e \in PlaintextHandle => rec.state.system_ciphertext.key_id = plaintext_key_id
    BY DEF NewRecord, PlaintextHandle, Ready, MaterializedPlaintext
  <2>5. GraphOK(old, g.consumed_events)
    OBVIOUS
  <2> HIDE DEF old, new, rec
  <2>6. PlaintextsBound(new)
    <3> SUFFICES ASSUME NEW f \in ChainEvents \cap PlaintextHandle,
                        f.handle_key \in DOMAIN new,
                        new[f.handle_key].event_ref = f.event_ref
                 PROVE  new[f.handle_key].state.system_ciphertext.key_id \in AllowedKey
      BY DEF PlaintextsBound
    <3>1. CASE f.handle_key \in DOMAIN old
      BY <2>3, <2>5, <3>1 DEF GraphOK, PlaintextsBound
    <3>2. CASE f.handle_key \notin DOMAIN old
      <4>1. f.handle_key = e.handle_key /\ new[f.handle_key] = rec
        BY <2>3, <3>2
      <4>2. f = e
        BY <2>2, <4>1, ChainAssumption
      <4>. QED
        BY <2>4, <4>1, <4>2
    <3>. QED
      BY <3>1, <3>2
  <2>7. DOMAIN new \subseteq HandleKey /\ \A k \in DOMAIN new : IsHandleRecord(new[k])
    BY <2>2, <2>3, <2>5 DEF GraphOK
  <2>8. g.consumed_events \cup {e.event_ref} \subseteq ChainEventRef
    BY <2>2, <2>5 DEF GraphOK
  <2>. QED
    BY <2>1, <2>6, <2>7, <2>8 DEF GraphOK
<1>. QED
  BY <1>1, <1>2

LEMMA PassKeepsGraph ==
  ASSUME NEW recs, NEW consumed, NEW orphaned, GraphOK(recs, consumed),
         NEW events \in SUBSET ChainEvents, Cardinality(events) \in Nat,
         \A i \in 1..Cardinality(events) : InLogOrder(events)[i] \in events,
         plaintext_key_id \in AllowedKey
  PROVE  GraphOK(Pass(recs, consumed, events, orphaned).records,
                 Pass(recs, consumed, events, orphaned).consumed_events)
<1> DEFINE n == Cardinality(events)
           OK(g) == GraphOK(g.records, g.consumed_events)
<1>1. PICK graph :
        /\ graph[0] = [records |-> Discarded(recs, orphaned), consumed_events |-> consumed]
        /\ \A i \in 1..n : graph[i] = Apply(graph[i - 1], InLogOrder(events)[i])
        /\ Pass(recs, consumed, events, orphaned) = graph[n]
  BY PassUnfold
<1>2. OK(graph[0])
  BY <1>1, DiscardKeepsGraph
<1> DEFINE T == {m \in 0..n : OK(graph[m])}
<1>3. ASSUME NEW m \in T, m < n PROVE OK(graph[m + 1])
  <2>1. m + 1 \in 1..n /\ (m + 1) - 1 = m
    <3>1. n \in Nat /\ m \in 0..n
      OBVIOUS
    <3> HIDE DEF n
    <3>. QED
      BY <1>3, <3>1
  <2>2. graph[m + 1] = Apply(graph[m], InLogOrder(events)[m + 1])
    BY <1>1, <2>1
  <2>3. OK(graph[m]) /\ InLogOrder(events)[m + 1] \in ChainEvents
    BY <2>1
  <2>. QED
    BY <2>2, <2>3, ApplyKeepsGraph
<1> HIDE DEF OK
<1>4. n \in T
  <2>1. T \in SUBSET (0..n) /\ 0 \in T
    BY <1>2
  <2>2. \A m \in T : m < n => m + 1 \in T
    BY <1>3
  <2> HIDE DEF T
  <2>3. T = 0..n
    BY <2>1, <2>2, BoundedInduction
  <2>. QED
    BY <2>3
<1>. QED
  BY <1>1, <1>4 DEF OK

(***************************************************************************)
(* The keys of a host and its records.                                     *)
(***************************************************************************)
\* A configuration an operator may have come to by reloads: its key may be
\* trusted, and what a document is compared with has not changed.
ConfigTrusted(cfg) ==
  /\ cfg.public_config.key_id \in TrustedKey
  /\ \E first \in FirstConfigs : /\ cfg.expectations = first.expectations
                                /\ cfg.enclave_attestation = first.enclave_attestation

KeysOK == HostInv /\ ConfigTrusted(operator_config) /\ ConfigTrusted(config)

ChainOK == branch \in Branch /\ height \in Nat

HostGraphInv == KeysOK /\ ChainOK /\ GraphOK(records, consumed_events)

\* The key a reload adopts was served for the chain and the domain of the
\* operator, by one that approves the operator's Enclave.
LEMMA ReloadIsTrusted ==
  ASSUME NEW cfg \in HostConfig, ConfigTrusted(cfg),
         NEW document \in Documents, NEW new \in Reloaded(cfg, document)
  PROVE  ConfigTrusted(new)
<1>1. /\ new.expectations = cfg.expectations
      /\ new.enclave_attestation = cfg.enclave_attestation
  BY ReloadFacts DEF HostConfig
<1>2. /\ new.public_config = document
      /\ document \in MpcPublicConfig
      /\ CheckCompatibility(document, cfg.expectations)
      /\ document.approved_enclave_measurement
           = cfg.enclave_attestation.enclave_measurement
  BY ReloadFacts
<1>3. PICK first \in FirstConfigs : /\ cfg.expectations = first.expectations
                                   /\ cfg.enclave_attestation = first.enclave_attestation
  BY DEF ConfigTrusted
<1>4. document.chain_id = cfg.expectations.chain_id
      /\ document.domain_id = cfg.expectations.domain_id
  BY <1>2 DEF CheckCompatibility, HostConfig, MpcConfigExpectations
<1>5. document.key_id \in TrustedKey
  BY <1>2, <1>3, <1>4 DEF TrustedKey
<1>. QED
  BY <1>1, <1>2, <1>3, <1>5 DEF ConfigTrusted

LEMMA ActiveKeyAllowed ==
  ASSUME KeysOK
  PROVE  plaintext_key_id \in AllowedKey
BY DEF KeysOK, HostInv, ActiveKeyIsConfigured, ConfigTrusted, AllowedKey

\* The chain leaves the configurations alone, and a host that is built copies
\* the operator's.
LEMMA StepKeepsKeys ==
  ASSUME KeysOK, [HostNext]_allVars
  PROVE  KeysOK'
<1>1. HostInv' /\ operator_config \in HostConfig
  BY StepKeepsInv DEF KeysOK, HostInv, ConfigsOK
<1>2. ConfigTrusted(operator_config')
  BY <1>1, OnlyReloads, ReloadIsTrusted DEF KeysOK
<1>3. config' = config \/ config' = operator_config
  BY DEF HostNext, ChainStep, ReloadMpcPublicConfig, NewHost, RestoreFromPersistence,
         RestoreWithMaterializer, RestoreHost, FromHandleGraphCore, Start, Shutdown,
         LifecycleStep, MarkDependencyAvailable, MarkDependencyUnavailable,
         MarkDependency, allVars, hostVars, configVars
<1>4. ConfigTrusted(config')
  BY <1>3 DEF KeysOK
<1>. QED
  BY <1>1, <1>2, <1>4 DEF KeysOK

\* Only a pass changes the records of a host; a new host has none.
LEMMA OnlyPasses ==
  ASSUME [HostNext]_allVars
  PROVE  \/ PollAndIngest
         \/ records' = [k \in {} |-> k] /\ consumed_events' = {} /\ UNCHANGED chainVars
         \/ UNCHANGED <<records, consumed_events>> /\ (ChainGrows \/ Reorg \/ UNCHANGED chainVars)
BY DEF HostNext, ChainStep, Next, ChainGrows, Reorg, ReloadMpcPublicConfig, NewHost,
       RestoreFromPersistence, RestoreWithMaterializer, RestoreHost, Start, Shutdown,
       LifecycleStep, MarkDependencyAvailable, MarkDependencyUnavailable,
       MarkDependency, allVars, vars, graphVars

LEMMA StepKeepsGraph ==
  ASSUME HostGraphInv, [HostNext]_allVars
  PROVE  HostGraphInv'
<1>1. KeysOK'
  BY StepKeepsKeys DEF HostGraphInv
<1>2. CASE PollAndIngest
  <2>1. PICK events \in Polls : IngestChainEvents(events, Orphaned)
    BY <1>2 DEF PollAndIngest
  <2>2. /\ events \in SUBSET ChainEvents
        /\ \A e \in events : LogPosition[e] <= height
        /\ \A e, f \in events : LogPosition[e] = LogPosition[f] => e = f
    BY ChainAssumption DEF HostGraphInv, ChainOK, Polls, View, Upto
  <2>3. /\ Cardinality(events) \in Nat
        /\ \A i \in 1..Cardinality(events) : InLogOrder(events)[i] \in events
    BY <2>2, InLogOrderFacts DEF HostGraphInv, ChainOK
  <2>4. GraphOK(Pass(records, consumed_events, events, Orphaned).records,
                Pass(records, consumed_events, events, Orphaned).consumed_events)
    BY <2>2, <2>3, PassKeepsGraph, ActiveKeyAllowed DEF HostGraphInv
  <2>5. GraphOK(records', consumed_events')
    BY <2>1, <2>4 DEF IngestChainEvents
  <2>6. ChainOK'
    BY <1>2 DEF PollAndIngest, chainVars, HostGraphInv, ChainOK
  <2>. QED
    BY <1>1, <2>5, <2>6 DEF HostGraphInv
<1>3. CASE records' = [k \in {} |-> k] /\ consumed_events' = {} /\ UNCHANGED chainVars
  <2>1. GraphOK(records', consumed_events')
    BY <1>3 DEF GraphOK, PlaintextsBound
  <2>. QED
    BY <1>1, <1>3, <2>1 DEF HostGraphInv, ChainOK, chainVars
<1>4. CASE /\ UNCHANGED <<records, consumed_events>>
           /\ ChainGrows \/ Reorg \/ UNCHANGED chainVars
  <2>1. ChainOK'
    BY <1>4 DEF HostGraphInv, ChainOK, ChainGrows, Reorg, chainVars
  <2>2. GraphOK(records', consumed_events')
    BY <1>4 DEF HostGraphInv
  <2>. QED
    BY <1>1, <2>1, <2>2 DEF HostGraphInv
<1>. QED
  BY <1>2, <1>3, <1>4, OnlyPasses

LEMMA HostGraphInvariant == HostSpec => []HostGraphInv
<1>1. HostInit => HostGraphInv
  <2> SUFFICES ASSUME HostInit PROVE HostGraphInv
    OBVIOUS
  <2>1. HostInv
    BY ConfigAssumption
       DEF HostInit, HostInv, ConfigsOK, RunningIsValid, ActiveKeyIsConfigured
  <2>2. ConfigTrusted(operator_config) /\ ConfigTrusted(config)
    BY DEF HostInit, ConfigTrusted, TrustedKey
  <2>3. ChainOK
    BY DEF HostInit, Init, ChainOK
  <2>4. GraphOK(records, consumed_events)
    BY DEF HostInit, Init, GraphInit, GraphOK, PlaintextsBound
  <2>. QED
    BY <2>1, <2>2, <2>3, <2>4 DEF HostGraphInv, KeysOK
<1>. QED
  BY <1>1, StepKeepsGraph, PTL DEF HostSpec

\* However the chain reorganises itself and the host is restarted and given
\* other keys, its graph stays well formed.
THEOREM HostGraphTypeCorrect == HostSpec => []TypeOK
<1>1. HostGraphInv => TypeOK
  <2> SUFFICES ASSUME HostGraphInv PROVE TypeOK
    OBVIOUS
  <2>1. plaintext_key_id \in KeyId
    BY ConfigAssumption DEF HostGraphInv, KeysOK, HostInv, ConfigsOK, HostConfig,
       MpcPublicConfig, ActiveKeyIsConfigured
  <2>. QED
    BY <2>1 DEF HostGraphInv, GraphOK, TypeOK
<1>. QED
  BY <1>1, HostGraphInvariant, PTL

\* Every plaintext in the graph of a host is bound to a key the operator may
\* trust, or to one a caller supplied.
THEOREM PlaintextsCorrect == HostSpec => []PlaintextsAreBound
<1>1. HostGraphInv => PlaintextsAreBound
  BY DEF HostGraphInv, KeysOK, HostInv, GraphOK, PlaintextsBound, PlaintextsAreBound,
         AllowedKey
<1>. QED
  BY <1>1, HostGraphInvariant, PTL

(***************************************************************************)
(* What a pass makes of the events of the view.  A graph mirrors a set of  *)
(* events if it is what they make of an empty graph one after the other,   *)
(* each branch in its order, but for tombstones and the keys of            *)
(* plaintexts.                                                             *)
(***************************************************************************)
\* The events before e on its branches: on all of them the same.
Below(e) ==
  {f \in ChainEvents :
     \E B \in Branch : e \in B /\ f \in B /\ LogPosition[f] < LogPosition[e]}

\* What validation may read of the keys named before e.
Before(e) ==
  [k \in {f.handle_key : f \in Below(e)} |->
     LET f == CHOOSE f \in ChainEvents : f.handle_key = k
     IN  [domain_id |-> f.domain_id, handle_type |-> HandleTypeOf(f)]]

StateOf(e, key) ==
  CASE e.kind = "ImportedHandle" -> Ready(e.system_ciphertext)
    [] e.kind = "PlaintextHandle" ->
         Ready([domain_id |-> e.domain_id, handle_key |-> e.handle_key,
                handle_type |-> e.handle_type, key_id |-> key, value |-> e.public_value])
    [] e.kind = "DerivedHandleOperation" -> DerivedState(Before(e), e)

RecordOf(e, key, tombstoned) ==
  [domain_id |-> e.domain_id, handle_type |-> HandleTypeOf(e), state |-> StateOf(e, key),
   event_ref |-> e.event_ref,
   lineage |-> IF e.kind = "DerivedHandleOperation"
                 THEN Derived(e.operation_code, e.input_handle_keys) ELSE Source,
   is_tombstoned |-> tombstoned]

\* A record is made of the first event of its key on each branch of it.
MadeOf(rec, k, e) ==
  /\ e.handle_key = k
  /\ \A f \in Below(e) : f.handle_key # k
  /\ \E key : rec = RecordOf(e, key, rec.is_tombstoned)
  /\ rec.is_tombstoned \in BOOLEAN

Mirrors(recs, consumed, S) ==
  /\ S \subseteq ChainEvents
  /\ consumed = {e.event_ref : e \in S}
  /\ DOMAIN recs = {e.handle_key : e \in S}
  /\ \A e \in S : Below(e) \subseteq S /\ \E B \in Branch : e \in B
  /\ \A k \in DOMAIN recs : \E e \in S : MadeOf(recs[k], k, e)

LEMMA BelowOnBranch ==
  ASSUME NEW B \in Branch, NEW e \in B
  PROVE  Below(e) = {f \in B : LogPosition[f] < LogPosition[e]}
<1>1. B \subseteq ChainEvents /\ \A f \in ChainEvents : LogPosition[f] \in Nat
  BY ChainAssumption
<1>2. ASSUME NEW C \in Branch, e \in C, NEW f \in C, LogPosition[f] < LogPosition[e]
      PROVE  f \in B
  <2>1. CASE C = B
    BY <2>1
  <2>2. CASE C # B
    <3>1. B \cap C = {g \in B : LogPosition[g] <= Fork}
      BY <2>2, ChainAssumption
    <3>2. C \cap B = {g \in C : LogPosition[g] <= Fork}
      BY <2>2, ChainAssumption
    <3>3. e \in ChainEvents /\ f \in ChainEvents /\ Fork \in Nat
      BY <1>1, <1>2, ChainAssumption
    <3>4. LogPosition[e] <= Fork
      BY <1>2, <3>1
    <3>5. LogPosition[f] <= Fork
      BY <1>1, <1>2, <3>3, <3>4
    <3>. QED
      BY <1>2, <3>2, <3>5
  <2>. QED
    BY <2>1, <2>2
<1>. QED
  BY <1>1, <1>2 DEF Below

\* The fields of a record that later validations read are those of its event.
LEMMA MadeOfFacts ==
  ASSUME NEW rec, NEW k, NEW e, MadeOf(rec, k, e)
  PROVE  /\ rec.domain_id = e.domain_id
         /\ rec.handle_type = HandleTypeOf(e)
         /\ rec.event_ref = e.event_ref
         /\ e.handle_key = k
BY DEF MadeOf, RecordOf

\* Validation comes to the same result if it finds the same inputs with the
\* same domains and types.
LEMMA SameState ==
  ASSUME NEW recs, NEW seen, NEW e,
         \A i \in DOMAIN e.input_handle_keys :
           /\ e.input_handle_keys[i] \in DOMAIN recs <=> e.input_handle_keys[i] \in DOMAIN seen
           /\ e.input_handle_keys[i] \in DOMAIN recs =>
                /\ recs[e.input_handle_keys[i]].domain_id = seen[e.input_handle_keys[i]].domain_id
                /\ recs[e.input_handle_keys[i]].handle_type = seen[e.input_handle_keys[i]].handle_type
  PROVE  DerivedState(recs, e) = DerivedState(seen, e)
<1> DEFINE ins == e.input_handle_keys
<1>1. \A i \in DOMAIN ins : KnownInput(recs, e, ins[i]) <=> KnownInput(seen, e, ins[i])
  BY DEF KnownInput
<1>2. CASE \E i \in DOMAIN ins : ~KnownInput(recs, e, ins[i])
  <2>1. \E i \in DOMAIN ins : ~KnownInput(seen, e, ins[i])
    BY <1>1, <1>2
  <2>2. CASE Len(ins) # ExpectedArity(e.operation_code)
    BY <2>2 DEF DerivedState
  <2>3. CASE Len(ins) = ExpectedArity(e.operation_code)
    BY <1>2, <2>1, <2>3 DEF DerivedState
  <2>. QED
    BY <2>2, <2>3
<1>3. CASE ~ \E i \in DOMAIN ins : ~KnownInput(recs, e, ins[i])
  <2>1. ~ \E i \in DOMAIN ins : ~KnownInput(seen, e, ins[i])
    BY <1>1, <1>3
  <2>2. InputTypes(recs, e) = InputTypes(seen, e)
    BY <1>3 DEF InputTypes, KnownInput
  <2>3. CASE Len(ins) # ExpectedArity(e.operation_code)
    BY <2>3 DEF DerivedState
  <2>4. CASE Len(ins) = ExpectedArity(e.operation_code)
    BY <1>3, <2>1, <2>2, <2>4 DEF DerivedState
  <2>. QED
    BY <2>3, <2>4
<1>. QED
  BY <1>2, <1>3

\* When an event comes after those before it on its branch, validation finds
\* what it would find had there been no other branch.
LEMMA StateIsMirrored ==
  ASSUME BranchesAgree, NEW recs, NEW consumed, NEW S, Mirrors(recs, consumed, S),
         NEW B \in Branch, NEW e \in B \cap DerivedHandleOperation, e \notin S,
         Below(e) \subseteq S
  PROVE  DerivedState(recs, e) = DerivedState(Before(e), e)
<1> DEFINE ins == e.input_handle_keys
<1>1. DOMAIN Before(e) = {f.handle_key : f \in Below(e)}
  BY DEF Before
<1>2. ASSUME NEW i \in DOMAIN ins, ins[i] \in DOMAIN Before(e)
      PROVE  ins[i] \in DOMAIN recs
  BY <1>1, <1>2 DEF Mirrors
<1>3. ASSUME NEW i \in DOMAIN ins, ins[i] \in DOMAIN recs
      PROVE  ins[i] \in DOMAIN Before(e)
  <2>1. PICK f \in S : f.handle_key = ins[i]
    BY <1>3 DEF Mirrors
  <2>2. f \in ChainEvents /\ e \in ChainEvents /\ LogPosition \in [ChainEvents -> Nat]
    BY ChainAssumption DEF Mirrors
  <2>3. CASE f \in B
    <3>1. e \notin Below(f) /\ f # e
      BY DEF Mirrors
    <3>2. ~(LogPosition[e] < LogPosition[f])
      BY <2>3, <3>1, BelowOnBranch
    <3>3. LogPosition[e] # LogPosition[f]
      BY <2>3, <3>1, ChainAssumption
    <3>4. f \in Below(e)
      BY <2>2, <2>3, <3>2, <3>3, BelowOnBranch
    <3>. QED
      BY <1>1, <2>1, <3>4
  <2>4. CASE f \notin B
    <3>1. \E g \in B : g.handle_key = ins[i] /\ LogPosition[g] < LogPosition[e]
      BY <2>1, <2>2, <2>4 DEF BranchesAgree
    <3>2. \E g \in Below(e) : g.handle_key = ins[i]
      BY <3>1, BelowOnBranch
    <3>. QED
      BY <1>1, <3>2
  <2>. QED
    BY <2>3, <2>4
<1>4. ASSUME NEW k \in DOMAIN recs, k \in DOMAIN Before(e)
      PROVE  /\ recs[k].domain_id = Before(e)[k].domain_id
             /\ recs[k].handle_type = Before(e)[k].handle_type
  <2>1. PICK f \in S : MadeOf(recs[k], k, f)
    BY DEF Mirrors
  <2>2. /\ f \in ChainEvents /\ f.handle_key = k
        /\ recs[k].domain_id = f.domain_id /\ recs[k].handle_type = HandleTypeOf(f)
    BY <2>1, MadeOfFacts DEF Mirrors
  <2> DEFINE g == CHOOSE g \in ChainEvents : g.handle_key = k
  <2>3. g \in ChainEvents /\ g.handle_key = k
    BY <2>2
  <2>4. Before(e)[k] = [domain_id |-> g.domain_id, handle_type |-> HandleTypeOf(g)]
    BY <1>1, <1>4 DEF Before
  <2> HIDE DEF g
  <2>5. f.domain_id = g.domain_id /\ HandleTypeOf(f) = HandleTypeOf(g)
    BY <2>2, <2>3 DEF BranchesAgree
  <2>. QED
    BY <2>2, <2>4, <2>5
<1>. QED
  BY <1>2, <1>3, <1>4, SameState

\* The record ingestion makes of such an event is the one it stands for.
LEMMA NewRecordIsMirrored ==
  ASSUME BranchesAgree, NEW recs, NEW consumed, NEW S, Mirrors(recs, consumed, S),
         NEW B \in Branch, NEW e \in B, e \notin S, Below(e) \subseteq S
  PROVE  NewRecord(recs, e) = RecordOf(e, plaintext_key_id, FALSE)
<1>1. CASE e \in ImportedHandle
  BY <1>1 DEF ImportedHandle, NewRecord, RecordOf, StateOf, HandleTypeOf
<1>2. CASE e \in PlaintextHandle
  BY <1>2 DEF PlaintextHandle, NewRecord, RecordOf, StateOf, HandleTypeOf,
              MaterializedPlaintext
<1>3. CASE e \in DerivedHandleOperation
  <2>1. DerivedState(recs, e) = DerivedState(Before(e), e)
    BY <1>3, StateIsMirrored
  <2>2. e.kind = "DerivedHandleOperation"
    BY <1>3 DEF DerivedHandleOperation
  <2>. QED
    BY <2>1, <2>2 DEF NewRecord, RecordOf, StateOf, HandleTypeOf
<1>4. e \in ChainEvents
  BY ChainAssumption
<1>. QED
  BY <1>1, <1>2, <1>3, <1>4, ChainEventsAssumption

LEMMA ApplyMirrors ==
  ASSUME BranchesAgree, NEW g, NEW S, Mirrors(g.records, g.consumed_events, S),
         NEW B \in Branch, NEW e \in B, Below(e) \subseteq S
  PROVE  Mirrors(Apply(g, e).records, Apply(g, e).consumed_events, S \cup {e})
<1>1. e \in ChainEvents
  BY ChainAssumption
<1>2. CASE e.event_ref \in g.consumed_events
  <2>1. PICK f \in S : f.event_ref = e.event_ref
    BY <1>2 DEF Mirrors
  <2>2. e \in S
    BY <1>1, <2>1, ChainAssumption DEF Mirrors
  <2>3. S \cup {e} = S
    BY <2>2
  <2>. QED
    BY <1>2, <2>3 DEF Apply
<1>3. CASE e.event_ref \notin g.consumed_events
  <2> DEFINE old == g.records
             new == RecordsAfter(old, e)
             rec == NewRecord(old, e)
             T == S \cup {e}
  <2>1. /\ Apply(g, e).records = new
        /\ Apply(g, e).consumed_events = g.consumed_events \cup {e.event_ref}
    BY <1>3 DEF Apply
  <2>2. e \notin S
    BY <1>3 DEF Mirrors
  <2>3. /\ DOMAIN new = DOMAIN old \cup {e.handle_key}
        /\ \A k \in DOMAIN old : new[k] = old[k]
        /\ e.handle_key \notin DOMAIN old => new[e.handle_key] = rec
    BY RecordsAfterFacts
  <2>4. rec = RecordOf(e, plaintext_key_id, FALSE)
    BY <2>2, NewRecordIsMirrored
  <2>5. Mirrors(old, g.consumed_events, S)
    OBVIOUS
  <2> HIDE DEF old, new, rec
  <2>6. /\ T \subseteq ChainEvents
        /\ g.consumed_events \cup {e.event_ref} = {f.event_ref : f \in T}
        /\ DOMAIN new = {f.handle_key : f \in T}
    BY <1>1, <2>3, <2>5 DEF Mirrors
  <2>7. \A f \in T : Below(f) \subseteq T /\ \E C \in Branch : f \in C
    BY <2>5 DEF Mirrors
  <2>8. ASSUME NEW k \in DOMAIN new PROVE \E f \in T : MadeOf(new[k], k, f)
    <3>1. CASE k \in DOMAIN old
      BY <2>3, <2>5, <3>1 DEF Mirrors
    <3>2. CASE k \notin DOMAIN old
      <4>1. k = e.handle_key /\ new[k] = rec
        BY <2>3, <3>2
      <4>2. \A f \in Below(e) : f.handle_key # k
        BY <2>5, <3>2 DEF Mirrors
      <4>3. rec.is_tombstoned = FALSE
        BY <2>4 DEF RecordOf
      <4>4. MadeOf(rec, k, e)
        BY <2>4, <4>1, <4>2, <4>3 DEF MadeOf
      <4>. QED
        BY <4>1, <4>4
    <3>. QED
      BY <3>1, <3>2
  <2>. QED
    BY <2>1, <2>6, <2>7, <2>8 DEF Mirrors
<1>. QED
  BY <1>2, <1>3

LEMMA DiscardMirrors ==
  ASSUME NEW recs, NEW consumed, NEW S, NEW refs, Mirrors(recs, consumed, S),
         \A k \in DOMAIN recs : IsHandleRecord(recs[k])
  PROVE  Mirrors(Discarded(recs, refs), consumed, S)
<1> DEFINE new == Discarded(recs, refs)
<1>1. /\ DOMAIN new = DOMAIN recs
      /\ \A k \in DOMAIN recs :
           /\ new[k] = [recs[k] EXCEPT !.is_tombstoned = new[k].is_tombstoned]
           /\ new[k].is_tombstoned \in BOOLEAN
  BY DiscardedFacts
<1> HIDE DEF new
<1>2. ASSUME NEW k \in DOMAIN recs, NEW e, MadeOf(recs[k], k, e)
      PROVE  MadeOf(new[k], k, e)
  <2>1. PICK key : recs[k] = RecordOf(e, key, recs[k].is_tombstoned)
    BY <1>2 DEF MadeOf
  <2>2. new[k] = RecordOf(e, key, new[k].is_tombstoned)
    BY <1>1, <2>1 DEF RecordOf
  <2>. QED
    BY <1>1, <1>2, <2>2 DEF MadeOf
<1>. QED
  BY <1>1, <1>2 DEF Mirrors, new

\* Records that are not among the given ones are fresh, and of these events.
Added(given, events, recs) ==
  \A k \in DOMAIN recs :
    \/ k \in DOMAIN given /\ recs[k] = given[k]
    \/ ~recs[k].is_tombstoned /\ \E e \in events : e.event_ref = recs[k].event_ref

LEMMA ApplyAdds ==
  ASSUME NEW given, NEW events \in SUBSET ChainEvents, NEW g, NEW e \in events,
         Added(given, events, g.records)
  PROVE  Added(given, events, Apply(g, e).records)
<1>1. CASE e.event_ref \in g.consumed_events
  BY <1>1 DEF Apply
<1>2. CASE e.event_ref \notin g.consumed_events
  <2> DEFINE old == g.records
             new == RecordsAfter(old, e)
  <2>1. Apply(g, e).records = new
    BY <1>2 DEF Apply
  <2>2. /\ DOMAIN new = DOMAIN old \cup {e.handle_key}
        /\ \A k \in DOMAIN old : new[k] = old[k]
        /\ e.handle_key \notin DOMAIN old => new[e.handle_key] = NewRecord(old, e)
    BY RecordsAfterFacts
  <2>3. /\ NewRecord(old, e).event_ref = e.event_ref
        /\ ~NewRecord(old, e).is_tombstoned
    BY NewRecordFacts
  <2>4. Added(given, events, old)
    OBVIOUS
  <2> HIDE DEF old, new
  <2>. QED
    BY <2>1, <2>2, <2>3, <2>4 DEF Added
<1>. QED
  BY <1>1, <1>2

\* A pass over events of a branch, none of whose predecessors is missing.
LEMMA PassMirrors ==
  ASSUME BranchesAgree, NEW recs, NEW consumed, NEW S, NEW orphaned,
         Mirrors(recs, consumed, S), \A k \in DOMAIN recs : IsHandleRecord(recs[k]),
         NEW B \in Branch, NEW events \in SUBSET B,
         NEW h \in Nat, \A e \in events : LogPosition[e] <= h,
         \A e \in events : Below(e) \subseteq S \cup events
  PROVE  /\ Mirrors(Pass(recs, consumed, events, orphaned).records,
                    Pass(recs, consumed, events, orphaned).consumed_events, S \cup events)
         /\ Added(Discarded(recs, orphaned), events,
                  Pass(recs, consumed, events, orphaned).records)
<1> DEFINE n == Cardinality(events)
           ordered == InLogOrder(events)
           first(m) == {ordered[j] : j \in 1..m}
           given == Discarded(recs, orphaned)
<1>1. /\ events \in SUBSET ChainEvents
      /\ \A e, f \in events : LogPosition[e] = LogPosition[f] => e = f
      /\ \A e \in events : LogPosition[e] \in Nat
  BY ChainAssumption
<1>2. /\ n \in Nat
      /\ \A i \in 1..n : ordered[i] \in events
      /\ \A e \in events : \E i \in 1..n : e = ordered[i]
      /\ \A i, j \in 1..n : i < j => LogPosition[ordered[i]] < LogPosition[ordered[j]]
  BY <1>1, InLogOrderFacts
<1>3. PICK graph :
        /\ graph[0] = [records |-> given, consumed_events |-> consumed]
        /\ \A i \in 1..n : graph[i] = Apply(graph[i - 1], ordered[i])
        /\ Pass(recs, consumed, events, orphaned) = graph[n]
  BY <1>2, PassUnfold
<1>4. Mirrors(given, consumed, S)
  BY DiscardMirrors
<1> HIDE DEF n, ordered, given
<1> DEFINE OK(m) == /\ Mirrors(graph[m].records, graph[m].consumed_events, S \cup first(m))
                    /\ Added(given, events, graph[m].records)
           T == {m \in 0..n : OK(m)}
<1>5. OK(0)
  <2>1. S \cup first(0) = S
    OBVIOUS
  <2>2. Added(given, events, given)
    BY DEF Added
  <2> HIDE DEF first
  <2>3. graph[0].records = given /\ graph[0].consumed_events = consumed
    BY <1>3
  <2>. QED
    BY <1>4, <2>1, <2>2, <2>3
<1>6. ASSUME NEW m \in T, m < n PROVE OK(m + 1)
  <2>1. m \in 0..n /\ OK(m)
    OBVIOUS
  <2>2. m + 1 \in 1..n /\ (m + 1) - 1 = m
    BY <1>2, <1>6, <2>1
  <2> DEFINE e == ordered[m + 1]
  <2>3. graph[m + 1] = Apply(graph[m], e)
    BY <1>3, <2>2
  <2>4. e \in events
    BY <1>2, <2>2
  <2>5. ASSUME NEW f \in Below(e), f \in events
        PROVE  f \in first(m)
    <3>1. PICK j \in 1..n : f = ordered[j]
      BY <1>2, <2>5
    <3>2. LogPosition[f] < LogPosition[e]
      BY <2>4, BelowOnBranch
    <3>3. ~(m + 1 < j) /\ j # m + 1
      BY <1>1, <1>2, <2>2, <2>4, <2>5, <3>1, <3>2
    <3>4. j \in 1..m
      BY <1>2, <2>1, <3>3
    <3>. QED
      BY <3>1, <3>4
  <2>6. Below(e) \subseteq S \cup first(m)
    BY <2>4, <2>5
  <2>7. (S \cup first(m)) \cup {e} = S \cup first(m + 1)
    <3>1. 1..(m + 1) = (1..m) \cup {m + 1}
      BY <1>2, <2>1
    <3>. QED
      BY <3>1
  <2> HIDE DEF first, e
  <2>8. Mirrors(Apply(graph[m], e).records, Apply(graph[m], e).consumed_events,
                (S \cup first(m)) \cup {e})
    BY <2>1, <2>4, <2>6, ApplyMirrors
  <2>9. Added(given, events, Apply(graph[m], e).records)
    BY <1>1, <2>1, <2>4, ApplyAdds
  <2>. QED
    BY <2>3, <2>7, <2>8, <2>9
<1>7. first(n) = events
  BY <1>2
<1> HIDE DEF OK
<1>8. n \in T
  <2>1. T \in SUBSET (0..n) /\ 0 \in T
    BY <1>2, <1>5
  <2>2. \A m \in T : m < n => m + 1 \in T
    BY <1>2, <1>6
  <2> HIDE DEF T
  <2>3. T = 0..n
    BY <1>2, <2>1, <2>2, BoundedInduction
  <2>. QED
    BY <1>2, <2>3
<1>9. OK(n)
  BY <1>8
<1>. QED
  BY <1>3, <1>7, <1>9 DEF OK, given

(***************************************************************************)
(* What a normal read sees.                                                *)
(***************************************************************************)
\* Only records of events of the view are canonical.
CanonicalInView(recs) ==
  \A k \in Canonical(recs) : \E e \in View : e.event_ref = recs[k].event_ref

\* Two records of one event, neither of them tombstoned, differ in the key of
\* a plaintext only.
LEMMA SameButForKey ==
  ASSUME NEW e \in ChainEvents, NEW k, NEW rec, NEW other,
         MadeOf(rec, k, e), MadeOf(other, k, e),
         rec.is_tombstoned = other.is_tombstoned
  PROVE  ButForKey(rec) = ButForKey(other)
<1>1. PICK key : rec = RecordOf(e, key, rec.is_tombstoned)
  BY DEF MadeOf
<1>2. PICK key2 : other = RecordOf(e, key2, other.is_tombstoned)
  BY DEF MadeOf
<1>3. rec.event_ref = e.event_ref /\ other.event_ref = e.event_ref
  BY MadeOfFacts
<1>4. (\E f \in ChainEvents \cap PlaintextHandle : f.event_ref = e.event_ref)
        <=> e \in PlaintextHandle
  BY ChainAssumption
<1>5. CASE e \in PlaintextHandle
  <2>1. e.kind = "PlaintextHandle"
    BY <1>5 DEF PlaintextHandle
  <2> DEFINE Bind(c) == [domain_id |-> e.domain_id, handle_key |-> e.handle_key,
                         handle_type |-> e.handle_type, key_id |-> c,
                         value |-> e.public_value]
  <2>2. /\ rec.state.system_ciphertext = Bind(key)
        /\ other.state.system_ciphertext = Bind(key2)
    BY <1>1, <1>2, <2>1 DEF RecordOf, StateOf, Ready
  <2>3. [rec EXCEPT !.state = Ready(Bind(plaintext_key_id))]
          = [other EXCEPT !.state = Ready(Bind(plaintext_key_id))]
    BY <1>1, <1>2 DEF RecordOf
  <2>4. /\ [Bind(key) EXCEPT !.key_id = plaintext_key_id] = Bind(plaintext_key_id)
        /\ [Bind(key2) EXCEPT !.key_id = plaintext_key_id] = Bind(plaintext_key_id)
    OBVIOUS
  <2> HIDE DEF Bind
  <2>. QED
    BY <1>3, <1>4, <1>5, <2>2, <2>3, <2>4 DEF ButForKey
<1>6. CASE e \notin PlaintextHandle
  <2>1. e.kind # "PlaintextHandle"
    BY <1>6, ChainEventsAssumption DEF ImportedHandle, DerivedHandleOperation
  <2>2. StateOf(e, key) = StateOf(e, key2)
    BY <2>1, <1>6, ChainEventsAssumption
       DEF StateOf, ImportedHandle, DerivedHandleOperation
  <2>3. rec = other
    BY <1>1, <1>2, <2>2 DEF RecordOf
  <2>. QED
    BY <2>3
<1>. QED
  BY <1>5, <1>6

\* A host that is given the events of the view that were surfaced, alone.
LEMMA ReplayFacts ==
  ASSUME BranchesAgree, ChainOK, NEW recs, NEW consumed, NEW S, Mirrors(recs, consumed, S)
  PROVE  /\ \E c : Mirrors(Replay(S \cap View), c, S \cap View)
         /\ \A k \in DOMAIN Replay(S \cap View) : ~Replay(S \cap View)[k].is_tombstoned
<1> DEFINE none == [k \in {} |-> k]
           events == S \cap View
           g == Pass(none, {}, events, {})
<1>1. events \in SUBSET branch /\ \A e \in events : LogPosition[e] <= height
  BY DEF View, Upto
<1>2. ASSUME NEW e \in events PROVE Below(e) \subseteq {} \cup events
  <2>1. Below(e) \subseteq S
    BY DEF Mirrors
  <2>2. \A f \in Below(e) : f \in branch /\ LogPosition[f] < LogPosition[e]
    BY <1>1, BelowOnBranch DEF ChainOK
  <2>3. \A f \in Below(e) : LogPosition[f] <= height
    BY <1>1, <2>2, ChainAssumption DEF ChainOK
  <2>. QED
    BY <2>1, <2>2, <2>3 DEF View, Upto
<1>3. Mirrors(none, {}, {})
  BY DEF Mirrors
<1>4. DOMAIN none = {}
  OBVIOUS
<1>5. /\ branch \in Branch /\ height \in Nat
      /\ \A k \in DOMAIN none : IsHandleRecord(none[k])
  BY <1>4 DEF ChainOK
<1> HIDE DEF none, events
<1>6. /\ Mirrors(g.records, g.consumed_events, {} \cup events)
      /\ Added(Discarded(none, {}), events, g.records)
  BY <1>1, <1>2, <1>3, <1>5, PassMirrors
<1>7. DOMAIN Discarded(none, {}) = {}
  BY <1>4, <1>5, DiscardedFacts
<1>8. g.records = Replay(events)
  BY DEF Replay, none
<1>9. {} \cup events = events
  OBVIOUS
<1>10. \A k \in DOMAIN g.records : ~g.records[k].is_tombstoned
  BY <1>6, <1>7 DEF Added
<1> HIDE DEF g
<1>. QED
  BY <1>6, <1>8, <1>9, <1>10 DEF events

LEMMA ReadsMirrorView ==
  ASSUME BranchesAgree, ChainOK, NEW recs, NEW consumed, NEW S, Mirrors(recs, consumed, S),
         CanonicalInView(recs)
  PROVE  /\ \A k \in Canonical(recs) :
              /\ k \in DOMAIN Replay(S \cap View)
              /\ ButForKey(recs[k]) = ButForKey(Replay(S \cap View)[k])
         /\ DOMAIN Replay(S \cap View) \subseteq DOMAIN recs
<1> DEFINE events == S \cap View
           replay == Replay(events)
<1>1. PICK c : Mirrors(replay, c, events)
  BY ReplayFacts
<1>2. \A k \in DOMAIN replay : ~replay[k].is_tombstoned
  BY ReplayFacts
<1> HIDE DEF replay
<1>3. ASSUME NEW k \in Canonical(recs)
      PROVE  k \in DOMAIN replay /\ ButForKey(recs[k]) = ButForKey(replay[k])
  <2>1. k \in DOMAIN recs /\ ~recs[k].is_tombstoned
    BY DEF Canonical
  <2>2. PICK e \in S : MadeOf(recs[k], k, e)
    BY <2>1 DEF Mirrors
  <2>3. e \in View
    <3>1. PICK f \in View : f.event_ref = recs[k].event_ref
      BY DEF CanonicalInView
    <3>2. f \in ChainEvents /\ e \in ChainEvents
      BY ChainAssumption DEF View, Upto, ChainOK, Mirrors
    <3>. QED
      BY <2>2, <3>1, <3>2, MadeOfFacts, ChainAssumption
  <2>4. k \in DOMAIN replay
    BY <1>1, <2>2, <2>3, MadeOfFacts DEF Mirrors
  <2>5. PICK f \in events : MadeOf(replay[k], k, f)
    BY <1>1, <2>4 DEF Mirrors
  <2>6. /\ e \in branch /\ f \in branch /\ branch \in Branch
        /\ e \in ChainEvents /\ f \in ChainEvents
    BY <2>3, ChainAssumption DEF View, Upto, ChainOK
  <2>7. e.handle_key = k /\ f.handle_key = k
    BY <2>2, <2>5, MadeOfFacts
  <2>8. f \notin Below(e) /\ e \notin Below(f)
    BY <2>2, <2>5, <2>7 DEF MadeOf
  <2>9. ~(LogPosition[f] < LogPosition[e]) /\ ~(LogPosition[e] < LogPosition[f])
    BY <2>6, <2>8, BelowOnBranch
  <2>10. LogPosition[e] = LogPosition[f]
    BY <2>6, <2>9, ChainAssumption
  <2>11. e = f
    BY <2>6, <2>10, ChainAssumption
  <2>12. recs[k].is_tombstoned = replay[k].is_tombstoned
    BY <1>2, <2>1, <2>2, <2>4, <2>5 DEF MadeOf
  <2>. QED
    BY <2>2, <2>4, <2>5, <2>6, <2>11, <2>12, SameButForKey
<1>4. DOMAIN replay \subseteq DOMAIN recs
  BY <1>1 DEF Mirrors
<1>. QED
  BY <1>3, <1>4 DEF replay

(***************************************************************************)
(* The invariant: the graph of a host mirrors what its source surfaced,    *)
(* and right after a pass a normal read sees nothing else than the view.   *)
(***************************************************************************)
MirrorInv ==
  /\ HostGraphInv
  /\ Mirrors(records, consumed_events, surfaced)
  /\ poll # NoPoll => CanonicalInView(records)

LEMMA PassKeepsMirror ==
  ASSUME BranchesAgree, MirrorInv, PollAndIngest
  PROVE  /\ Mirrors(records', consumed_events', surfaced')
         /\ CanonicalInView(records')
<1>1. PICK events \in Polls : /\ IngestChainEvents(events, Orphaned)
                             /\ surfaced' = surfaced \cup events
  BY DEF PollAndIngest
<1>2. PICK low \in 0..height, high \in 0..height :
        /\ \A e \in View \ surfaced : low <= LogPosition[e]
        /\ events = {e \in View : low <= LogPosition[e] /\ LogPosition[e] <= high}
  BY DEF Polls
<1>3. branch \in Branch /\ height \in Nat /\ branch \subseteq ChainEvents
  BY ChainAssumption DEF MirrorInv, HostGraphInv, ChainOK
<1>4. events \in SUBSET branch /\ \A e \in events : LogPosition[e] <= height
  BY <1>2 DEF View, Upto
<1>5. ASSUME NEW e \in events PROVE Below(e) \subseteq surfaced \cup events
  <2> SUFFICES ASSUME NEW f \in Below(e), f \notin surfaced PROVE f \in events
    OBVIOUS
  <2>1. f \in branch /\ LogPosition[f] < LogPosition[e]
    BY <1>3, <1>4, BelowOnBranch
  <2>2. /\ LogPosition[f] \in Nat /\ LogPosition[e] \in Nat
        /\ LogPosition[e] <= high /\ LogPosition[e] <= height
    BY <1>2, <1>3, <1>4, <2>1, ChainAssumption
  <2>3. f \in View \ surfaced
    BY <1>3, <2>1, <2>2 DEF View, Upto
  <2>4. low <= LogPosition[f]
    BY <1>2, <2>3
  <2>5. LogPosition[f] <= high
    BY <1>3, <2>1, <2>2
  <2>. QED
    BY <1>2, <2>3, <2>4, <2>5
<1>6. /\ Mirrors(records, consumed_events, surfaced)
      /\ \A k \in DOMAIN records : IsHandleRecord(records[k])
  BY DEF MirrorInv, HostGraphInv, GraphOK
<1> DEFINE given == Discarded(records, Orphaned)
<1>7. /\ Mirrors(records', consumed_events', surfaced')
      /\ Added(given, events, records')
  BY <1>1, <1>3, <1>4, <1>5, <1>6, PassMirrors DEF IngestChainEvents
<1>8. /\ DOMAIN given = DOMAIN records
      /\ \A k \in DOMAIN records :
           given[k] = [records[k] EXCEPT !.is_tombstoned = given[k].is_tombstoned]
      /\ Tombstoned(given) = TombstonesAfter(records, Orphaned)
  BY <1>6, DiscardedFacts
<1>9. \A k \in Canonical(records) : records[k].event_ref \in Orphaned => k \in Tombstoned(given)
  BY <1>8, CascadeIsLeastClosed DEF TombstonesAfter, DirectlyTombstoned, Tombstoned, Canonical
<1>10. \A k \in Tombstoned(records) : k \in Tombstoned(given)
  BY <1>8, CascadeIsLeastClosed DEF TombstonesAfter, DirectlyTombstoned, Tombstoned, Canonical
<1> HIDE DEF given
<1>11. ASSUME NEW k \in Canonical(records')
       PROVE  \E e \in View : e.event_ref = records'[k].event_ref
  <2>1. k \in DOMAIN records' /\ ~records'[k].is_tombstoned
    BY DEF Canonical
  <2>2. CASE \E e \in events : e.event_ref = records'[k].event_ref
    BY <1>2, <2>2
  <2>3. CASE k \in DOMAIN given /\ records'[k] = given[k]
    <3>1. k \in DOMAIN records /\ k \notin Tombstoned(given)
      BY <1>8, <2>1, <2>3 DEF Tombstoned
    <3>2. k \in Canonical(records) /\ records[k].event_ref \notin Orphaned
      BY <1>9, <1>10, <3>1 DEF Canonical, Tombstoned
    <3>3. records'[k].event_ref = records[k].event_ref
      <4>1. IsHandleRecord(records[k])
        BY <1>6, <3>1
      <4>2. records'[k] = [records[k] EXCEPT !.is_tombstoned = given[k].is_tombstoned]
        BY <1>8, <2>3, <3>1
      <4>. QED
        BY <4>1, <4>2 DEF IsHandleRecord
    <3>4. PICK e \in surfaced : e.event_ref = records[k].event_ref
      BY <1>6, <3>1, MadeOfFacts DEF Mirrors
    <3>5. e \in View
      BY <3>2, <3>4 DEF Orphaned
    <3>. QED
      BY <3>3, <3>4, <3>5
  <2>. QED
    BY <1>7, <2>1, <2>2, <2>3 DEF Added
<1>. QED
  BY <1>7, <1>11 DEF CanonicalInView

\* A step that is no pass surfaces nothing and reads nothing, or starts over
\* with a new host.
LEMMA OtherSteps ==
  ASSUME [HostNext]_allVars
  PROVE  \/ PollAndIngest
         \/ /\ records' = [k \in {} |-> k] /\ consumed_events' = {} /\ surfaced' = {}
            /\ poll' = NoPoll
         \/ /\ UNCHANGED <<records, consumed_events, surfaced>>
            /\ poll' = NoPoll \/ UNCHANGED <<poll, chainVars>>
BY DEF HostNext, ChainStep, Next, ChainGrows, Reorg, ReloadMpcPublicConfig, NewHost,
       RestoreFromPersistence, RestoreWithMaterializer, RestoreHost, Start, Shutdown,
       LifecycleStep, MarkDependencyAvailable, MarkDependencyUnavailable,
       MarkDependency, allVars, vars, graphVars, chainVars

LEMMA StepKeepsMirror ==
  ASSUME BranchesAgree, MirrorInv, [HostNext]_allVars
  PROVE  MirrorInv'
<1>1. HostGraphInv'
  BY StepKeepsGraph DEF MirrorInv
<1>2. CASE PollAndIngest
  <2>1. UNCHANGED <<branch, height>>
    BY <1>2 DEF PollAndIngest, chainVars
  <2>2. View' = View
    BY <2>1 DEF View, Upto
  <2>3. CanonicalInView(records)'
    BY <1>2, <2>2, PassKeepsMirror DEF CanonicalInView
  <2>4. Mirrors(records, consumed_events, surfaced)'
    BY <1>2, PassKeepsMirror DEF Mirrors
  <2>. QED
    BY <1>1, <2>3, <2>4 DEF MirrorInv
<1>3. CASE /\ records' = [k \in {} |-> k] /\ consumed_events' = {} /\ surfaced' = {}
           /\ poll' = NoPoll
  <2>1. Mirrors(records', consumed_events', surfaced')
    BY <1>3 DEF Mirrors
  <2>2. Mirrors(records, consumed_events, surfaced)'
    BY <2>1 DEF Mirrors
  <2>3. (poll # NoPoll => CanonicalInView(records))'
    BY <1>3 DEF NoPoll
  <2>. QED
    BY <1>1, <2>2, <2>3 DEF MirrorInv
<1>4. CASE /\ UNCHANGED <<records, consumed_events, surfaced>>
           /\ poll' = NoPoll \/ UNCHANGED <<poll, chainVars>>
  <2>1. Mirrors(records, consumed_events, surfaced)'
    BY <1>4 DEF MirrorInv, Mirrors
  <2>2. (poll # NoPoll => CanonicalInView(records))'
    <3>1. CASE poll' = NoPoll
      BY <3>1 DEF NoPoll
    <3>2. CASE UNCHANGED <<poll, chainVars>>
      <4>1. View' = View
        BY <3>2 DEF View, Upto, chainVars
      <4>. QED
        BY <1>4, <3>2, <4>1 DEF MirrorInv, CanonicalInView
    <3>. QED
      BY <1>4, <3>1, <3>2
  <2>. QED
    BY <1>1, <2>1, <2>2 DEF MirrorInv
<1>. QED
  BY <1>2, <1>3, <1>4, OtherSteps

LEMMA MirrorInvariant ==
  ASSUME BranchesAgree
  PROVE  HostSpec => []MirrorInv
<1>1. HostInit => Mirrors(records, consumed_events, surfaced) /\ poll = NoPoll
  BY DEF HostInit, Init, GraphInit, Mirrors
<1>2. HostGraphInv /\ Mirrors(records, consumed_events, surfaced) /\ poll = NoPoll
        => MirrorInv
  BY DEF MirrorInv
<1>3. MirrorInv /\ [HostNext]_allVars => MirrorInv'
  BY StepKeepsMirror
<1>. QED
  BY <1>1, <1>2, <1>3, HostGraphInvariant, PTL DEF HostSpec

\* The steps the property is about: passes, and steps right after one that
\* change nothing but the history of polls.
LEMMA StepMirrors ==
  ASSUME BranchesAgree, MirrorInv, MirrorInv', [HostNext]_allVars,
         UNCHANGED <<chainVars, plaintext_key_id, hostVars>>, ~UNCHANGED allVars
  PROVE  MirrorsView
<1>1. Mirrors(records', consumed_events', surfaced') /\ CanonicalInView(records')
  <2>1. CASE PollAndIngest
    BY <2>1, PassKeepsMirror
  <2>2. CASE /\ records' = [k \in {} |-> k] /\ consumed_events' = {} /\ surfaced' = {}
             /\ poll' = NoPoll
    BY <2>2 DEF Mirrors, CanonicalInView, Canonical
  <2>3. CASE /\ UNCHANGED <<records, consumed_events, surfaced>>
             /\ poll' = NoPoll \/ UNCHANGED <<poll, chainVars>>
    <3>1. poll # NoPoll
      BY <2>3 DEF allVars, vars, graphVars
    <3>. QED
      BY <2>3, <3>1 DEF MirrorInv
  <2>. QED
    BY <2>1, <2>2, <2>3, OtherSteps
<1>2. ChainOK
  BY DEF MirrorInv, HostGraphInv
<1>. QED
  BY <1>1, <1>2, ReadsMirrorView DEF MirrorsView

\* What a normal read sees after a pass is what the events of the view alone
\* would have made, whatever happened on other branches and before a restart.
THEOREM ReadsAreOfTheView == HostSpec => CanonicalMirrorsView
<1> DEFINE Reads == BranchesAgree /\ UNCHANGED <<chainVars, plaintext_key_id, hostVars>>
                      => MirrorsView
<1>1. CASE BranchesAgree
  <2>1. MirrorInv /\ MirrorInv' /\ [HostNext]_allVars => [Reads]_allVars
    BY <1>1, StepMirrors
  <2>2. HostSpec => []MirrorInv
    BY <1>1, MirrorInvariant
  <2>. QED
    BY <2>1, <2>2, PTL DEF HostSpec, CanonicalMirrorsView
<1>2. CASE ~BranchesAgree
  <2>1. [HostNext]_allVars => [Reads]_allVars
    BY <1>2
  <2>. QED
    BY <2>1, PTL DEF HostSpec, CanonicalMirrorsView
<1>. QED
  BY <1>1, <1>2
=============================================================================
