CONSTANTS
  a = a
  p = p
  d = d
  D1 = D1
  D2 = D2
  r1 = r1
  r2 = r2
  s2 = s2
  s3 = s3
  v = v
  key1 = key1
  key2 = key2
  key3 = key3
  key4 = key4
  key5 = key5
  m0 = m0
  m1 = m1
  m2 = m2
  Mpc = Mpc
  Enclave = Enclave
  HandleKey <- MCHandleKey
  BlankLabel <- MCBlankLabel
  HandleIdOf <- MCHandleIdOf
  DomainId = {D1, D2}
  ChainEventRef <- MCChainEventRef
  SystemCiphertext = {v}
  KeyId <- MCKeyId
  ChainEvents <- MCChainEvents
  OrphanSignals = {}
  LogPosition <- MCLogPosition
  Fork = 1
  Branch <- MCBranch
  MaxHeight = 4
  Measurement = {m0, m1, m2}
  ZeroMeasurement = m0
  DependencyName = {Mpc, Enclave}
  FirstConfigs <- MCFirstConfigs
  Documents <- MCDocuments
  SuppliedKey = {key5}
SPECIFICATION HostSpec
INVARIANTS
  ReadyIsConsistent
  PlaintextsAreBound
PROPERTIES
  ReloadKeepsValid
  CanonicalMirrorsView
