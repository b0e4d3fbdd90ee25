CONSTANTS
  chain = chain
  symvm = symvm
  contract = contract
  a = a
  p = p
  d = d
  c = c
  x = x
  D1 = D1
  D2 = D2
  r1 = r1
  r2 = r2
  r3 = r3
  r4 = r4
  r5 = r5
  r6 = r6
  r7 = r7
  enc = enc
  bytes = bytes
  ChainLogs <- MCChainLogs
  HandleKey <- MCHandleKey
  HandleIdOf <- MCHandleIdOf
  DomainId <- MCDomainId
  ChainEventRef <- MCChainEventRef
  SystemCiphertext <- MCCiphertext
  KeyId = {key}
  ChainEvents <- DecodedEvents
  OrphanSignals <- MCOrphanSignals
SPECIFICATION GraphSpec
INVARIANTS
  TypeOK
  ValidLineage
  AcyclicLineage
  ConsumedAccounted
  DiscardIsGrounded
  LineageWithinContract
PROPERTIES
  RecordLifecycle
  DiscardCascades
  ImplementsView
