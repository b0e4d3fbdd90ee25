CONSTANTS
  a = a
  d = d
  c = c
  D1 = D1
  r1 = r1
  r2 = r2
  r3 = r3
  r4 = r4
  enc = enc
  HandleKey <- MCHandleKey
  HandleIdOf <- MCHandleIdOf
  DomainId <- MCDomainId
  ChainEventRef <- MCChainEventRef
  SystemCiphertext <- MCCiphertext
  KeyId = {key1, key2}
  ChainEvents <- MCChainEvents
  OrphanSignals <- MCOrphanSignals
SPECIFICATION Spec
INVARIANTS
  DurableTypeOK
  ConsumedIsBound
  StoreMirrors
  DurableLineage
PROPERTIES
  DurableLifecycle
  DiscardHeals
  AcknowledgedSurvives
