CONSTANTS
  a = a
  d = d
  c = c
  f = f
  D1 = D1
  r1 = r1
  r3 = r3
  r4 = r4
  r6 = r6
  r7 = r7
  enc = enc
  HandleKey <- MCHandleKey
  HandleIdOf <- MCHandleIdOf
  DomainId <- MCDomainId
  ChainEventRef <- MCChainEventRef
  SystemCiphertext <- MCCiphertext
  KeyId = {key}
  ChainEvents <- MCChainEvents
  OrphanSignals <- MCOrphanSignals
SPECIFICATION Spec
INVARIANTS
  OutcomeIsDelta
PROPERTIES
  ImplementsAtomic
  DiscardTerminates
