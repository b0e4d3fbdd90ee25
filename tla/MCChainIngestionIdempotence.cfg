CONSTANTS
  a = a
  b = b
  d = d
  c = c
  D1 = D1
  r1 = r1
  r2 = r2
  r3 = r3
  s2 = s2
  s3 = s3
  s4 = s4
  enc = enc
  HandleKey <- MCHandleKey
  HandleIdOf <- MCHandleIdOf
  DomainId <- MCDomainId
  ChainEventRef <- MCChainEventRef
  SystemCiphertext <- MCCiphertext
  KeyId = {key}
  ChainEvents <- MCChainEvents
  OrphanSignals = {}
  LogPosition <- MCLogPosition
  Fork = 1
  Branch <- MCBranch
  MaxHeight = 5
SPECIFICATION Spec
PROPERTIES
  PassIsIdempotent
