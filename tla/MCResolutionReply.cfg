CONSTANTS
  q = q
  a = a
  b = b
  d = d
  c = c
  D1 = D1
  r1 = r1
  r2 = r2
  r3 = r3
  r4 = r4
  r5 = r5
  enc_a = enc_a
  enc_b = enc_b
  RequestId = {q}
  HandleKey <- MCHandleKey
  HandleIdOf <- MCHandleIdOf
  DomainId <- MCDomainId
  ChainEventRef <- MCChainEventRef
  SystemCiphertext <- MCCiphertext
  KeyId = {key}
  ChainEvents <- MCChainEvents
  OrphanSignals <- MCOrphanSignals
  Execute <- MCExecute
  MaxAttempts = 2
SPECIFICATION DrivenSpec
PROPERTIES
  ReplyReflectsState
