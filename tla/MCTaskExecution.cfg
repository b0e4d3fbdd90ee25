CONSTANTS
  a = a
  b = b
  p = p
  d = d
  c = c
  image = image
  other = other
  key1 = key1
  key2 = key2
  Radix = 2
  Length = 2
  HandleKey <- MCHandleKey
  Sources <- MCSources
  SourcePayloads <- MCSourcePayloads
  Programs <- MCPrograms
  Enclave <- MCEnclave
  ApprovedMeasurement = image
  MaxLate = 2
  MpcRequestId <- EnclaveTaskId
SPECIFICATION Spec
CHECK_DEADLOCK FALSE
INVARIANTS
  ExecutionTypeOK
  ResultsCorrect
  ReceiptTruthful
PROPERTIES
  RefusalIsExplained
