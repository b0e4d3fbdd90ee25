CONSTANTS
  Base = 128
  InfoBase = 16
  InlineEnd = 10
  Width <- MCWidth
  IdLength = 1
  ContractLength = 2
  NonceLength = 1
  IsUtf8 <- MCIsUtf8
  Messages <- MCMessages
  Byte <- MCByte
  MaxEdits = 2
SPECIFICATION Spec
INVARIANTS
  RoundTrip
  Canonical
  OneReading
CHECK_DEADLOCK FALSE
