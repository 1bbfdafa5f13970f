SPECIFICATION Spec
CONSTANTS
  PriceMax = 2
  U16 = 4
  U32 = 8
  Int64Max = 7
  NsPerSecond = 4
  Messages <- MCMessages
  LogRawMessages = TRUE
  MaxMessages = 3
  MaxReceived = 4
  MaxErrors = 1
  MaxControls = 1
INVARIANTS
  TypeOK
  SinkGetsTheWellFormed
  NothingTruncated
  OneOutcomePerMessage
  HolesAreExplained
