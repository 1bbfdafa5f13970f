SPECIFICATION Spec
CONSTANTS
  Clients = {c1, c2}
  SubscribeChunks = 2
  InitialDelay = 2
  MaxDelay = 3
  PriceMax = 2
  U16 = 4
  U32 = 8
  Int64Max = 7
  NsPerSecond = 4
  Messages <- MCMessages
  LogRawMessages = FALSE
  MaxMessages = 2
  MaxReceived = 3
  MaxErrors = 2
  MaxControls = 1
PROPERTIES
  ImplementsMarketFeed
