CONSTANTS
  Clients = {c1, c2}
  SubscribeChunks = 0
  AutoReconnect = TRUE
  InitialDelay = 2
  MaxDelay = 5
  MaxMessages = 2
SPECIFICATION FairSpec
INVARIANTS
  MessageLimit
  HandlersRunOnOwnedClient
PROPERTIES
  ReplacesOnlyDeadClients
  ImplementsSession
