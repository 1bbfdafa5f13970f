CONSTANTS
  Clients = {c1, c2}
  SubscribeChunks = 2
  AutoReconnect = TRUE
  InitialDelay = 2
  MaxDelay = 5
  MaxMessages = 0
SPECIFICATION Spec
INVARIANTS
  PayloadIntact
