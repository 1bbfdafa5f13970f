CONSTANTS
  Clients = {c1, c2}
  SubscribeChunks = 1
  AutoReconnect = TRUE
  InitialDelay = 2
  MaxDelay = 5
  MaxMessages = 0
SPECIFICATION Spec
ACTION_CONSTRAINT LossIsReportedFirst
INVARIANTS
  HandlersRunOnOwnedClient
