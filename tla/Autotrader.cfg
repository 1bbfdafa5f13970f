SPECIFICATION FairProgramSpec
CONSTANTS
  U64 = 1048576
  Files <- MCFiles
  QueueSize = 3
  DropPolicy = "DropOldest"
  MaxEvents = 9
  PriceMax = 2
  U16 = 4
  U32 = 8
  Int64Max = 7
  NsPerSecond = 4
  Messages <- MCMessages
  LogRawMessages = FALSE
  MaxReceived = 3
  MaxErrors = 1
  MaxControls = 0
INVARIANTS
  ProgramTypeOK
  FailureIsOnDisk
  NothingOutlivesMain
  LogBehindCapture
  HolesInLogExplained
  LastWordOnDisk
PROPERTIES
  ImplementsStartup
  MessageReachesLog
