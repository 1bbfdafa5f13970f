CONSTANTS
  QueueSize = 2
  DropPolicy = "DropOldest"
  MaxEvents = 6
SPECIFICATION FairSpec
INVARIANTS
  TypeOK
  InOrder
  Conservation
  NewestKept
  IdleOwesNothing
  CrashLossBounded
  FlushedAtDestruction
PROPERTIES
  ImplementsLossyLog
  DropsGetReported
