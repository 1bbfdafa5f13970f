CONSTANTS
  QueueSize = 2
  DropPolicy = "DropNewest"
  MaxEvents = 6
SPECIFICATION FairSpec
PROPERTIES
  ImplementsLossyLog
  DropsGetReported
