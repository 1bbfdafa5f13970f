CONSTANTS
  QueueSize = 2
  DropPolicy = "DropOldest"
  MaxEvents = 3
SPECIFICATION FairSpec
PROPERTIES
  DestructorReturns
