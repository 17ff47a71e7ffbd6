SPECIFICATION DeliverySpec
CONSTANTS
  QueueSize = 2
  Attempts <- TwoTries
  Answering = {"ntfy"}
  MaxEnqueued = 3
INVARIANT
  NewestIsKept
PROPERTIES
  HeardInOrder
  EndpointsAreIndependent
  StopReturns
CHECK_DEADLOCK FALSE
