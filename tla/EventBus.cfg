SPECIFICATION Spec
CONSTANTS
  Clients = {c1, c2}
  Buffer = 2
  MaxPublished = 4
INVARIANTS
  ChannelsAreSafe
  CloseWaits
PROPERTIES
  CloseTerminates
  FeedIsWhole
CHECK_DEADLOCK FALSE
