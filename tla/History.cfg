CONSTANTS
  Workers = {w}
  Handlers = {h}
  Events = {e1, e2}
  MaxPending = 1
  Minute = 2
  Quarter = 4
  RAMTicks = 3
  Backfilled = 2
  MinuteRetention = 3
  QuarterRetention = 4
  MaxTime = 5
  MaxFailures = 1
SPECIFICATION Spec
INVARIANTS
  EventsOnce
  CleanStopSavesAll
  RowsAreComplete
CHECK_DEADLOCK FALSE
