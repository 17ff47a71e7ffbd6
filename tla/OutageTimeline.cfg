SPECIFICATION Spec
CONSTANTS
  Causes = {"OBSTRUCTED"}
  PathHold = 1
  SeenRetention = 0
  RebootWindow = 2
  MaxReports = 1
  MaxTime = 2
  Queries = TRUE
INVARIANTS
  EndedIsStored
  AnnouncedOnce
  PathOutageIsSustained
  QueryComplete
CHECK_DEADLOCK FALSE
