SPECIFICATION EvaluationSpec
CONSTANTS
  Causes = {}
  PathHold = 1
  SeenRetention = 1
  MaxReports = 0
  Alerts = {"outage_started", "dish_unreachable"}
  Catalog <- BothCatalog
  RuleTables <- OneTable
  RebootWindow = 2
  Reboots = TRUE
  StoreStates = {TRUE, FALSE}
  MaxTime = 3
  MaxRestarts = 1
INVARIANTS
  UnreachableAlarmed
  AlarmTracksOutage
  OwnOutagesFire
PROPERTIES
  NoAlarmInWindow
CHECK_DEADLOCK FALSE
