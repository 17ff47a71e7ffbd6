SPECIFICATION EvaluationSpec
CONSTANTS
  Causes = {}
  PathHold = 1
  SeenRetention = 1
  MaxReports = 0
  Alerts = {"outage_started"}
  Catalog <- OutageCatalog
  RuleTables <- OneTable
  RebootWindow = 2
  Reboots = FALSE
  StoreStates = {FALSE}
  MaxTime = 4
  MaxRestarts = 0
INVARIANT ContinuesWithoutStore
CHECK_DEADLOCK FALSE
