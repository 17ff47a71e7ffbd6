SPECIFICATION Spec
CONSTANTS
  Alerts <- SmallAlerts
  Catalog <- SmallCatalog
  RuleTables <- SmallTables
  Signals <- SmallSignals
  Averages = {"clear", "raised"}
  OutageSets <- NoOutages
  MwanSets = {wan, wwan}
  CacheFor = 2
  RebootWindow = 3
  MaxTime = 3
  MaxRestarts = 1
SYMMETRY Symmetry
INVARIANTS
  StateIsSaved
  NotifiedOnce
  LatchIsAnnounced
  BaselineIsTold
PROPERTIES
  ClearIsHeld
  ObstructionIsRecent
CHECK_DEADLOCK FALSE
