CONSTANTS
  Devices = {wan, eth}
  Interfaces = {wan, wwan}
  None = none
  Requests = {r1, r2}
  Override = none
  MaxChanges = 2
  MaxFailures = 1
SYMMETRY MCSymmetry
SPECIFICATION Spec
INVARIANTS
  OnePlan
  AppliedIsLoaded
CHECK_DEADLOCK FALSE
