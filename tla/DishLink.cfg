CONSTANTS
  Devices = {eth, wwan}
  None = none
  Requests = {r}
  MaxChanges = 1
  MaxWrites = 1
  MaxFailures = 1
SPECIFICATION Spec
INVARIANTS
  ClearedMapIsGone
PROPERTY
  LinkRecovers
