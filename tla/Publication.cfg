CONSTANTS
  Requests = {r1, r2}
  Options <- MCOptions
  Patches <- MCPatches
  Initial <- MCInitial
  Top = 2
  MaxWrites = 3
SPECIFICATION PublicationSpec
INVARIANTS
  PowerLossKeepsSettings
  AppliedIsStored
  LocationStops
PROPERTY
  UpdateReturns
