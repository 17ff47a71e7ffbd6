CONSTANTS
  Requests = {r1, r2}
  Mutations <- MCMutations
  AppWrites <- MCAppWrites
  Initial <- MCInitial
  MaxChanges = 2
  MaxFailures = 1
SYMMETRY MCSymmetry
SPECIFICATION Spec
INVARIANTS
  ForeignChangesKept
  AcceptedHolds
  WritesWhatWasShown
CHECK_DEADLOCK FALSE
