CONSTANTS
  Askers = {r1, r2}
  Attempts = 3
  MaxTests = 3
SPECIFICATION SpeedTestSpec
INVARIANTS
  OneTest
  ResultsOnce
PROPERTIES
  NothingAfterWait
  TestEnds
