CONSTANTS
  f1 = f1
  Flights = {f1}
  Threshold = 2
  Stale = 1
  MaxCount = 4
  MaxChanges = 3
  MaxFaults = 2
SPECIFICATION FairSpec
INVARIANTS TypeOK AlertIsTrue OutageSurfaces RecoverySurfaces RemovalsReported
PROPERTIES IndexFollows
