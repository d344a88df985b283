CONSTANTS
  f1 = f1
  f2 = f2
  Flights <- MCTwo
  None = None
  Pad = 0
  Relist = TRUE
  MaxDep = 1
  MaxEvents = 4
  MaxChanges = 2
  MaxMishaps = 1
  MaxFails = 1
SPECIFICATION FairSpec
CHECK_DEADLOCK FALSE
INVARIANTS EveryBlockTracked LedgerOwn
PROPERTIES Settles
