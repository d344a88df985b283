CONSTANTS
  N = 3
  Failing = {1}
  Damaged = {2, 3}
  Cadence = 2
  KillBudget = 75
  DeliveryReserve = 45
  Teardown = 4
  ByAir = 6
  Maps = 8
  Reader = 5
  Reply = 15
  CalendarRead = 15
  ReconcileLimit = 30
  Seconds <- MCSeconds
  FailSeconds <- MCFailing
  MaxMessages = 2
SPECIFICATION BudgetSpec
INVARIANTS FitsKillBudget NobodyStarves
