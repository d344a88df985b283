CONSTANTS
  one = one
  two = two
  hub = hub
  home = home
  there = there
  None = None
  Legs = {one, two}
  Dep <- MCDep
  Arr <- MCArr
  From <- MCFrom
  To <- MCTo
  TripOf <- MCTripOf
  Wide = {two}
  Trips <- MCTrips
  TripLead = 7
  TripTrail = 9
  Horizon = 9
  DayBefore = 8
  Lookahead = 9
  QueryWindow = 6
  Base <- MCBase
  Near = 3
  NearWindow = 6
  Final = 1
  FinalWindow = 2
  SchedulerTick = 2
  Gaps = {1, 2}
  Buffer = 1
  ArrivalLead = 1
  NarrowLead = 1
  WideLead = 2
  MinTransfer = 2
  Retry = 2
  Life = 4
  Travels = {1, 3}
  Reports <- MCReports
  Slips <- MCSlips
  MaxNow = 11
  MaxChanges = 2
  MaxFaults = 1
SPECIFICATION Spec
CHECK_DEADLOCK FALSE
INVARIANTS NoMootNotice RiskIsReal
PROPERTIES TimelyPollTells RetryIsFresh
