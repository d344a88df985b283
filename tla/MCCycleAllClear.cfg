\* The reply to an estimate is lost, then byAir withdraws it.
CONSTANTS
  f1 = f1
  r1 = r1
  Flights = {f1}
  Runners = {r1}
  NoRunner = none
  None = None
  NoGate = NoGate
  MaxNotices = 9
  Retry = 1
  MaxNow = 3
  MaxSequence = 9
  Gates = {g1, g2}
  Deps = {3}
  Inbounds = {0, 2}
  Scheduled = 3
  Lead = 1
  GateLead = 1
  DelayThreshold = 2
  InboundThreshold = 2
  InboundDedupe = 1
  Life = 3
  MaxChanges = 2
SPECIFICATION Spec
CHECK_DEADLOCK FALSE
INVARIANT AllClearHeard
