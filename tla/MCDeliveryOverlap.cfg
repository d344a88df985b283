\* Two overlapping owners, one flight whose gate moves.
CONSTANTS
  f1 = f1
  r1 = r1
  r2 = r2
  Flights = {f1}
  Runners = {r1, r2}
  NoRunner = none
  Events <- OverlapEvents
  PhaseReasons <- Phases
  Mutable <- Moving
  MaxNotices = 2
  Retry = 2
  KillAfter = 1
  Lifetimes = {3}
  Polls = {0, 1}
  MaxNow = 3
  MaxSequence = 2
SYMMETRY SameRunners
SPECIFICATION Spec
INVARIANTS TypeOK JournalValid OnePendingPerTopic ReceiptsAreReal NoDoubleHandling
PROPERTY ReceiptsSurvive
CHECK_DEADLOCK FALSE
