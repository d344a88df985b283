CONSTANTS
  out = out
  back = back
  gym = gym
  Legs <- MCLegs
  Owner <- MCOwner
  Skippable <- MCSkippable
  Sweeps <- MCSweeps
  Bounded <- MCSweeps
  Plans <- MCPlans
  Storm <- MCStorm
  Drives <- MCDrives
  Blind = Blind
  Off = Off
  Tolerance = 1
  SkipPad = 1
  Moves = {1}
  MaxNow = 2
  MaxBlocks = 9
  MaxChanges = 2
  MaxFaults = 1
SPECIFICATION FairSpec
CHECK_DEADLOCK FALSE
INVARIANTS TypeOK
PROPERTIES NoNewDuplicates KnownDrivesStay Converges SkipTakesHold
