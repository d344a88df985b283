\* Five journeys; four instants; byAir or the user changes two things, and
\* the router fails in one sweep.
CONSTANTS
  home = home
  airA = airA airB = airB airB2 = airB2 airC = airC
  hotelB = hotelB deskB = deskB hallB = hallB barB = barB cityB = cityB hotelC = hotelC
  conf = conf brief = brief dinner = dinner
  Home = home
  HomeAirports <- MCHomeAirports
  Nowhere = Nowhere
  Failed = Failed
  Past <- MCPast
  Future = 10000
  Day = 288
  SameTransport = 72
  Slept = 72
  Tolerance = 72
  Country <- MCCountry
  Schengen = {}
  US = US
  Nudge <- MCNudge
  ClearanceDomestic = 12
  ClearanceInternational = 24
  PostDomestic = 4
  PostToUS = 8
  PostAbroad = 12
  Grace = 1
  Tight = 18
  MaxMeetingDrive = 36
  MinDrive = 0
  Window = 4032
  MaxAirportDrive = 72
  Scenarios <- MCScenarios
  Route <- MCRoute
  City <- MCCity
  Trivial = 2
  GpsMargin = 8
  Instants <- MCInstants
  Outages <- MCOutages
  Fixes <- MCFixes
  Delays <- MCDelays
  MaxChanges = 2
  MaxFaults = 1
SPECIFICATION Spec
CHECK_DEADLOCK FALSE
INVARIANTS StayInCity NoDriveInFlight SeamsCovered TransfersTold OneDrivePerLeg CancelledStaysOff
PROPERTIES QuietSweep
