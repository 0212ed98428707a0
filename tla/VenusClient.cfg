CONSTANTS
  None = None
  MaxAge = 2
  ReadLimit = 1
  Recovery = 1
  Callers = {loop, watchdog}
  SetCalls = 3
  Names = {n1, n2}
  Services = {s1, s2}
  FailThreshold = 2
  Refusals = 1
  Seeds = 1
  GridChanges = 2
  WriteBreaks = 1
  Breaks = 2
  Moves = 2
  ShuntChanges = 2
  Failures = 1
  Requests = {r1, r2}
  Remembered = 1
  Choices = 2
  Chains = {c1, c2}
  Readings <- CellReadings
  MaxCharge = 1000
  MaxDischarge = 1200
  MinCharge = 20
  ChargeRate = 400
  DischargeRate = 600
  CellInterval = 1
  CellChanges = 1
  ClockSteps = 1
  ReaderAge = 2
  ReaderInterval = 1
  DiscoveryTtl = 3
  RoleChanges = 2
  Errors = 1
SPECIFICATION FairSpec
INVARIANTS GridIsTrusted NeverOlderThanAcknowledged BindingsAreCurrent MeasurementsAreCurrent CellsAreProtected
PROPERTIES LiveConnectionKept DevicesAreFound SelectionIsHonest
CHECK_DEADLOCK FALSE
