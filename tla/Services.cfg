CONSTANTS
  None = None
  Batch = 2  Retained = 1  Lines = 3  Files = 3  Crashes = 1
  Threads = {http, mqtt}  Requests = {r1, r2}  Capacity = 1  Faults = 2
  QueueSize = 2  Edits = 2  Drops = 2
  LoadCount = 3  OpenThreshold = 2  Generations = 4
  TrimMaxAge = 1  SettleTime = 1  Delay = 1  Window = 2  MinReports = 2  MaxTotal = 1  Horizon = 4  Events = 1
  Meters = {m1, m2}  Day = 2  EnergyMaxAge = 2  Uptime = 2  Energy = 1  Upsets = 1
  Runs = {1, 2, 3}  Bases = {1}  Failures = 1  Commits = 2  Deletions = 1  Dispatched = {1}
  Signals = 2
  Tariffs = {p1, p2}  TariffEdits = {e1, e2}  Absolute = 1  Reboots = 1  Installs = 1
  Disturbances = 1
  Loads <- SiteLoads  Modes <- SiteModes  Ranges <- SiteRanges
SPECIFICATION FairSpec
INVARIANTS NoLineSkipped QueuedAtMostOnce StoppedMeansStopped CorrectionsRestOnEvidence CompleteDayIsExact ChoicesSurvive
PROPERTIES CurrentStatusIsSent StaleReplacesNothing ProcessEnds Regulates
CHECK_DEADLOCK FALSE
