CONSTANTS
  None = None
  ControlValues = {5}
  OverrideValues = {7}
  HoldEnabled = TRUE
  Hold = 2
  Timeout = 1
  CheckInterval = 1
  RefreshInterval = 2
  RetryInterval = 1
  OverrideInterval = 2
SPECIFICATION Spec
INVARIANTS
  OverrideOwnsOutput
  FallbackConfirmed
  RestoreIsBaseline
  EpisodeConsistent
PROPERTIES
  RecoveryHasEvidence
  NoReplayAfterMeterLoss
  DrySuppressesAutomatic
  ImplementsArbiter
